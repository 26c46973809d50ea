----------------------------- MODULE MCAccounts -----------------------------
(* Accounts for TLC. *)
EXTENDS Accounts, TLC

MCFolded == [n \in Names |-> IF n = "Demo" THEN "demo" ELSE n]

MCFirstAdmins == ("u1" :> "ann") @@ ("u2" :> "demo")

MCAccessLists == {{}, {"demo"}}

MCChanges ==
    {[NoChange EXCEPT !.role = "admin"],
     [NoChange EXCEPT !.role = "developer", !.lists = {{"demo"}}],
     [NoChange EXCEPT !.active = FALSE],
     [NoChange EXCEPT !.name = "Demo"]}
=============================================================================
