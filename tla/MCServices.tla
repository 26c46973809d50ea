----------------------------- MODULE MCServices -----------------------------
(* PluginModals, SharedTTLCache and Migrations for TLC.  They share no state, *)
(* and one run checks their behaviours side by side: focus says which of them *)
(* moves.                                                                     *)
EXTENDS PluginModals, SharedTTLCache, Migrations

VARIABLE focus

\* Rows of each kind alone, and the two that both concern a prompt's project.
MCLegacyRows == {{k} : k \in RowKinds} \cup {{"blank", "padded"}}

ServicesInit ==
    /\ ModalInit /\ CacheInit /\ MigrationsInit
    /\ focus \in {"modals", "cache", "migrations"}
    /\ focus # "migrations" => dialect = "sqlite" /\ disk.tables = << >>

ServicesNext ==
    /\ UNCHANGED focus
    /\ \/ focus = "modals" /\ ModalNext /\ UNCHANGED <<cacheVars, migVars>>
       \/ focus = "cache" /\ CacheNext /\ UNCHANGED <<sessionVars, migVars>>
       \/ focus = "migrations" /\ MigrationsNext /\ UNCHANGED <<sessionVars, cacheVars>>

ServicesSpec ==
    /\ ServicesInit /\ [][ServicesNext]_<<sessionVars, cacheVars, migVars, focus>>
    /\ ModalFairness /\ CacheFairness
=============================================================================
