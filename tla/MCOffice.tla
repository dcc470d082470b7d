------------------------------- MODULE MCOffice -------------------------------
(***************************************************************************)
(* The modules of the back office for TLC: the connection to Jifeng, the   *)
(* pictures on disk, the cargo sheet, its migration, the sheet that shows  *)
(* the stock, products and SKUs, accounts, and the heartbeat of the        *)
(* worker. They share no state: the variable scene says which of them      *)
(* moves, so that one run holds the sum of their states and not the        *)
(* product.                                                                *)
(***************************************************************************)
EXTENDS Naturals, FiniteSets, TLC

CONSTANTS Procs, Resources, MaxClock, MaxTokens, Life,      \* JifengConnection
          Digests, MaxFiles,                                \* AssetStore
          Runs, MaxVersion, MaxAttempts,                    \* CargoMigration
          Skus, Products, Sequences, None, Free,            \* Catalog
          Accounts, Customers, Addresses, Missing,          \* Accounts
          Pids, MaxAge,                                     \* WorkerHealth
          SkuCodes, MaxRows, MaxFlaws,                      \* CargoSheet
          Items, MaxStock, MaxChanges,                      \* CargoTarget
          Nothing, Nobody

ASSUME OfficeAssumption ==
    /\ Nobody \notin Procs /\ Nothing \notin Procs
    /\ None \notin Products \cup Sequences /\ Skus \cap Products = {}
    /\ Accounts \cap Customers = {}
    /\ Missing \notin BOOLEAN \cup [banned : BOOLEAN, address : Addresses]
    /\ MaxAge \in Nat /\ Life \in Nat \ {0}
    /\ Items \subseteq Nat /\ IsFiniteSet(Items) /\ MaxStock \in Nat

VARIABLES conn, call, refreshLock, clock, good, issued, spent, resent, lost, proved, blind
VARIABLES access, lock, scratch, staged, final, given, closed, committed, links
VARIABLES version, run, confirm, importLock, refresh, started, attempts, catalog, refreshed
VARIABLES product, code, archived, priced, sellable, sequence, txn, owner
VARIABLES auth, mirror, customer, extras, shops, change, holder
VARIABLES worker, file, torn, quiet
VARIABLES sheet, column
VARIABLES stock, target, waiting, unannounced, job, settled, changes
VARIABLE scene

connVars == <<conn, call, refreshLock, clock, good, issued, spent, resent, lost, proved, blind>>
assetVars == <<access, lock, scratch, staged, final, given, closed, committed, links>>
migrationVars == <<version, run, confirm, importLock, refresh, started, attempts, catalog, refreshed>>
catalogVars == <<product, code, archived, priced, sellable, sequence, txn, owner>>
accountVars == <<auth, mirror, customer, extras, shops, change, holder>>
healthVars == <<worker, file, torn, quiet>>
sheetVars == <<sheet, column>>
targetVars == <<stock, target, waiting, unannounced, job, settled, changes>>
all == <<connVars, assetVars, migrationVars, catalogVars, accountVars, healthVars, sheetVars, targetVars, scene>>

Connection == INSTANCE JifengConnection
Assets == INSTANCE AssetStore WITH Callers <- Procs, call <- access
Migration == INSTANCE CargoMigration WITH Staff <- Procs
Goods == INSTANCE Catalog WITH Admins <- Procs
People == INSTANCE Accounts WITH Staff <- Procs, txn <- change, owner <- holder
Health == INSTANCE WorkerHealth
Sheet == INSTANCE CargoSheet
Target == INSTANCE CargoTarget WITH Jobs <- Procs, Pictures <- Resources

Init ==
    /\ Connection!Init /\ Assets!Init /\ Migration!Init /\ Goods!Init /\ People!Init /\ Health!Init /\ Sheet!Init
    /\ Target!Init
    /\ scene \in {"connection", "assets", "migration", "catalog", "accounts", "health", "sheet", "target"}
    /\ scene = "connection" \/ blind = {}
    /\ scene = "assets" \/ links
    /\ scene = "sheet" \/ column = "price"
    /\ \A i \in Items : stock[i] = None \/ (scene = "target" /\ stock[i].reserved = 0)

Next ==
    /\ UNCHANGED scene
    /\ \/ /\ scene = "connection" /\ Connection!Next
          /\ UNCHANGED <<assetVars, migrationVars, catalogVars, accountVars, healthVars, sheetVars, targetVars>>
       \/ /\ scene = "assets" /\ Assets!Next
          /\ UNCHANGED <<connVars, migrationVars, catalogVars, accountVars, healthVars, sheetVars, targetVars>>
       \/ /\ scene = "migration" /\ Migration!Next
          /\ UNCHANGED <<connVars, assetVars, catalogVars, accountVars, healthVars, sheetVars, targetVars>>
       \/ /\ scene = "catalog" /\ Goods!Next
          /\ UNCHANGED <<connVars, assetVars, migrationVars, accountVars, healthVars, sheetVars, targetVars>>
       \/ /\ scene = "accounts" /\ People!Next
          /\ UNCHANGED <<connVars, assetVars, migrationVars, catalogVars, healthVars, sheetVars, targetVars>>
       \/ /\ scene = "health" /\ Health!Next
          /\ UNCHANGED <<connVars, assetVars, migrationVars, catalogVars, accountVars, sheetVars, targetVars>>
       \/ /\ scene = "sheet" /\ Sheet!Next
          /\ UNCHANGED <<connVars, assetVars, migrationVars, catalogVars, accountVars, healthVars, targetVars>>
       \/ /\ scene = "target" /\ Target!Next
          /\ UNCHANGED <<connVars, assetVars, migrationVars, catalogVars, accountVars, healthVars, sheetVars>>
Spec == Init /\ [][Next]_all

\* What is outside is not explored further: a long history when a process has the wrong
\* key, two SKUs that are not offered, two changes under way while there are both an
\* administrator and a customer, and sheets that begin with a row without a SKU.
Quiet ==
    /\ sheet = <<>> \/ sheet[1].sku # None
    /\ blind = {} \/ clock < MaxClock
    /\ Cardinality({s \in Skus : product[s] # None /\ s \notin priced \ archived}) <= 1
    /\ (\A u \in DOMAIN auth : auth[u] # Missing) => \E a \in Procs : change[a] = People!NoTxn

\* In the sheet, one code that tells its sequence, and others that do not.
SheetCodes == {<<1, Nobody>>} \cup {<<Free, x>> : x \in Skus}

\* SKUs, runs and addresses have the same names, and so have everybody who does something.
Symmetry == Permutations(Procs) \cup Permutations(Skus) \cup Permutations(Products)

\* Orders are only looked up over a connection whose diagnostic passed since it was changed.
EnabledIsProved == Connection!EnabledIsProved
\* No process sends a refresh token that another has used up.
RefreshTokensSentOnce == Connection!RefreshTokensSentOnce
\* A late failure does not undo a new authorization.
OnlyOwnFailure == Connection!OnlyOwnFailure
\* What a caller was told is stored is on disk.
AssetsSurvive == Assets!AssetsSurvive
\* A row of the sheet is read as it looks.
SheetReadRight == Sheet!SheetReadRight
\* The target sheet shows the stock once nothing is left to do.
TargetShowsStock == Target!TargetShowsStock
\* The sheet is migrated once.
OneImported == Migration!OneImported
\* No synchronisation writes an older sheet over a newer one.
NoOlderSheet == Migration!NoOlderSheet
\* Codes, products, prices and the marks of SKUs agree.
CatalogConsistent == Goods!CatalogConsistent
\* An account is closed and opened by decisions only.
OnlyDecisionsBan == People!OnlyDecisionsBan
\* A worker that is called healthy works.
HealthyMeansWorking == Health!HealthyMeansWorking
=============================================================================
