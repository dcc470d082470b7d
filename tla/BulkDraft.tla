----------------------------- MODULE BulkDraft -----------------------------
(***************************************************************************)
(* Drafts in which a customer collects the files of several stores, their  *)
(* validation, and the submission that makes one order of each store       *)
(* (src/modules/bulk-order), next to the submission of single files.       *)
(*                                                                         *)
(* A bulk submission holds its draft FOR UPDATE all along. It reads which  *)
(* files there are, locks them and judges the groups, locks the numbers it *)
(* is about to use and looks for orders that have them, and creates the    *)
(* orders: four steps, between which single submissions, expiry,           *)
(* cancellations and the submission of another draft may come. The stock   *)
(* and money of the orders are in Inventory and Payments.                  *)
(***************************************************************************)
EXTENDS Naturals, Sequences, FiniteSets, SequencesExt

CONSTANTS Drafts, Stores, Files,
          Numbers,      \* Numbers[f]: the sub-orders in a file
          Hash,         \* Hash[f]: the digest of a file's contents
          Keys,         \* idempotency keys of submissions
          None, MaxOrders

VARIABLES draft,   \* bulk_import_drafts.status, or "NONE"
          late,    \* expires_at of the draft and of its files has passed
          group,   \* bulk_import_store_groups with their files in upload order
          file,    \* order_import_batches: status, rows that are DUPLICATE, all SKUs known
          orders,  \* orders by age: who made them, numbers, and whether they are alive
          op,      \* the transaction that runs for a key
          result   \* bulk_submission_requests

bulkVars == <<draft, late, group, file, orders, op, result>>

Groups == Drafts \X Stores
GroupsOf(d) == {g \in Groups : g[1] = d /\ group[g].status # "NONE"}
FilesOf(g) == ToSet(group[g].files)
NumbersOf(g) == UNION {Numbers[f] : f \in FilesOf(g)}
NoFile == [status |-> "NONE", old |-> {}, known |-> TRUE]
Idle == [at |-> "idle"]

Init ==
    /\ draft = [d \in Drafts |-> "NONE"] /\ late = [d \in Drafts |-> FALSE]
    /\ group = [g \in Groups |-> [status |-> "NONE", files |-> <<>>]]
    /\ file = [f \in Files |-> NoFile]
    /\ orders = <<>>
    /\ op = [k \in Keys |-> Idle] /\ result = [k \in Keys |-> None]

Locked(d) == \E k \in Keys : op[k] # Idle /\ op[k].draft = d
FileLocked(f) == \E k \in Keys : op[k].at \in {"judged", "checked"} /\ f \in op[k].files

\* Orders that count as duplicates.
Alive == {orders[i] : i \in {j \in DOMAIN orders : orders[j].alive}}

-----------------------------------------------------------------------------
(* The draft                                                                *)

\* createBulkDraft gives the empty draft again when there is one.
CreateDraft(d) ==
    /\ draft[d] = "NONE"
    /\ ~\E e \in Drafts : draft[e] = "DRAFT" /\ ~late[e] /\ GroupsOf(e) = {}
    /\ draft' = [draft EXCEPT ![d] = "DRAFT"]
    /\ UNCHANGED <<late, group, file, orders, op, result>>

\* Foreign keys keep a draft with a request, or with a file that is in an order.
Discard(d) ==
    /\ draft[d] = "DRAFT" /\ ~Locked(d)
    /\ \A k \in Keys : result[k] # None => result[k].draft # d
    /\ \A g \in GroupsOf(d) : \A f \in FilesOf(g) : file[f].status # "SUBMITTED" /\ ~FileLocked(f)
    /\ draft' = [draft EXCEPT ![d] = "NONE"] /\ late' = [late EXCEPT ![d] = FALSE]
    /\ group' = [g \in Groups |-> IF g[1] = d THEN [status |-> "NONE", files |-> <<>>] ELSE group[g]]
    /\ file' = [f \in Files |-> IF \E g \in GroupsOf(d) : f \in FilesOf(g) THEN NoFile ELSE file[f]]
    /\ UNCHANGED <<orders, op, result>>

\* lockOwnedWritableDraft. That it marks an overdue draft EXPIRED is rolled back.
Writable(d) == ~Locked(d) /\ ~late[d] /\ draft[d] \in {"DRAFT", "PARTIALLY_SUBMITTED"}

AddGroup(g) ==
    /\ Writable(g[1]) /\ group[g].status = "NONE"
    /\ group' = [group EXCEPT ![g].status = "PREVIEW"]
    /\ UNCHANGED <<draft, late, file, orders, op, result>>

\* Also into a group that is submitted. Only orders of the same store make a row DUPLICATE.
Upload(g, f, known) ==
    /\ Writable(g[1]) /\ group[g].status # "NONE" /\ file[f] = NoFile
    /\ group' = [group EXCEPT ![g].files = Append(@, f)]
    /\ file' = [file EXCEPT ![f] =
          [status |-> "PREVIEW", known |-> known,
           old |-> Numbers[f] \cap UNION {o.numbers : o \in {x \in Alive : x.store = g[2]}}]]
    /\ UNCHANGED <<draft, late, orders, op, result>>

RemoveFile(g, f) ==
    /\ Writable(g[1]) /\ file[f].status # "SUBMITTED"
    /\ \E i \in DOMAIN group[g].files :
          /\ group[g].files[i] = f
          /\ group' = [group EXCEPT ![g].files = RemoveAt(@, i)]
    /\ file' = [file EXCEPT ![f] = NoFile]
    /\ UNCHANGED <<draft, late, orders, op, result>>

\* The rows of a file get their SKUs (ImportBatch), or lose one that is withdrawn.
RowsChange(g, f) ==
    /\ f \in FilesOf(g) /\ file[f].status = "PREVIEW" /\ ~late[g[1]] /\ ~FileLocked(f)
    /\ file' = [file EXCEPT ![f].known = ~@]
    /\ UNCHANGED <<draft, late, group, orders, op, result>>

\* getBulkDraft
SeeDraft(d) ==
    /\ late[d] /\ draft[d] \in {"DRAFT", "PARTIALLY_SUBMITTED"} /\ ~Locked(d)
    /\ draft' = [draft EXCEPT ![d] = "EXPIRED"]
    /\ UNCHANGED <<late, group, file, orders, op, result>>

Expires(d) ==
    /\ draft[d] # "NONE" /\ ~late[d]
    /\ late' = [late EXCEPT ![d] = TRUE]
    /\ UNCHANGED <<draft, group, file, orders, op, result>>

-----------------------------------------------------------------------------
(* What a group would order                                                 *)

\* Groups of one draft may share neither a file nor a number, submitted or not.
CrossStore(g) ==
    \E h \in GroupsOf(g[1]) \ {g} :
        \/ NumbersOf(g) \cap NumbersOf(h) # {}
        \/ {Hash[f] : f \in FilesOf(g)} \cap {Hash[f] : f \in FilesOf(h)} # {}

\* The first row of a number decides, even when it is a duplicate.
FirstWith(g, n) == LET fs == group[g].files IN fs[CHOOSE i \in DOMAIN fs :
    n \in Numbers[fs[i]] /\ \A j \in 1 .. (i - 1) : n \notin Numbers[fs[j]]]
Candidates(g) == {n \in NumbersOf(g) : n \notin file[FirstWith(g, n)].old}

Unresolved(g) == \E f \in FilesOf(g) : ~file[f].known
OwnOrders(g) == UNION {o.numbers : o \in {x \in Alive : x.store = g[2]}}

\* validateBulkDraft, but for the stock: what the page calls SUBMITTABLE. It leaves
\* out numbers that are ordered by now, for which a submission refuses the group.
PageStatus(g) ==
    IF draft[g[1]] = "EXPIRED" \/ late[g[1]] THEN "EXPIRED"
    ELSE IF group[g].status = "SUBMITTED" THEN "ALREADY_SUBMITTED"
    ELSE IF CrossStore(g) THEN "BLOCKED_CROSS_STORE"
    ELSE IF Unresolved(g) THEN "BLOCKED_UNKNOWN_SKU"
    ELSE IF Candidates(g) \subseteq OwnOrders(g) THEN "EMPTY"
    ELSE "SUBMITTABLE"
Submittable(g) == PageStatus(g) = "SUBMITTABLE"

-----------------------------------------------------------------------------
(* submitBulkDraft                                                          *)

\* No request with this key is stored or running: otherwise it is replayed or waits.
FreshIgnoringResult(k) == op[k] = Idle
Fresh(k) == op[k] = Idle /\ result[k] = None

Load(k, d, G) ==
    /\ Fresh(k) /\ draft[d] # "NONE" /\ ~Locked(d) /\ G \subseteq GroupsOf(d) /\ G # {}
    /\ op' = [op EXCEPT ![k] =
          [at |-> "loaded", draft |-> d, groups |-> G,
           preview |-> {f \in Files : file[f].status = "PREVIEW"}]]
    /\ UNCHANGED <<draft, late, group, file, orders, result>>

Overdue(d) == late[d] \/ draft[d] = "EXPIRED"

\* The status of a file is that of the first reading, its rows are read under the lock.
JudgementOfStatus(g, preview) ==
    IF Overdue(g[1]) THEN "EXPIRED"
    ELSE IF draft[g[1]] = "COMPLETED" \/ group[g].status # "PREVIEW" THEN "INVALID"
    ELSE IF CrossStore(g) THEN "CROSS_STORE_CONFLICT"
    ELSE IF group[g].files = <<>> THEN "EXPIRED"
    ELSE IF ~FilesOf(g) \subseteq preview \/ Candidates(g) = {} THEN "INVALID"
    ELSE "OK"
Judgement(g, preview) ==
    IF Overdue(g[1]) THEN "EXPIRED"
    ELSE IF draft[g[1]] = "COMPLETED" \/ group[g].status # "PREVIEW" THEN "INVALID"
    ELSE IF CrossStore(g) THEN "CROSS_STORE_CONFLICT"
    ELSE IF group[g].files = <<>> THEN "EXPIRED"
    ELSE IF ~FilesOf(g) \subseteq preview \/ Unresolved(g) \/ Candidates(g) = {} THEN "INVALID"
    ELSE "OK"

\* Disabled stores and addresses that differ make a group INVALID, too.
Judge(k) ==
    /\ op[k].at = "loaded"
    /\ LET G == op[k].groups
           fs == UNION {FilesOf(g) : g \in G}
       IN /\ ~\E f \in fs : FileLocked(f)
          /\ \E odd \in SUBSET G :
               op' = [op EXCEPT ![k] =
                  [at |-> "judged", draft |-> op[k].draft, files |-> fs, overdue |-> Overdue(op[k].draft),
                   verdict |-> [g \in G |-> LET v == Judgement(g, op[k].preview)
                                            IN IF v = "OK" /\ g \in odd THEN "INVALID" ELSE v]]]
    /\ UNCHANGED <<draft, late, group, file, orders, result>>

Good(k) == {g \in DOMAIN op[k].verdict : op[k].verdict[g] = "OK"}

\* lockSubmissionConflicts and lockActiveOrderUniqueKeys, held to the end.
NumberLocks(k) == UNION {Candidates(g) : g \in op[k].wanted}
HashesOf(G) == {Hash[f] : f \in UNION {FilesOf(g) : g \in G}}
ElsewhereInDraft(g) ==
    \E o \in Alive : o.by = "bulk" /\ o.group[1] = g[1] /\ o.numbers \cap Candidates(g) # {}
Elsewhere(g) ==
    \/ \E o \in Alive : o.store # g[2] /\ o.numbers \cap Candidates(g) # {}
    \/ \E h \in Groups : /\ h[2] # g[2]
                         /\ {Hash[f] : f \in FilesOf(g)} \cap {Hash[f] : f \in FilesOf(h)} # {}
SameStore(g) == Candidates(g) \cap OwnOrders(g) # {}

Check(k) ==
    /\ op[k].at = "judged"
    /\ LET G == Good(k)
           N == UNION {Candidates(g) : g \in G}
       IN /\ \A j \in Keys : op[j].at = "checked" =>
                NumberLocks(j) \cap N = {} /\ HashesOf(op[j].wanted) \cap HashesOf(G) = {}
          /\ op' = [op EXCEPT ![k] =
               [at |-> "checked", draft |-> @.draft, files |-> @.files, overdue |-> @.overdue, wanted |-> G,
                verdict |-> [g \in DOMAIN @.verdict |->
                    IF g \notin G THEN @.verdict[g]
                    ELSE IF Elsewhere(g) THEN "CROSS_STORE_CONFLICT"
                    ELSE IF SameStore(g) THEN "DUPLICATE_CHANGED"
                    ELSE "OK"]]]
    /\ UNCHANGED <<draft, late, group, file, orders, result>>

\* updateDraftAfterSubmission: G are the groups that became orders.
After(k, G) ==
    IF op[k].overdue THEN "EXPIRED"
    ELSE IF G = {} THEN draft[op[k].draft]
    ELSE IF \E h \in GroupsOf(op[k].draft) \ G : group[h].status = "PREVIEW"
    THEN "PARTIALLY_SUBMITTED" ELSE "COMPLETED"

\* SKUs that cannot be sold any more turn the rows back: SKU_UNAVAILABLE.
\* Others lack stock. The orders of the rest are created.
Commit(k) ==
    /\ op[k].at = "checked"
    /\ \E withdrawn \in SUBSET Good(k) : \E short \in SUBSET (Good(k) \ withdrawn) :
        LET G == Good(k) \ (withdrawn \cup short)
            new == [i \in 1 .. Cardinality(G) |->
                     LET g == SetToSeq(G)[i]
                     IN [by |-> "bulk", key |-> k, group |-> g, store |-> g[2],
                         numbers |-> Candidates(g), alive |-> TRUE]]
        IN /\ Len(orders) + Cardinality(G) <= MaxOrders
           /\ orders' = orders \o new
           /\ group' = [g \in Groups |-> IF g \in G THEN [group[g] EXCEPT !.status = "SUBMITTED"] ELSE group[g]]
           /\ file' = [f \in Files |->
                 IF \E g \in G : f \in FilesOf(g) THEN [file[f] EXCEPT !.status = "SUBMITTED"]
                 ELSE IF \E g \in withdrawn : f \in FilesOf(g) THEN [file[f] EXCEPT !.known = FALSE]
                 ELSE file[f]]
           /\ draft' = [draft EXCEPT ![op[k].draft] = After(k, G)]
           /\ result' = [result EXCEPT ![k] = [draft |-> op[k].draft, created |-> G,
                                               failed |-> DOMAIN op[k].verdict \ G]]
    /\ op' = [op EXCEPT ![k] = Idle]
    /\ UNCHANGED late

\* The process dies, or the transaction fails: everything is rolled back.
Abort(k) ==
    /\ op[k] # Idle
    /\ op' = [op EXCEPT ![k] = Idle]
    /\ UNCHANGED <<draft, late, group, file, orders, result>>

-----------------------------------------------------------------------------
(* Single submissions and the end of orders                                *)

\* submitTemuImportBatch for a file of the draft: it looks at orders of its own
\* store, and knows neither the group nor the draft.
SubmitSingle(g, f) ==
    LET mine == Numbers[f] \ file[f].old
        new == mine \ OwnOrders(g)
    IN /\ f \in FilesOf(g) /\ file[f].status = "PREVIEW" /\ ~late[g[1]] /\ file[f].known /\ mine # {}
       /\ ~FileLocked(f)
       /\ \A k \in Keys : op[k].at = "checked" =>
             ~\E h \in op[k].wanted : h[2] = g[2] /\ Candidates(h) \cap mine # {}
       /\ IF new = {}
          THEN /\ file' = [file EXCEPT ![f].old = Numbers[f]]
               /\ UNCHANGED orders
          ELSE /\ Len(orders) < MaxOrders
               /\ file' = [file EXCEPT ![f].old = Numbers[f] \ new, ![f].status = "SUBMITTED"]
               /\ orders' = Append(orders, [by |-> "single", key |-> None, group |-> g, store |-> g[2],
                                            numbers |-> new, alive |-> TRUE])
       /\ UNCHANGED <<draft, late, group, op, result>>

CancelOrder(i) ==
    /\ orders[i].alive
    /\ orders' = [orders EXCEPT ![i].alive = FALSE]
    /\ UNCHANGED <<draft, late, group, file, op, result>>

DraftStep ==
    \/ \E d \in Drafts : CreateDraft(d) \/ Discard(d) \/ SeeDraft(d) \/ Expires(d)
    \/ \E g \in Groups : \/ AddGroup(g)
                         \/ \E f \in Files : \/ \E known \in BOOLEAN : Upload(g, f, known)
                                             \/ RemoveFile(g, f) \/ RowsChange(g, f)
SubmitStep ==
    \/ \E k \in Keys : \/ \E d \in Drafts : \E G \in SUBSET Groups : Load(k, d, G)
                       \/ Judge(k) \/ Check(k) \/ Commit(k) \/ Abort(k)
    \/ \E g \in Groups, f \in Files : SubmitSingle(g, f)
    \/ \E i \in DOMAIN orders : CancelOrder(i)

Next == DraftStep \/ SubmitStep
Spec == Init /\ [][Next]_bulkVars

-----------------------------------------------------------------------------
(* Properties                                                               *)

\* One order of a shop is never in two orders that are alive in one store, and two
\* bulk submissions never order it twice at all, whatever their drafts and stores;
\* only a single submission may repeat what another store has.
NumbersLiveOnce ==
    \A i, j \in DOMAIN orders :
        i < j /\ orders[i].alive /\ orders[j].alive /\ orders[i].numbers \cap orders[j].numbers # {} =>
            /\ orders[i].store # orders[j].store
            /\ "single" \in {orders[i].by, orders[j].by}

\* The status of a draft says how many of its groups became orders, although
\* groups are added, submitted and refused in any order.
DraftTellsTheTruth ==
    \A d \in Drafts :
        LET left == {g \in GroupsOf(d) : group[g].status = "PREVIEW"}
        IN /\ draft[d] = "COMPLETED" => left = {} /\ GroupsOf(d) # {}
           /\ draft[d] = "DRAFT" => left = GroupsOf(d)
           /\ draft[d] = "PARTIALLY_SUBMITTED" => left # GroupsOf(d)

\* Every bulk order is in the stored answer of the request that created it and in no
\* other's, and a group becomes an order once, when it is marked: a repeated request,
\* or the same groups under a new key, add none. The status of the draft tells.
OrdersAnswerable ==
    LET placed == {i \in DOMAIN orders : orders[i].by = "bulk"}
    IN /\ DraftTellsTheTruth
       /\ \A i, j \in placed : orders[i].group = orders[j].group => i = j
       /\ \A g \in Groups : group[g].status = "SUBMITTED" <=> \E i \in placed : orders[i].group = g
       /\ \A k \in Keys, g \in Groups :
             (result[k] # None /\ g \in result[k].created)
                <=> \E i \in placed : orders[i].group = g /\ orders[i].key = k

\* The validation and the submission judge a group separately: an order is only made
\* of a group that the page calls submittable, but for expiry and the stock.
OnlySubmittableOrdered ==
    [][\A i \in DOMAIN orders' \ DOMAIN orders :
          LET g == orders'[i].group
          IN orders'[i].by = "bulk" => late[g[1]] \/ Submittable(g)]_bulkVars
=============================================================================
