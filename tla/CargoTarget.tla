----------------------------- MODULE CargoTarget -----------------------------
(***************************************************************************)
(* What the worker writes into the target sheet in Feishu                  *)
(* (src/modules/feishu/cargo-sync.ts, through src/integrations/feishu/     *)
(* client.ts): every SKU with its stock, first all values at once, then    *)
(* the pictures one by one by their row. A job can fail or die after any   *)
(* request, a change of stock asks for another job in its transaction, and *)
(* the clock asks for one every five minutes.                              *)
(*                                                                         *)
(* How the rows of the outbox are claimed, retried and given up is in      *)
(* Outbox: here some of them wait or none does. Styles, widths and the     *)
(* filter are left out, and so are requests that are carried out after     *)
(* their sender has given up waiting.                                      *)
(***************************************************************************)
EXTENDS FiniteSets, FiniteSetsExt, Naturals, Integers, Sequences

CONSTANTS Items,      \* SKUs, numbers in the order of their codes
          Jobs, Pictures, None, MaxStock, MaxChanges

VARIABLES stock,      \* SKU -> its total, what is reserved of it, and its picture, or None
          target,     \* row of the sheet -> what is in it
          waiting,    \* a row of the outbox waits for a job
          unannounced,\* stock has changed that no row of the outbox was written for
          job,        \* what each job has read and how far it is
          settled,    \* the last job was alone from its claim to its end
          changes

targetVars == <<stock, target, waiting, unannounced, job, settled, changes>>

Idle == [at |-> "idle", rows |-> <<>>, next |-> 0, alone |-> TRUE]
Blank == [sku |-> None, total |-> 0, available |-> 0, picture |-> None]
Goods == {g \in [total : 0..MaxStock, reserved : 0..MaxStock, picture : Pictures \cup {None}] :
            g.reserved <= g.total}
Held(goods) == IF goods = None THEN 0 ELSE goods.reserved

\* The catalogue is older than the target sheet.
Init ==
    /\ stock \in [Items -> Goods \cup {None}] /\ target = [n \in 1..Cardinality(Items) |-> Blank]
    /\ waiting = FALSE /\ unannounced = FALSE
    /\ job = [j \in Jobs |-> Idle] /\ settled = FALSE /\ changes = 0

-----------------------------------------------------------------------------
(* Stock                                                                    *)

Change(i, goods) ==
    /\ changes < MaxChanges /\ goods # stock[i]
    /\ stock' = [stock EXCEPT ![i] = goods] /\ changes' = changes + 1
    /\ UNCHANGED <<target, job, settled>>

\* Orders, cancellations and shipments call enqueueCargoSyncEvent before they commit.
Announced(i, goods) ==
    /\ stock[i] # None /\ goods # None /\ goods.picture = stock[i].picture
    /\ goods.reserved # stock[i].reserved /\ goods.total <= stock[i].total
    /\ Change(i, goods) /\ waiting' = TRUE /\ UNCHANGED unannounced

\* Counts, adjustments, pictures, new and deleted SKUs wait for the next five minutes.
Silent(i, goods) ==
    /\ Held(goods) = Held(stock[i])
    /\ Change(i, goods) /\ unannounced' = TRUE /\ UNCHANGED waiting

FiveMinutes ==
    /\ waiting' = TRUE /\ unannounced' = FALSE
    /\ UNCHANGED <<stock, target, job, settled, changes>>

-----------------------------------------------------------------------------
(* A job                                                                    *)

Working == {j \in Jobs : job[j].at # "idle"}
Goto(j, at) == job' = [job EXCEPT ![j].at = at]

\* All rows that are due are claimed, before anything is read.
Claim(j) ==
    /\ job[j].at = "idle" /\ waiting /\ waiting' = FALSE /\ settled' = FALSE
    /\ job' = [k \in Jobs |-> IF k = j THEN [Idle EXCEPT !.at = "claimed", !.alone = Working = {}]
                              ELSE [job[k] EXCEPT !.alone = @ /\ k \notin Working]]
    /\ UNCHANGED <<stock, target, unannounced, changes>>

\* Totals are read by one statement and reservations by the next.
InOrder ==
    LET present == {i \in Items : stock[i] # None}
    IN CHOOSE f \in [1..Cardinality(present) -> present] :
         \A m, n \in DOMAIN f : m < n => f[m] < f[n]
ReadRows(j) ==
    /\ job[j].at = "claimed"
    /\ job' = [job EXCEPT ![j].at = "counted",
                          ![j].rows = [n \in 1..Len(InOrder) |->
                              LET i == InOrder[n]
                              IN [sku |-> i, total |-> stock[i].total, available |-> 0, picture |-> stock[i].picture]]]
    /\ UNCHANGED <<stock, target, waiting, unannounced, settled, changes>>
ReadReserved(j) ==
    /\ job[j].at = "counted"
    /\ job' = [job EXCEPT ![j].at = "read",
                          ![j].rows = [n \in DOMAIN @ |-> [@[n] EXCEPT !.available =
                                         job[j].rows[n].total - Held(stock[job[j].rows[n].sku])]]]
    /\ UNCHANGED <<stock, target, waiting, unannounced, settled, changes>>

\* Without their pictures; what was in the sheet below them is overwritten with blanks.
WithoutBlanks(rows) ==
    [n \in DOMAIN target |-> IF n <= Len(rows) THEN [rows[n] EXCEPT !.picture = None] ELSE target[n]]
Values(rows) ==
    [n \in DOMAIN target |-> IF n <= Len(rows) THEN [rows[n] EXCEPT !.picture = None] ELSE Blank]
WriteValues(j) ==
    /\ job[j].at = "read"
    /\ target' = Values(job[j].rows)
    /\ job' = [job EXCEPT ![j].at = "pictures", ![j].next = 1]
    /\ UNCHANGED <<stock, waiting, unannounced, settled, changes>>

Pictured(j) == {n \in job[j].next..Len(job[j].rows) : job[j].rows[n].picture # None}
WriteImage(j) ==
    /\ job[j].at = "pictures" /\ Pictured(j) # {}
    /\ LET n == Min(Pictured(j))
       IN /\ target' = [target EXCEPT ![n].picture = job[j].rows[n].picture]
          /\ job' = [job EXCEPT ![j].next = n + 1]
    /\ UNCHANGED <<stock, waiting, unannounced, settled, changes>>

Complete(j) ==
    /\ job[j].at = "pictures" /\ Pictured(j) = {}
    /\ job' = [job EXCEPT ![j] = Idle] /\ settled' = job[j].alone
    /\ UNCHANGED <<stock, target, waiting, unannounced, changes>>

Stop(j) ==
    /\ job[j].at # "idle" /\ job' = [job EXCEPT ![j] = Idle]
    /\ UNCHANGED <<stock, target, unannounced, settled, changes>>

\* No token, no answer in time, a busy server, or the process dies: the rows that
\* were claimed wait again.
TryAgain(j) == Stop(j) /\ waiting' = TRUE

\* Feishu refuses the request, or it has been tried often enough.
GiveUp(j) == Stop(j) /\ UNCHANGED waiting

Next ==
    \/ FiveMinutes
    \/ \E i \in Items, goods \in Goods \cup {None} : Announced(i, goods) \/ Silent(i, goods)
    \/ \E j \in Jobs : \/ Claim(j) \/ ReadRows(j) \/ ReadReserved(j)
                       \/ WriteValues(j) \/ WriteImage(j) \/ Complete(j)
                       \/ TryAgain(j) \/ GiveUp(j)
Spec == Init /\ [][Next]_targetVars

-----------------------------------------------------------------------------
(* Properties                                                               *)

Shown == [n \in DOMAIN target |->
            IF n > Len(InOrder) THEN Blank
            ELSE LET i == InOrder[n]
                 IN [sku |-> i, total |-> stock[i].total,
                     available |-> stock[i].total - stock[i].reserved, picture |-> stock[i].picture]]

\* Once a job that was alone has come to its end, and no other is due, every SKU is in the
\* sheet in its row with its own stock and picture, and nothing else: whatever earlier jobs
\* left half written, and whatever was ordered or shipped between two of the job's steps.
TargetShowsStock == settled /\ ~waiting /\ ~unannounced => target = Shown
=============================================================================
