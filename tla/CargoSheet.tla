------------------------------ MODULE CargoSheet ------------------------------
(***************************************************************************)
(* How the cargo sheet of Feishu is read (src/modules/feishu/              *)
(* cargo-parser.ts): strictly, for the migration, and leniently, for       *)
(* synchronisations, where a row that lacks something is kept as a draft   *)
(* that is not sold. A cell that is empty stands for the one above it in   *)
(* the same group of products, whose sequence is written once.             *)
(*                                                                         *)
(* A sheet has the columns SKU, sequence and quantity, which is never      *)
(* inherited, and one more: of prices, which stands also for names,        *)
(* weights, links and states, or of pictures. What a row has in it is not  *)
(* a value but the row it was taken from. The header, the sum of the       *)
(* quantities and placeholders for prices are left out.                    *)
(***************************************************************************)
EXTENDS FiniteSets, FiniteSetsExt, Naturals, Sequences, SequencesExt

CONSTANTS SkuCodes, \* <<sequence in the code, or Free, suffix>>
          Sequences, Free, None,
          MaxRows, MaxFlaws \* rows, and cells among them that cannot be read

VARIABLES sheet,   \* the rows below the header
          column   \* what the third column is of; never changes

sheetVars == <<sheet, column>>

Cells == {"blank", "bad", "given"}
RowsSeen == [sku : SkuCodes \cup {None}, sequence : Sequences \cup {None}, cell : Cells, counted : BOOLEAN]

Init == sheet = <<>> /\ column \in {"price", "image"}
Flawed(row) == row.cell = "bad" \/ (~row.counted /\ row.sku # None)
WriteRow(row) ==
    /\ Len(sheet) < MaxRows
    /\ Flawed(row) => Cardinality({n \in 1..Len(sheet) : Flawed(sheet[n])}) < MaxFlaws
    /\ sheet' = Append(sheet, row) /\ UNCHANGED column
Next == \E row \in RowsSeen : WriteRow(row)
Spec == Init /\ [][Next]_sheetVars

-----------------------------------------------------------------------------
(* Rows                                                                     *)

\* isBlankRow looks for text: a picture is none.
BlankRow(row) == /\ row.sku = None /\ row.sequence = None /\ ~row.counted
                 /\ column = "image" \/ row.cell = "blank"
Bare(row) == row.cell = "blank" /\ ~row.counted
Empty(row) == row.sku = None /\ row.sequence = None /\ Bare(row)

\* isTrailingSkuOnlyDraft
Draft(n) == sheet[n].sku # None /\ Bare(sheet[n]) /\ \A m \in n + 1..Len(sheet) : Empty(sheet[m])

\* collectDuplicateSkuIssues
Repeated(n) == sheet[n].sku # None /\ \E m \in 1..n - 1 : sheet[m].sku = sheet[n].sku

\* deriveTzxProductGroupKey
Matches(sku, q) == sku[1] \in {Free, q}
Derived(sku) == IF sku[1] = Free THEN None ELSE sku[1]

\* What is known at the end of a row of the group it is in.
NoGroup == [key |-> None, sequence |-> None, from |-> 0]
Start == [above |-> NoGroup, rows |-> <<>>, blocked |-> FALSE]
Reset(s) == [s EXCEPT !.above = NoGroup]
Block(s) == [s EXCEPT !.blocked = TRUE]
Read(s, n, next) == IF BlankRow(sheet[n]) THEN Reset(s) ELSE next
Finish(s) == [s EXCEPT !.blocked = @ \/ \E n \in 1..Len(sheet) : Repeated(n)]

WithoutReset(key, above) == above.from
SameGroup(key, above) == IF above.key = key THEN above.from ELSE 0

-----------------------------------------------------------------------------
(* parseLegacyCargoSheet                                                    *)

StrictSequence(s, n) == IF sheet[n].sequence # None THEN sheet[n].sequence ELSE s.above.sequence
\* A picture that is not just one is overlooked if there is one above it.
StrictFrom(s, n) ==
    CASE sheet[n].cell = "given" -> n
      [] sheet[n].cell = "bad" /\ column = "price" -> 0
      [] OTHER -> SameGroup(StrictSequence(s, n), s.above)

StrictRow(s, n) ==
    LET row == [sku |-> sheet[n].sku, sequence |-> StrictSequence(s, n), from |-> StrictFrom(s, n)]
    IN CASE row.sku = None -> Block(s)
         [] Draft(n) -> s
         [] OTHER ->
              IF row.sequence = None \/ ~Matches(row.sku, row.sequence) \/ row.from = 0
                    \/ ~sheet[n].counted \/ Repeated(n)
              THEN Block(s)
              ELSE [s EXCEPT !.rows = Append(@, row),
                             !.above = [key |-> row.sequence, sequence |-> row.sequence, from |-> row.from]]
\* What is known after the first n rows, and in the end.
StrictTo[n \in 0..Len(sheet)] ==
    IF n = 0 THEN Start ELSE LET s == StrictTo[n - 1] IN Read(s, n, StrictRow(s, n))
Strict == Finish(StrictTo[Len(sheet)])

-----------------------------------------------------------------------------
(* parseCargoSheetForSync                                                   *)

Inherited(s, n) == /\ sheet[n].sequence = None /\ s.above.sequence # None
                   /\ Matches(sheet[n].sku, s.above.sequence)
SyncSequence(s, n) ==
    CASE sheet[n].sequence # None -> sheet[n].sequence
      [] Inherited(s, n)          -> s.above.sequence
      [] OTHER                    -> Derived(sheet[n].sku)
SyncKey(s, n) == IF SyncSequence(s, n) # None THEN <<SyncSequence(s, n)>> ELSE sheet[n].sku

\* What the row has, and what the next ones inherit: a bad cell is passed over.
SyncFrom(s, n) ==
    CASE sheet[n].cell = "given" -> n
      [] sheet[n].cell = "bad"   -> 0
      [] OTHER                   -> SameGroup(SyncKey(s, n), s.above)
SyncAbove(s, n) ==
    [key |-> SyncKey(s, n), sequence |-> SyncSequence(s, n),
     from |-> IF sheet[n].cell = "given" THEN n ELSE SameGroup(SyncKey(s, n), s.above)]
Complete(s, n) == SyncFrom(s, n) # 0 /\ sheet[n].counted /\ (sheet[n].sequence # None \/ Inherited(s, n))

\* A row without a SKU stops a mirror run. (A refresh of fields only passes over it.)
MirrorRow(s, n) ==
    LET given == sheet[n] IN
    CASE given.sku = None -> Block(s)
      [] given.sku # None /\ given.sequence # None /\ ~Matches(given.sku, given.sequence) -> Block(s)
      [] OTHER ->
           [s EXCEPT !.rows = Append(@, [sku |-> given.sku, sequence |-> SyncSequence(s, n),
                                         from |-> SyncFrom(s, n), complete |-> Complete(s, n)]),
                     !.above = SyncAbove(s, n)]
MirrorTo[n \in 0..Len(sheet)] ==
    IF n = 0 THEN Start ELSE LET s == MirrorTo[n - 1] IN Read(s, n, MirrorRow(s, n))
Mirror == Finish(MirrorTo[Len(sheet)])

-----------------------------------------------------------------------------
(* What a reader of the sheet sees                                          *)

\* The rows of the same group above a row and the row, under the sequence written last,
\* with no blank row in between.
Together(n) == {m \in 1..n : \A k \in m..n : ~BlankRow(sheet[k])}
Headed(n) == {m \in Together(n) : sheet[m].sequence # None}
Heading(n) == IF Headed(n) = {} THEN None ELSE sheet[Max(Headed(n))].sequence
Group(n) == {m \in Together(n) : \A k \in m..n : Heading(k) = Heading(n)}
Given(n) == {m \in Group(n) : sheet[m].cell = "given"}
Nearest(n) == IF Given(n) = {} THEN 0 ELSE Max(Given(n))
Entries == {n \in 1..Len(sheet) : ~BlankRow(sheet[n]) /\ ~Draft(n)}
Place(n) == Cardinality({m \in Entries : m <= n})

-----------------------------------------------------------------------------
(* Properties                                                               *)

\* A sheet that the migration accepts is read as it looks: every row under its heading,
\* with the value that is nearest above it.
ReadsWhatIsSeen(strict) ==
    ~strict.blocked =>
        /\ Len(strict.rows) = Cardinality(Entries)
        /\ \A n \in Entries :
              strict.rows[Place(n)] = [sku |-> sheet[n].sku, sequence |-> Heading(n), from |-> Nearest(n)]
\* The mirror archives what it does not find: a sheet that it accepts has none of its rows
\* left out, and what is sold has a value that was written in a row above without a gap.
KeepsAll(mirror) ==
    ~mirror.blocked =>
        /\ Len(mirror.rows) = Cardinality({n \in 1..Len(sheet) : ~BlankRow(sheet[n])})
        /\ \A r \in ToSet(mirror.rows) : r.complete =>
              /\ sheet[r.from].cell = "given" /\ r.sequence # None /\ Matches(r.sku, r.sequence)
              /\ \E n \in 1..Len(sheet) : sheet[n].sku = r.sku /\ r.from \in Together(n)
\* What the migration imported, the mirror does not change: it accepts the same sheet
\* and reads the same in it.
Agree(strict, mirror) ==
    ~strict.blocked /\ (\A n \in 1..Len(sheet) : ~Draft(n) /\ (column = "price" \/ sheet[n].cell # "bad")) =>
        /\ ~mirror.blocked
        /\ \A i \in 1..Len(strict.rows) :
              mirror.rows[i] = [sku |-> strict.rows[i].sku, sequence |-> strict.rows[i].sequence,
                                from |-> strict.rows[i].from, complete |-> TRUE]
\* However cells are left empty, both readings of a sheet take for a row what belongs to it.
SheetReadRight ==
    LET strict == Strict mirror == Mirror
    IN ReadsWhatIsSeen(strict) /\ KeepsAll(mirror) /\ Agree(strict, mirror)
=============================================================================
