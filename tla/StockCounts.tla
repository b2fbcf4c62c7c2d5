----------------------------- MODULE StockCounts -----------------------------
(***************************************************************************)
(* Physical stock counts.  submitStockCount and approveStockCount read the *)
(* count without a lock, its row and then its items, decide by what they   *)
(* read, and set its status without testing it again: each is a step for   *)
(* either statement and a step that writes and commits, and other          *)
(* transactions may come in between.  A count here has one item (the code  *)
(* repeats what it does for each).                                         *)
(***************************************************************************)
EXTENDS Inventory

CONSTANTS
  Counts,   \* stock counts
  NoCount,  \* what a clerk who has read none is at
  Clerks    \* concurrent requests: the users who submit and approve counts

ASSUME CountsAssumption  == IsFiniteSet(Counts)
ASSUME NoCountAssumption == NoCount \notin Counts

VARIABLES
  count,       \* stock_counts.status, "NONE" before the insert
  countRow,    \* the balance row that is counted
  system,      \* system_quantity: on_hand when the count was created
  counted,     \* counted_quantity
  read,        \* what each clerk's transaction has read, and is about to do
  countMoved,  \* the sum of the ADJUSTMENT_STOCKTAKE movements of each count
  raced        \* the counts that were written by a request which had read them
               \* before another request wrote them (history)

countVars == <<count, countRow, system, counted, read, countMoved, raced>>

-----------------------------------------------------------------------------
OnHands    == 0 .. ColumnMax
CountStages == {"NONE", "IN_PROGRESS", "SUBMITTED", "APPROVED"}

\* What has been read: of which count, its status, whether its items too, their
\* variance, and whether another request has written the count since (history).
Read(c, stage, items, variance, overtaken) ==
  [count |-> c, status |-> stage, items |-> items, variance |-> variance,
   overtaken |-> overtaken]

NothingRead == Read(NoCount, "NONE", FALSE, 0, FALSE)

Variance(c) == counted[c] - system[c]

CountsInit ==
  /\ count      = [c \in Counts |-> "NONE"]
  /\ countRow   = [c \in Counts |-> NoRow]
  /\ system     = [c \in Counts |-> 0]
  /\ counted    = [c \in Counts |-> 0]
  /\ read       = [k \in Clerks |-> NothingRead]
  /\ countMoved = [c \in Counts |-> 0]
  /\ raced      = {}

\* createStockCount: the counted quantity starts as the system's.
CreateCount(c, row) ==
  /\ count[c] = "NONE"
  /\ onHand[row] \in OnHands  \* CHECK (counted_quantity >= 0)
  /\ count'    = [count EXCEPT ![c] = "IN_PROGRESS"]
  /\ countRow' = [countRow EXCEPT ![c] = row]
  /\ system'   = [system EXCEPT ![c] = onHand[row]]
  /\ counted'  = [counted EXCEPT ![c] = onHand[row]]
  /\ UNCHANGED <<vars, read, countMoved, raced>>

\* findStockCountById, as the first two statements of a clerk's transaction: each
\* sees what is committed when it runs.
ReadCount(k, c) ==
  /\ read[k] = NothingRead
  /\ count[c] # "NONE"
  /\ read' = [read EXCEPT ![k] = Read(c, count[c], FALSE, 0, FALSE)]
  /\ UNCHANGED <<vars, count, countRow, system, counted, countMoved, raced>>

ReadItems(k) ==
  /\ read[k] # NothingRead /\ ~read[k].items
  /\ read' = [read EXCEPT ![k].items = TRUE, ![k].variance = Variance(read[k].count)]
  /\ UNCHANGED <<vars, count, countRow, system, counted, countMoved, raced>>

\* The request is refused for the status it read, or its transaction is lost.
GiveUp(k) ==
  /\ read[k] # NothingRead
  /\ read' = [read EXCEPT ![k] = NothingRead]
  /\ UNCHANGED <<vars, count, countRow, system, counted, countMoved, raced>>

\* The status that request k sets when it has read the items and commits: it
\* overtakes the other requests that have read the count.
Settle(k, stage) ==
  LET c == read[k].count
  IN  /\ read[k].items
      /\ count' = [count EXCEPT ![c] = stage]
      /\ read'  = [l \in Clerks |->
                     IF l = k THEN NothingRead
                     ELSE IF read[l].count = c THEN [read[l] EXCEPT !.overtaken = TRUE]
                     ELSE read[l]]
      /\ raced' = IF read[k].overtaken THEN raced \cup {c} ELSE raced

\* submitStockCount, with what was counted, if anything.
SubmitCount(k, q) ==
  /\ read[k].status = "IN_PROGRESS"
  /\ Settle(k, "SUBMITTED")
  /\ counted' = [counted EXCEPT ![read[k].count] = q]
  /\ UNCHANGED <<vars, countRow, system, countMoved>>

\* The status that approveStockCount asks for; with a faulty variant, for
\* PostedUnlessRaced, that does not ask.
AnyRead(k) == read[k] # NothingRead

Approvable(k) == read[k].status = "SUBMITTED"

\* A faulty variant, for PromiseSpec: the balance is set to what was counted.
ApproveOverwriting(k) ==
  LET c == read[k].count
  IN  /\ Approvable(k)
      /\ onHand'     = [onHand EXCEPT ![countRow[c]] = counted[c]]
      /\ stockMoved' = [stockMoved EXCEPT ![countRow[c]] =
                          @ + counted[c] - onHand[countRow[c]]]
      /\ Settle(k, "APPROVED")
      /\ countMoved' = [countMoved EXCEPT ![c] = @ + read[k].variance]
      /\ UNCHANGED <<reserved, damaged, expired, saleMoved, status, holdVars, expiry,
                     overridden, countRow, system, counted>>

\* approveStockCount: the variance of the count as it was read is posted
\* against the stock as it is now.
ApproveCount(k) ==
  LET c == read[k].count
      v == read[k].variance
  IN  /\ Approvable(k)
      /\ Settle(k, "APPROVED")
      /\ IF v # 0
           THEN Post([row \in Rows |-> IF row = countRow[c] THEN v ELSE 0])
           ELSE UNCHANGED vars
      /\ countMoved' = [countMoved EXCEPT ![c] = @ + v]
      /\ UNCHANGED <<countRow, system, counted>>

ClerkActs(k) ==
  \/ \E c \in Counts : ReadCount(k, c)
  \/ ReadItems(k)
  \/ GiveUp(k)
  \/ \E q \in OnHands : SubmitCount(k, q)
  \/ ApproveCount(k)

-----------------------------------------------------------------------------
CountsTypeOK ==
  /\ count      \in [Counts -> CountStages]
  /\ countRow   \in [Counts -> Rows \cup {NoRow}]
  /\ system     \in [Counts -> OnHands]
  /\ counted    \in [Counts -> OnHands]
  /\ read       \in [Clerks -> [count : Counts \cup {NoCount}, status : CountStages,
                                items : BOOLEAN, variance : Column, overtaken : BOOLEAN]]
  /\ countMoved \in [Counts -> Int]
  /\ raced      \subseteq Counts

\* What the ledger holds for count c is nothing before its approval, and after it
\* the variance that was approved.
Posted(c) == countMoved[c] = IF count[c] = "APPROVED" THEN Variance(c) ELSE 0

\* However many requests submit and approve a count, and wherever their statements
\* fall between one another, it corrects the stock once and by the variance it
\* shows, unless a request wrote it on the strength of a status that another had
\* already changed: nothing but that lost update posts a count twice.
PostedUnlessRaced == \A c \in Counts \ raced : Posted(c)

\* What the documents promise of a count: it corrects the stock once.  Nothing in
\* the code keeps two requests from approving one count.
CountPostedOnce == \A c \in Counts : Posted(c)
=============================================================================
