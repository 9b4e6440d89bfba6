------------------------------ MODULE DealBoard ------------------------------
(***************************************************************************)
(* The kanban board: deals in pipeline stages, their order in a column,    *)
(* and the endpoints (and MCP tools of the same body) that create, restage,*)
(* move, archive and delete them.                                          *)
(*                                                                         *)
(* Every handler is one interactive transaction at READ COMMITTED: each    *)
(* statement sees what is committed when it runs plus the transaction's    *)
(* own writes, and a written row stays locked until the transaction ends.  *)
(* A request is modelled statement by statement, as far as the statements  *)
(* read or write the board.                                                *)
(***************************************************************************)
EXTENDS Integers, FiniteSets

CONSTANTS
    Deals,         \* row ids, allocated in increasing order
    Stages,        \* pipeline stages
    Won, Lost,     \* the stages with isWon, with isLost
    Requests,      \* requests the board serves, each once
    Kinds,         \* the operations the clients call
    Nobody,        \* the owner of an unlocked row
    Overlap        \* whether requests may run at the same time

ASSUME BoardAssumption ==
    /\ Deals \subseteq Nat /\ IsFiniteSet(Deals)
    /\ Won \subseteq Stages /\ Lost \subseteq Stages
    /\ Stages \cap {"absent", "gone"} = {}
    /\ Kinds \subseteq {"create", "patch", "move", "archive", "unarchive", "delete"}
    /\ Nobody \notin Requests
    /\ Overlap \in BOOLEAN

VARIABLES
    board,         \* the committed rows
    pend,          \* the uncommitted version of a locked row
    lock,          \* the request that has written a row, or Nobody
    pc,            \* the statement a request runs next
    req,           \* what it asks for: kind, deal, stage and position
    seen,          \* the deal as it read it first
    slot,          \* the boardOrder it will give the deal
    targets        \* boardOrders it has still to write, by deal

vars == <<board, pend, lock, pc, req, seen, slot, targets>>

Rows == [stage : Stages \cup {"absent", "gone"}, order : Int,
         closed : BOOLEAN, archived : BOOLEAN]
NoRow == [stage |-> "absent", order |-> 0, closed |-> FALSE, archived |-> FALSE]

Asks == [kind : Kinds, deal : Deals, to : Stages, position : Nat]

Steps == {"column", "write", "renumber", "source", "compact", "commit"}

TypeOK ==
    /\ board \in [Deals -> Rows] /\ pend \in [Deals -> Rows]
    /\ lock \in [Deals -> Requests \cup {Nobody}]
    /\ pc \in [Requests -> Steps \cup {"new", "done"}]
    /\ \A r \in Requests : pc[r] \in Steps => req[r] \in Asks
    /\ seen \in [Requests -> Rows]
    /\ slot \in [Requests -> -Cardinality(Requests)..(Cardinality(Deals) - 1)]
    /\ \A r \in Requests :
         /\ DOMAIN targets[r] \subseteq Deals
         /\ \A d \in DOMAIN targets[r] : targets[r][d] \in 0..(Cardinality(Deals) - 1)

-----------------------------------------------------------------------------
(* Columns of the board.                                                   *)

Terminal == Won \cup Lost

In(rows, s) == {d \in Deals : rows[d].stage = s}

\* orderBy boardOrder ascending, then id descending.
Before(rows, d, e) ==
    \/ rows[d].order < rows[e].order
    \/ rows[d].order = rows[e].order /\ d > e

Rank(rows, column, d) == Cardinality({e \in column : Before(rows, e, d)})

\* Mutant: the lowest order itself, shared with the deal that has it.
TopOrder_Shared(rows, s) ==
    IF In(rows, s) = {} THEN 0
    ELSE CHOOSE n \in {rows[d].order : d \in In(rows, s)} :
           \A d \in In(rows, s) : n <= rows[d].order

\* nextTopBoardOrder: one below the lowest order of the stage.
TopOrder(rows, s) ==
    IF In(rows, s) = {} THEN 0
    ELSE CHOOSE n \in {rows[d].order - 1 : d \in In(rows, s)} :
           \A d \in In(rows, s) : n < rows[d].order

TargetIndex(position, count) == IF position <= count THEN position ELSE count

\* Mutant: the deals below the target do not make room.
Destination_NoShift(rows, others, index) ==
    [e \in others |-> Rank(rows, others, e)]

\* computeDestinationOrder: the other deals' places around the target index.
Destination(rows, others, index) ==
    [e \in others |-> LET place == Rank(rows, others, e)
                      IN  IF place < index THEN place ELSE place + 1]

Compacted(rows, column) == [e \in column |-> Rank(rows, column, e)]

-----------------------------------------------------------------------------
(* What a request sees and what it works on.                               *)

View(r) == [d \in Deals |-> IF lock[d] = r THEN pend[d] ELSE board[d]]
Subject(r) == req[r].deal
Active == {r \in Requests : pc[r] \in Steps}
MayBegin(r) == pc[r] = "new" /\ (Overlap \/ Active = {})
Restages(r) == req[r].to # seen[r].stage

Exists(rows, d) == rows[d].stage \in Stages

StartBoards ==
    {b \in [Deals -> [stage : Stages \cup {"absent"}, order : 0..Cardinality(Deals),
                      closed : BOOLEAN, archived : {FALSE}]] :
       /\ \A d \in Deals :
            IF Exists(b, d)
              THEN /\ b[d].order = Rank(b, In(b, b[d].stage), d)
                   /\ b[d].closed = (b[d].stage \in Terminal)
              ELSE b[d] = NoRow
       /\ \A d, e \in Deals : d < e /\ ~Exists(b, d) => ~Exists(b, e)}

Init ==
    /\ board \in StartBoards
    /\ pend = [d \in Deals |-> NoRow]
    /\ lock = [d \in Deals |-> Nobody]
    /\ pc = [r \in Requests |-> "new"]
    /\ req = [r \in Requests |-> Nobody]
    /\ seen = [r \in Requests |-> NoRow]
    /\ slot = [r \in Requests |-> 0]
    /\ targets = [r \in Requests |-> <<>>]

Goto(r, step) == pc' = [pc EXCEPT ![r] = step]

-----------------------------------------------------------------------------
(* The first statement of a request.  One whose deal is missing answers    *)
(* 404; a PATCH that keeps the stage, or an archive of an archived deal,   *)
(* leaves the board alone: none of these is a step.                        *)

AnyDeal == CHOOSE d \in Deals : TRUE    \* no row yet

AskCreate(r, s) ==
    /\ MayBegin(r) /\ "create" \in Kinds
    /\ req' = [req EXCEPT ![r] = [kind |-> "create", deal |-> AnyDeal, to |-> s, position |-> 0]]
    /\ Goto(r, "column")
    /\ UNCHANGED <<board, pend, lock, seen, slot, targets>>

ReadDeal(r, ask, step) ==
    /\ MayBegin(r) /\ ask.kind \in Kinds
    /\ Exists(board, ask.deal)
    /\ req' = [req EXCEPT ![r] = ask]
    /\ seen' = [seen EXCEPT ![r] = board[ask.deal]]
    /\ Goto(r, step)
    /\ UNCHANGED <<board, pend, lock, slot, targets>>

AskPatch(r, d, s) ==
    /\ board[d].stage # s
    /\ ReadDeal(r, [kind |-> "patch", deal |-> d, to |-> s, position |-> 0], "column")

AskMove(r, d, s, position) ==
    ReadDeal(r, [kind |-> "move", deal |-> d, to |-> s, position |-> position], "column")

AskArchive(r, d) ==
    \E kind \in {"archive", "unarchive"} :
      /\ board[d].archived # (kind = "archive")
      /\ ReadDeal(r, [kind |-> kind, deal |-> d, to |-> board[d].stage, position |-> 0],
                  "write")

\* DELETE: one statement of its transaction touches the row.
DeleteDeal(r, d) ==
    /\ MayBegin(r) /\ "delete" \in Kinds
    /\ Exists(board, d) /\ lock[d] = Nobody
    /\ board' = [board EXCEPT ![d] = [NoRow EXCEPT !.stage = "gone"]]
    /\ Goto(r, "done")
    /\ UNCHANGED <<pend, lock, req, seen, slot, targets>>

-----------------------------------------------------------------------------
(* Later statements.                                                       *)

\* Reads the destination column: its lowest order, or all of it for a move.
ReadColumn(r) ==
    /\ pc[r] = "column"
    /\ IF req[r].kind = "move"
         THEN LET others == In(View(r), req[r].to) \ {Subject(r)}
                  index  == TargetIndex(req[r].position, Cardinality(others))
              IN  /\ slot' = [slot EXCEPT ![r] = index]
                  /\ targets' = [targets EXCEPT ![r] = Destination(View(r), others, index)]
         ELSE /\ slot' = [slot EXCEPT ![r] = TopOrder(View(r), req[r].to)]
              /\ UNCHANGED targets
    /\ Goto(r, "write")
    /\ UNCHANGED <<board, pend, lock, req, seen>>

\* Mutant: every change of stage counts as entering or leaving.
Enters_Always(r) == req[r].to \in Terminal
Enters(r) == req[r].to \in Terminal /\ seen[r].stage \notin Terminal

\* Mutant: a reopened deal keeps its closing date.
Leaves_Never(r) == FALSE
Leaves(r) == req[r].to \notin Terminal /\ seen[r].stage \in Terminal

\* deal.won and deal.lost, emitted after the commit.
EnteredWon(r)  == Restages(r) /\ Enters(r) /\ req[r].to \in Won
EnteredLost(r) == Restages(r) /\ Enters(r) /\ req[r].to \in Lost

\* A move within the stage it read writes boardOrder alone.
Restaged(r, row) ==
    IF ~Restages(r) THEN [row EXCEPT !.order = slot[r]]
    ELSE [row EXCEPT !.stage = req[r].to, !.order = slot[r],
                     !.closed = IF Enters(r) THEN TRUE ELSE IF Leaves(r) THEN FALSE ELSE @]

Written(r, row) ==
    CASE req[r].kind = "archive"   -> [row EXCEPT !.archived = TRUE]
      [] req[r].kind = "unarchive" -> [row EXCEPT !.archived = FALSE]
      [] OTHER                     -> Restaged(r, row)

\* A row takes a write when nobody else has it locked and it still exists.
Writable(r, d) == lock[d] \in {Nobody, r} /\ Exists(View(r), d)

Write(r, d, row) ==
    /\ lock' = [lock EXCEPT ![d] = r]
    /\ pend' = [pend EXCEPT ![d] = row]

WriteDeal(r) ==
    /\ pc[r] = "write" /\ req[r].kind # "create"
    /\ Writable(r, Subject(r))
    /\ Write(r, Subject(r), Written(r, View(r)[Subject(r)]))
    /\ Goto(r, IF req[r].kind = "move" THEN "renumber" ELSE "commit")
    /\ UNCHANGED <<board, req, seen, slot, targets>>

EndRequest(r) ==
    /\ Goto(r, "done")
    /\ req' = [req EXCEPT ![r] = Nobody] /\ seen' = [seen EXCEPT ![r] = NoRow]
    /\ slot' = [slot EXCEPT ![r] = 0] /\ targets' = [targets EXCEPT ![r] = <<>>]

\* The id comes from the sequence, past every id in use; nothing after the
\* insert touches the board, so the transaction commits with it.
InsertDeal(r, d) ==
    /\ pc[r] = "write" /\ req[r].kind = "create"
    /\ \A e \in Deals : e >= d => board[e] = NoRow
    /\ board' = [board EXCEPT ![d] =
         [stage |-> req[r].to, order |-> slot[r], closed |-> FALSE, archived |-> FALSE]]
    /\ EndRequest(r)
    /\ UNCHANGED <<pend, lock>>

\* Mutant: a neighbour is written with the column's stage as well.
Renumbered_Restaged(r, d, row) == [row EXCEPT !.stage = req[r].to, !.order = targets[r][d]]

Renumbered(r, d, row) == [row EXCEPT !.order = targets[r][d]]

\* The next row of the loop, in the order of the target places.
Renumber(r, d) ==
    /\ pc[r] \in {"renumber", "compact"}
    /\ d \in DOMAIN targets[r]
    /\ \A e \in DOMAIN targets[r] : targets[r][d] <= targets[r][e]
    /\ Writable(r, d)
    /\ Write(r, d, Renumbered(r, d, View(r)[d]))
    /\ targets' = [targets EXCEPT ![r] = [e \in DOMAIN @ \ {d} |-> @[e]]]
    /\ UNCHANGED <<board, pc, req, seen, slot>>

EndRenumber(r) ==
    /\ pc[r] \in {"renumber", "compact"}
    /\ DOMAIN targets[r] = {}
    /\ Goto(r, IF pc[r] = "renumber" /\ Restages(r) THEN "source" ELSE "commit")
    /\ UNCHANGED <<board, pend, lock, req, seen, slot, targets>>

\* A move out of a stage compacts the column it leaves.
ReadSource(r) ==
    /\ pc[r] = "source"
    /\ targets' = [targets EXCEPT ![r] = Compacted(View(r), In(View(r), seen[r].stage))]
    /\ Goto(r, "compact")
    /\ UNCHANGED <<board, pend, lock, req, seen, slot>>

Release(r) ==
    /\ lock' = [d \in Deals |-> IF lock[d] = r THEN Nobody ELSE lock[d]]
    /\ pend' = [d \in Deals |-> IF lock[d] = r THEN NoRow ELSE pend[d]]
    /\ EndRequest(r)

Commit(r) ==
    /\ pc[r] = "commit"
    /\ board' = View(r)
    /\ Release(r)

\* The transaction fails and rolls back: a row to update is gone, Postgres
\* ends a deadlock between two moves, or Prisma's transaction timeout passes.
RollBack(r) ==
    /\ pc[r] \in Steps
    /\ Release(r)
    /\ UNCHANGED board

-----------------------------------------------------------------------------
Idle == Active = {} /\ UNCHANGED vars

Next ==
    \/ \E r \in Requests, s \in Stages, d \in Deals :
         \/ AskCreate(r, s)
         \/ AskPatch(r, d, s)
         \/ \E position \in 0..Cardinality(Deals) : AskMove(r, d, s, position)
    \/ \E r \in Requests, d \in Deals :
         AskArchive(r, d) \/ DeleteDeal(r, d) \/ InsertDeal(r, d) \/ Renumber(r, d)
    \/ \E r \in Requests :
         \/ ReadColumn(r) \/ WriteDeal(r) \/ EndRenumber(r)
         \/ ReadSource(r) \/ Commit(r) \/ RollBack(r)
    \/ Idle

Spec == Init /\ [][Next]_vars

-----------------------------------------------------------------------------
(***************************************************************************)
(* Properties.                                                             *)
(***************************************************************************)

\* Renumbering its neighbours, a move that committed did not undo what other
\* requests did to them: a deal changes its stage, its closing date or its
\* archived mark only by a request about that deal.
NeighboursKept ==
    [][\A r \in Requests, d \in Deals :
         pc[r] = "commit" /\ pc'[r] = "done" /\ d # Subject(r)
           => [board'[d] EXCEPT !.order = board[d].order] = board[d]]_vars

\* A deal that is not in a won or lost stage has no closing date.
ClosedMatchesStage ==
    \A d \in Deals : board[d].closed => board[d].stage \in Terminal

\* The committing step of a request, as an action.
Commits(r) == pc[r] = "commit" /\ board' = View(r) /\ pc'[r] = "done"

\* The place of a deal in a column, as the board lists it.
PlaceOf(rows, s, d) == Rank(rows, In(rows, s), d)

SameOrder(column) ==
    \A d, e \in column : Before(board, d, e) <=> Before(board', d, e)

\* A move puts the deal at the asked place of its column, the other deals
\* of that column and of the column it left keep their relative order, and
\* no other column changes.
MoveLandsAsAsked ==
    [][\A r \in Requests :
         Commits(r) /\ req[r].kind = "move" =>
           LET to == req[r].to
               d  == Subject(r)
           IN  /\ board'[d].stage = to
               /\ PlaceOf(board', to, d)
                    = TargetIndex(req[r].position, Cardinality(In(board, to) \ {d}))
               /\ \A s \in Stages : /\ In(board', s) \ {d} = In(board, s) \ {d}
                                    /\ SameOrder(In(board, s) \ {d})]_vars

\* A deal that enters a column by its creation or by a PATCH is the first of
\* that column.
RestagedOnTop ==
    [][\A d \in Deals :
         /\ Exists(board', d) /\ board'[d].stage # board[d].stage
         /\ ~\E r \in Requests : Commits(r) /\ req[r].kind = "move" /\ Subject(r) = d
         => \A e \in In(board, board'[d].stage) : Before(board', d, e)]_vars

\* deal.won and deal.lost tell of a deal that really came from an open stage,
\* and every such commit is told.
OutcomeAnnounced ==
    [][\A r \in Requests :
         Commits(r) =>
           LET opened == board[Subject(r)].stage \notin Terminal
               ends   == board'[Subject(r)].stage
           IN  /\ EnteredWon(r)  <=> opened /\ ends \in Won
               /\ EnteredLost(r) <=> opened /\ ends \in Lost]_vars

\* A card lands where it was asked to, in its column or on top of another one.
CardsLandAsAsked == MoveLandsAsAsked /\ RestagedOnTop
=============================================================================
