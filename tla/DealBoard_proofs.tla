-------------------------- MODULE DealBoard_proofs --------------------------
(***************************************************************************)
(* Proof that concurrent moves leave their neighbours alone: whatever      *)
(* requests interleave, committing a move changes nothing of another deal  *)
(* than its place.  And that, when requests do not overlap, closing dates  *)
(* and won and lost events follow the stages, and a card lands where it    *)
(* was asked to.                                                           *)
(***************************************************************************)
EXTENDS DealBoard, FiniteSetTheorems, WellFoundedInduction, TLAPS

-----------------------------------------------------------------------------
(* The inductive invariant, by parts.                                      *)

\* A row has the four fields; their values do not matter here.
Fields == {"stage", "order", "closed", "archived"}
Shaped(x) == x = [f \in Fields |-> x[f]]

ShapeInv ==
    /\ board = [d \in Deals |-> board[d]] /\ pend = [d \in Deals |-> pend[d]]
    /\ lock \in [Deals -> Requests \cup {Nobody}]
    /\ pc \in [Requests -> Steps \cup {"new", "done"}]
    /\ req = [r \in Requests |-> req[r]]
    /\ \A d \in Deals : Shaped(board[d]) /\ Shaped(pend[d])

\* A request that runs is about a deal.
Aimed == \A r \in Requests : pc[r] \in Steps => Subject(r) \in Deals

SameButOrder(x, y) == \A f \in Fields : f # "order" => x[f] = y[f]

Holding == {"renumber", "source", "compact", "commit"}

\* A locked row is committed, its owner is past its first write, and the
\* version the owner has of it differs in the order only, unless the row is
\* the one the request is about.
OwnVersion ==
    \A d \in Deals : lock[d] # Nobody =>
        /\ board[d].stage \in Stages
        /\ pc[lock[d]] \in Holding
        /\ d # Subject(lock[d]) => SameButOrder(pend[d], board[d])

BoardInv == ShapeInv /\ Aimed /\ OwnVersion

-----------------------------------------------------------------------------
(* Facts about rows and locks.                                             *)

\* A row written with another order is the same row but for its order, and
\* so is one written twice.
LEMMA Reordered ==
    ASSUME NEW x, NEW y, NEW n, Shaped(x), Shaped(y), SameButOrder(x, y)
    PROVE  /\ Shaped([x EXCEPT !.order = n])
           /\ SameButOrder([x EXCEPT !.order = n], y)
BY DEF Fields, Shaped, SameButOrder

\* Every row is itself but for its order, and giving the order back restores
\* the row.
LEMMA Restored ==
    ASSUME NEW x, NEW y, Shaped(x), Shaped(y)
    PROVE  /\ SameButOrder(x, x)
           /\ SameButOrder(x, y) => [x EXCEPT !.order = y.order] = y
BY DEF Fields, Shaped, SameButOrder

\* What a request writes into the row it is about is a row.
LEMMA WrittenShaped ==
    ASSUME NEW r, NEW x, Shaped(x)
    PROVE  Shaped(Written(r, x))
<1>1. Shaped([x EXCEPT !.archived = TRUE]) /\ Shaped([x EXCEPT !.archived = FALSE])
  BY DEF Fields, Shaped
<1>2. Shaped(Restaged(r, x))
  <2>1. CASE ~Restages(r)
    BY <2>1 DEF Restaged, Shaped
  <2>2. CASE Restages(r)
    <3>1. PICK c : Restaged(r, x) = [x EXCEPT !.stage = req[r].to, !.order = slot[r], !.closed = c]
      BY <2>2 DEF Restaged, Shaped
    <3> QED
      BY <3>1 DEF Fields, Shaped
  <2> QED
    BY <2>1, <2>2
<1>3. \/ Written(r, x) = [x EXCEPT !.archived = TRUE]
      \/ Written(r, x) = [x EXCEPT !.archived = FALSE]
      \/ Written(r, x) = Restaged(r, x)
  BY DEF Written
<1> QED
  BY <1>1, <1>2, <1>3

-----------------------------------------------------------------------------
(* The invariant holds.                                                    *)

\* No row is locked at the start.
LEMMA InitInv == Init => BoardInv
<1> SUFFICES ASSUME Init PROVE BoardInv
  OBVIOUS
<1>1. board \in [Deals -> [stage : Stages \cup {"absent"}, order : 0..Cardinality(Deals),
                          closed : BOOLEAN, archived : {FALSE}]]
  BY DEF Init, StartBoards
<1>2. \A d \in Deals : Shaped(board[d]) /\ Shaped(pend[d])
  BY <1>1 DEF Init, NoRow, Fields, Shaped
<1> QED
  BY <1>1, <1>2, BoardAssumption DEF Init, BoardInv, ShapeInv, Aimed, OwnVersion, Steps

\* A step that leaves rows and locks alone, and takes no request away from
\* the rows it holds, keeps the invariant.
LEMMA Undisturbed ==
    ASSUME BoardInv, UNCHANGED <<board, pend, lock>>,
           NEW r \in Requests, NEW step \in Steps \cup {"new", "done"},
           Goto(r, step), req' = req,
           pc[r] \in Steps,
           pc[r] \in Holding => step \in Holding
    PROVE  BoardInv'
BY DEF BoardInv, ShapeInv, Aimed, OwnVersion, Goto, Subject

\* So does the first statement of a request, which holds no row.
LEMMA Asked ==
    ASSUME BoardInv, UNCHANGED <<board, pend, lock>>,
           NEW r \in Requests, NEW step \in Steps, NEW ask, ask.deal \in Deals,
           Goto(r, step), req' = [req EXCEPT ![r] = ask],
           pc[r] = "new"
    PROVE  BoardInv'
<1>1. \A d \in Deals : lock[d] # r
  BY BoardAssumption DEF BoardInv, OwnVersion, Holding
<1> QED
  BY <1>1 DEF BoardInv, ShapeInv, Aimed, OwnVersion, Goto, Subject

\* A request that writes a row it may write: the version it had, or the
\* committed one, with another order; or its own row.
LEMMA WriteKeeps ==
    ASSUME BoardInv, NEW r \in Requests, NEW d \in Deals, NEW x,
           Writable(r, d), Write(r, d, x), Shaped(x),
           d # Subject(r) => \E n : x = [View(r)[d] EXCEPT !.order = n],
           UNCHANGED <<board, req>>,
           pc' \in [Requests -> Steps \cup {"new", "done"}],
           \A q \in Requests : q # r => pc'[q] = pc[q],
           pc[r] \in Steps, pc'[r] \in Holding
    PROVE  BoardInv'
<1> USE DEF BoardInv, ShapeInv
<1>1. /\ lock' = [lock EXCEPT ![d] = r]
      /\ pend' = [pend EXCEPT ![d] = x]
  BY DEF Write
<1>2. ShapeInv'
  BY <1>1
<1>3. lock[d] = r \/ (lock[d] = Nobody /\ View(r)[d] = board[d])
  BY BoardAssumption DEF Writable, View
<1>4. lock[d] = r => View(r)[d] = pend[d]
  BY DEF View
<1>5. board[d].stage \in Stages
  BY <1>3, BoardAssumption DEF Writable, Exists, OwnVersion
<1>6. d # Subject(r) => SameButOrder(x, board[d])
  <2> SUFFICES ASSUME d # Subject(r) PROVE SameButOrder(x, board[d])
    OBVIOUS
  <2>1. PICK n : x = [View(r)[d] EXCEPT !.order = n]
    OBVIOUS
  <2>2. Shaped(View(r)[d]) /\ SameButOrder(View(r)[d], board[d])
    BY <1>3, <1>4, Restored, BoardAssumption DEF OwnVersion
  <2> QED
    BY <2>1, <2>2, Reordered
<1>7. OwnVersion'
  <2> SUFFICES ASSUME NEW e \in Deals, lock'[e] # Nobody
               PROVE  /\ board[e].stage \in Stages
                      /\ pc'[lock'[e]] \in Holding
                      /\ e # Subject(lock'[e]) => SameButOrder(pend'[e], board[e])
    BY DEF OwnVersion, Subject
  <2>1. CASE e = d
    BY <2>1, <1>1, <1>5, <1>6
  <2>2. CASE e # d
    <3>1. lock'[e] = lock[e] /\ pend'[e] = pend[e] /\ lock[e] \in Requests
      BY <2>2, <1>1
    <3>2. pc'[lock[e]] \in Holding
      BY <3>1 DEF OwnVersion
    <3> QED
      BY <3>1, <3>2 DEF OwnVersion
  <2> QED
    BY <2>1, <2>2
<1>8. Aimed'
  <2>1. req' = req /\ \A q \in Requests : pc'[q] \in Steps => pc[q] \in Steps
    OBVIOUS
  <2> QED
    BY <2>1 DEF Aimed, Subject
<1> QED
  BY <1>2, <1>7, <1>8

\* The end of a transaction: the locks of its request go, other rows of the
\* board stay, and the request's own rows may be committed.
LEMMA ReleaseKeeps ==
    ASSUME BoardInv, NEW r \in Requests, Release(r),
           board' = View(r) \/ board' = board
    PROVE  BoardInv'
<1> USE DEF BoardInv, ShapeInv
<1>1. /\ lock' = [d \in Deals |-> IF lock[d] = r THEN Nobody ELSE lock[d]]
      /\ pend' = [d \in Deals |-> IF lock[d] = r THEN NoRow ELSE pend[d]]
      /\ pc' = [pc EXCEPT ![r] = "done"]
      /\ req' = [req EXCEPT ![r] = Nobody]
  BY DEF Release, EndRequest, Goto
<1>2. \A d \in Deals : lock[d] # r => board'[d] = board[d]
  BY DEF View
<1>3. Shaped(NoRow)
  BY DEF Shaped, NoRow, Fields
<1>4. board' = [d \in Deals |-> board'[d]] /\ \A d \in Deals : Shaped(board'[d])
  BY DEF View
<1>5. ShapeInv'
  BY <1>1, <1>3, <1>4
<1>6. OwnVersion'
  BY <1>1, <1>2 DEF OwnVersion, Subject
<1>7. Aimed'
  BY <1>1 DEF Aimed, Subject, Steps
<1> QED
  BY <1>5, <1>6, <1>7

\* Every step keeps the invariant.
LEMMA StepInv == BoardInv /\ [Next]_vars => BoardInv'
<1> SUFFICES ASSUME BoardInv, [Next]_vars PROVE BoardInv'
  OBVIOUS
<1>1. ASSUME NEW r \in Requests, NEW s \in Stages, NEW d \in Deals, AskCreate(r, s)
      PROVE  BoardInv'
  <2>1. AnyDeal \in Deals
    BY DEF AnyDeal
  <2> QED
    BY <1>1, <2>1, Asked DEF AskCreate, MayBegin, Steps
<1>2. ASSUME NEW r \in Requests, NEW ask, NEW step \in Steps, ask.deal \in Deals,
             ReadDeal(r, ask, step)
      PROVE  BoardInv'
  BY <1>2, Asked DEF ReadDeal, MayBegin
<1>3. ASSUME NEW r \in Requests, NEW s \in Stages, NEW d \in Deals, AskPatch(r, d, s)
      PROVE  BoardInv'
  BY <1>3, <1>2 DEF AskPatch, Steps
<1>4. ASSUME NEW r \in Requests, NEW s \in Stages, NEW d \in Deals,
             NEW position \in 0..Cardinality(Deals), AskMove(r, d, s, position)
      PROVE  BoardInv'
  BY <1>4, <1>2 DEF AskMove, Steps
<1>5. ASSUME NEW r \in Requests, NEW d \in Deals, AskArchive(r, d)
      PROVE  BoardInv'
  <2>1. PICK kind : ReadDeal(r, [kind |-> kind, deal |-> d, to |-> board[d].stage, position |-> 0],
                             "write")
    BY <1>5 DEF AskArchive
  <2> QED
    BY <2>1, <1>2 DEF Steps
<1>6. ASSUME NEW r \in Requests, NEW d \in Deals, InsertDeal(r, d)
      PROVE  BoardInv'
  <2> DEFINE row == [stage |-> req[r].to, order |-> slot[r], closed |-> FALSE,
                     archived |-> FALSE]
  <2>1. /\ pc[r] = "write" /\ board[d] = NoRow
        /\ board' = [board EXCEPT ![d] = row]
        /\ pc' = [pc EXCEPT ![r] = "done"]
        /\ req' = [req EXCEPT ![r] = Nobody]
        /\ UNCHANGED <<pend, lock>>
    BY <1>6, BoardAssumption DEF InsertDeal, EndRequest, Goto
  <2>2. Shaped(row)
    BY DEF Shaped, Fields
  <2> HIDE DEF row
  <2>3. lock[d] = Nobody
    BY <2>1, BoardAssumption DEF BoardInv, OwnVersion, NoRow
  <2>4. \A e \in Deals : lock[e] # r
    BY <2>1, BoardAssumption DEF BoardInv, OwnVersion, Holding
  <2>5. ShapeInv'
    BY <2>1, <2>2 DEF BoardInv, ShapeInv
  <2>6. OwnVersion'
    BY <2>1, <2>3, <2>4 DEF BoardInv, ShapeInv, OwnVersion, Subject
  <2>7. Aimed'
    BY <2>1 DEF BoardInv, ShapeInv, Aimed, Subject, Steps
  <2> QED
    BY <2>5, <2>6, <2>7 DEF BoardInv
<1>7. ASSUME NEW r \in Requests, NEW d \in Deals, Renumber(r, d)
      PROVE  BoardInv'
  <2>1. Shaped(View(r)[d])
    BY DEF BoardInv, ShapeInv, View
  <2>2. Renumbered(r, d, View(r)[d]) = [View(r)[d] EXCEPT !.order = targets[r][d]]
    BY DEF Renumbered
  <2>3. Shaped(Renumbered(r, d, View(r)[d]))
    BY <2>1, <2>2 DEF Shaped, Fields
  <2>4. pc[r] \in Holding /\ pc[r] \in Steps /\ UNCHANGED <<board, req, pc>>
    BY <1>7 DEF Renumber, Holding, Steps
  <2> QED
    BY <1>7, <2>2, <2>3, <2>4, WriteKeeps DEF Renumber, BoardInv, ShapeInv
<1>8. ASSUME NEW r \in Requests, WriteDeal(r)
      PROVE  BoardInv'
  <2>1. pc[r] = "write" /\ Subject(r) \in Deals
    BY <1>8 DEF WriteDeal, BoardInv, Aimed, Steps
  <2>2. Shaped(Written(r, View(r)[Subject(r)]))
    BY <2>1, WrittenShaped DEF BoardInv, ShapeInv, View
  <2>3. PICK step \in {"renumber", "commit"} : pc' = [pc EXCEPT ![r] = step]
    BY <1>8 DEF WriteDeal, Goto
  <2>4. UNCHANGED <<board, req>>
    BY <1>8 DEF WriteDeal
  <2>5. /\ pc' \in [Requests -> Steps \cup {"new", "done"}]
        /\ pc'[r] \in Holding /\ \A q \in Requests : q # r => pc'[q] = pc[q]
    BY <2>3 DEF BoardInv, ShapeInv, Steps, Holding
  <2>6. Writable(r, Subject(r)) /\ Write(r, Subject(r), Written(r, View(r)[Subject(r)]))
    BY <1>8 DEF WriteDeal
  <2>7. pc[r] \in Steps
    BY <2>1 DEF Steps
  <2> QED
    BY <2>1, <2>2, <2>4, <2>5, <2>6, <2>7, WriteKeeps
<1>9. ASSUME NEW r \in Requests, ReadColumn(r)
      PROVE  BoardInv'
  BY <1>9, Undisturbed DEF ReadColumn, Steps, Holding
<1>10. ASSUME NEW r \in Requests, EndRenumber(r)
       PROVE  BoardInv'
  BY <1>10, Undisturbed DEF EndRenumber, Steps, Holding
<1>11. ASSUME NEW r \in Requests, ReadSource(r)
       PROVE  BoardInv'
  BY <1>11, Undisturbed DEF ReadSource, Steps, Holding
<1>12. ASSUME NEW r \in Requests, Commit(r)
       PROVE  BoardInv'
  BY <1>12, ReleaseKeeps DEF Commit
<1>13. ASSUME NEW r \in Requests, RollBack(r)
       PROVE  BoardInv'
  BY <1>13, ReleaseKeeps DEF RollBack
<1>14. ASSUME NEW r \in Requests, NEW d \in Deals, DeleteDeal(r, d)
       PROVE  BoardInv'
  <2> DEFINE row == [NoRow EXCEPT !.stage = "gone"]
  <2>1. /\ lock[d] = Nobody
        /\ pc[r] = "new"
        /\ board' = [board EXCEPT ![d] = row]
        /\ pc' = [pc EXCEPT ![r] = "done"]
        /\ UNCHANGED <<pend, lock, req>>
    BY <1>14 DEF DeleteDeal, MayBegin, Goto
  <2>2. Shaped(row)
    BY DEF NoRow, Shaped, Fields
  <2> HIDE DEF row
  <2>3. ShapeInv'
    BY <2>1, <2>2 DEF BoardInv, ShapeInv
  <2>4. \A e \in Deals : lock[e] # r
    BY <2>1, BoardAssumption DEF BoardInv, OwnVersion, Holding
  <2>5. OwnVersion'
    BY <2>1, <2>4 DEF BoardInv, ShapeInv, OwnVersion, Subject
  <2>6. Aimed'
    BY <2>1 DEF BoardInv, ShapeInv, Aimed, Subject, Steps
  <2> QED
    BY <2>3, <2>5, <2>6 DEF BoardInv
<1>15. CASE UNCHANGED vars
  BY <1>15 DEF vars, BoardInv, ShapeInv, Aimed, OwnVersion, Subject
<1> QED
  BY <1>1, <1>3, <1>4, <1>5, <1>6, <1>7, <1>8, <1>9, <1>10, <1>11, <1>12, <1>13,
     <1>14, <1>15 DEF Next, Idle

\* The rows, the locks and the versions under way fit together in every
\* reachable state.
THEOREM Consistent == Spec => []BoardInv
BY InitInv, StepInv, PTL DEF Spec

-----------------------------------------------------------------------------
(* Neighbours.                                                             *)

\* In one step: the end of a request changes no other deal but for its order.
LEMMA StepKeepsNeighbours ==
    ASSUME BoardInv, [Next]_vars, NEW r \in Requests, NEW d \in Deals,
           pc[r] = "commit", pc'[r] = "done", d # Subject(r)
    PROVE  [board'[d] EXCEPT !.order = board[d].order] = board[d]
<1>1. Shaped(board[d]) /\ Shaped(pend[d])
  BY DEF BoardInv, ShapeInv
<1>2. CASE board' = board
  BY <1>1, <1>2, Restored
<1>3. CASE Commit(r)
  <2>1. board'[d] = IF lock[d] = r THEN pend[d] ELSE board[d]
    BY <1>3 DEF Commit, View
  <2>2. lock[d] = r => SameButOrder(pend[d], board[d])
    BY BoardAssumption DEF BoardInv, OwnVersion
  <2> QED
    BY <1>1, <2>1, <2>2, Restored
<1>4. \/ board' = board
      \/ Commit(r)
  <2> USE DEF BoardInv, ShapeInv, Goto
  <2>1. ASSUME NEW q \in Requests, NEW e \in Deals, InsertDeal(q, e)
        PROVE  FALSE
    BY <2>1 DEF InsertDeal, EndRequest
  <2>2. ASSUME NEW q \in Requests, NEW e \in Deals, DeleteDeal(q, e)
        PROVE  FALSE
    BY <2>2 DEF DeleteDeal, MayBegin
  <2>3. ASSUME NEW q \in Requests, Commit(q)
        PROVE  q = r
    BY <2>3 DEF Commit, Release, EndRequest
  <2>4. ASSUME NEW q \in Requests, NEW ask, NEW step, ReadDeal(q, ask, step)
        PROVE  board' = board
    BY <2>4 DEF ReadDeal
  <2>5. ASSUME NEW q \in Requests, NEW s \in Stages, NEW e \in Deals,
               AskCreate(q, s) \/ AskPatch(q, e, s)
               \/ \E position \in 0..Cardinality(Deals) : AskMove(q, e, s, position)
        PROVE  board' = board
    BY <2>4, <2>5 DEF AskCreate, AskPatch, AskMove
  <2>6. ASSUME NEW q \in Requests, NEW e \in Deals, AskArchive(q, e) \/ Renumber(q, e)
        PROVE  board' = board
    BY <2>4, <2>6 DEF AskArchive, Renumber
  <2>7. ASSUME NEW q \in Requests,
               ReadColumn(q) \/ WriteDeal(q) \/ EndRenumber(q) \/ ReadSource(q)
               \/ RollBack(q)
        PROVE  board' = board
    BY <2>7 DEF ReadColumn, WriteDeal, EndRenumber, ReadSource, RollBack
  <2>8. UNCHANGED vars => board' = board
    BY DEF vars
  <2> HIDE DEF BoardInv, ShapeInv, Goto
  <2>9. CASE \E q \in Requests, s \in Stages, e \in Deals :
               AskCreate(q, s) \/ AskPatch(q, e, s)
               \/ \E position \in 0..Cardinality(Deals) : AskMove(q, e, s, position)
    BY <2>5, <2>9
  <2>10. CASE \E q \in Requests, e \in Deals :
                AskArchive(q, e) \/ DeleteDeal(q, e) \/ InsertDeal(q, e) \/ Renumber(q, e)
    BY <2>1, <2>2, <2>6, <2>10
  <2>11. CASE \E q \in Requests :
                ReadColumn(q) \/ WriteDeal(q) \/ EndRenumber(q) \/ ReadSource(q)
                \/ Commit(q) \/ RollBack(q)
    BY <2>3, <2>7, <2>11
  <2> QED
    BY <2>8, <2>9, <2>10, <2>11 DEF Next, Idle
<1> QED
  BY <1>2, <1>3, <1>4

\* Renumbering a column never undoes what another request did to a deal in
\* it, for any number of deals, stages and overlapping requests.
THEOREM NeighboursUntouched == Spec => NeighboursKept
<1>1. BoardInv /\ [Next]_vars
        => [\A r \in Requests, d \in Deals :
              pc[r] = "commit" /\ pc'[r] = "done" /\ d # Subject(r)
                => [board'[d] EXCEPT !.order = board[d].order] = board[d]]_vars
  BY StepKeepsNeighbours
<1> QED
  BY <1>1, Consistent, PTL DEF Spec, NeighboursKept

-----------------------------------------------------------------------------
(* Closing dates, when requests do not overlap.                            *)

Closed(x) == x.closed => x.stage \in Terminal

\* At most one request runs, what it read of its deal is still so, and no
\* version of a deal under way has a closing date outside a terminal stage.
OneAtATime == \A p, q \in Requests : pc[p] \in Steps /\ pc[q] \in Steps => p = q
SeenTrue ==
    /\ seen = [r \in Requests |-> seen[r]]
    /\ \A r \in Requests :
         pc[r] \in Steps /\ req[r].kind # "create" => board[Subject(r)] = seen[r]
PendMatches == \A d \in Deals : lock[d] # Nobody => Closed(pend[d])

SoloInv == OneAtATime /\ SeenTrue /\ PendMatches /\ ClosedMatchesStage

\* The version a request sees of a deal is as good as the committed ones.
LEMMA ViewClosed ==
    ASSUME BoardInv, SoloInv, NEW r \in Requests, NEW d \in Deals
    PROVE  Closed(View(r)[d])
BY BoardAssumption DEF SoloInv, PendMatches, ClosedMatchesStage, Closed, View

\* A request that read its deal as it is leaves a closing date only in a
\* terminal stage.
LEMMA WrittenClosed ==
    ASSUME NEW r, NEW x, Shaped(x), Closed(x), x = seen[r]
    PROVE  Closed(Written(r, x))
<1>1. Closed([x EXCEPT !.archived = TRUE]) /\ Closed([x EXCEPT !.archived = FALSE])
  BY DEF Closed, Shaped, Fields
<1>2. Closed(Restaged(r, x))
  <2>1. CASE ~Restages(r)
    <3>1. Restaged(r, x) = [x EXCEPT !.order = slot[r]]
      BY <2>1 DEF Restaged
    <3> QED
      BY <3>1 DEF Closed, Shaped, Fields
  <2>2. CASE Restages(r) /\ req[r].to \in Terminal
    <3>1. PICK c : Restaged(r, x) = [x EXCEPT !.stage = req[r].to, !.order = slot[r], !.closed = c]
      BY <2>2 DEF Restaged, Shaped
    <3> QED
      BY <2>2, <3>1 DEF Closed, Shaped, Fields
  <2>3. CASE Restages(r) /\ req[r].to \notin Terminal
    <3>1. ~Enters(r) /\ (Leaves(r) <=> x.stage \in Terminal)
      BY <2>3 DEF Enters, Leaves
    <3>2. CASE x.stage \in Terminal
      <4>1. Restaged(r, x) = [x EXCEPT !.stage = req[r].to, !.order = slot[r], !.closed = FALSE]
        BY <2>3, <3>1, <3>2 DEF Restaged, Shaped
      <4> QED
        BY <4>1 DEF Closed, Shaped, Fields
    <3>3. CASE x.stage \notin Terminal
      <4>1. Restaged(r, x) = [x EXCEPT !.stage = req[r].to, !.order = slot[r], !.closed = x.closed]
        BY <2>3, <3>1, <3>3 DEF Restaged, Shaped
      <4> QED
        BY <3>3, <4>1 DEF Closed, Shaped, Fields
    <3> QED
      BY <3>2, <3>3
  <2> QED
    BY <2>1, <2>2, <2>3
<1>3. \/ Written(r, x) = [x EXCEPT !.archived = TRUE]
      \/ Written(r, x) = [x EXCEPT !.archived = FALSE]
      \/ Written(r, x) = Restaged(r, x)
  BY DEF Written
<1> QED
  BY <1>1, <1>2, <1>3

\* Every deal is as closed as its stage at the start, and nothing runs.
LEMMA InitSolo == Init => SoloInv
<1> SUFFICES ASSUME Init PROVE SoloInv
  OBVIOUS
<1>1. \A d \in Deals : Exists(board, d) /\ board[d].closed => board[d].stage \in Terminal
  <2>1. \A d \in Deals : Exists(board, d) => board[d].closed = (board[d].stage \in Terminal)
    BY DEF Init, StartBoards
  <2> QED
    BY <2>1
<1>2. \A d \in Deals : ~Exists(board, d) => board[d] = NoRow
  BY DEF Init, StartBoards
<1>3. \A d \in Deals : ~Exists(board, d) => ~board[d].closed
  BY <1>2 DEF NoRow
<1>4. ClosedMatchesStage
  BY <1>1, <1>3 DEF ClosedMatchesStage
<1> QED
  BY <1>4 DEF Init, SoloInv, OneAtATime, SeenTrue, PendMatches, Steps

\* A first statement finds nothing running and leaves the rows alone.
LEMMA AskedSolo ==
    ASSUME ~Overlap, BoardInv, SoloInv, NEW r \in Requests, MayBegin(r),
           NEW step \in Steps, NEW ask, Goto(r, step), req' = [req EXCEPT ![r] = ask],
           UNCHANGED <<board, pend, lock>>,
           \/ ask.kind = "create" /\ seen' = seen
           \/ seen' = [seen EXCEPT ![r] = board[ask.deal]]
    PROVE  SoloInv'
<1>1. \A q \in Requests : pc[q] \notin Steps
  BY DEF MayBegin, Active
<1>2. /\ \A q \in Requests : pc'[q] \in Steps => q = r
      /\ req'[r] = ask
  BY <1>1 DEF BoardInv, ShapeInv, Goto
<1> QED
  BY <1>1, <1>2 DEF SoloInv, OneAtATime, SeenTrue, PendMatches, ClosedMatchesStage, Subject

\* A later statement that leaves the committed rows alone and writes, if
\* anything, a good version of one deal.
LEMMA LaterSolo ==
    ASSUME BoardInv, SoloInv, NEW r \in Requests, pc[r] \in Steps,
           pc' \in [Requests -> Steps \cup {"new", "done"}],
           \A q \in Requests : q # r => pc'[q] = pc[q],
           UNCHANGED <<board, req, seen>>, PendMatches'
    PROVE  SoloInv'
BY DEF SoloInv, OneAtATime, SeenTrue, PendMatches, ClosedMatchesStage, Subject

\* The end of the only request that runs.
LEMMA EndedSolo ==
    ASSUME BoardInv, SoloInv, NEW r \in Requests, Goto(r, "done"),
           \A q \in Requests : pc[q] \in Steps => q = r,
           seen' = seen \/ seen' = [seen EXCEPT ![r] = NoRow],
           PendMatches', ClosedMatchesStage'
    PROVE  SoloInv'
<1>1. \A q \in Requests : pc'[q] \notin Steps
  BY DEF Goto, BoardInv, ShapeInv, Steps
<1> QED
  BY <1>1 DEF SoloInv, OneAtATime, SeenTrue

\* Every step keeps the closing dates right when requests do not overlap.
LEMMA StepSolo == ~Overlap /\ BoardInv /\ SoloInv /\ [Next]_vars => SoloInv'
<1> SUFFICES ASSUME ~Overlap, BoardInv, SoloInv, [Next]_vars PROVE SoloInv'
  OBVIOUS
<1>1. ASSUME NEW r \in Requests, NEW s \in Stages, AskCreate(r, s)
      PROVE  SoloInv'
  BY <1>1, AskedSolo DEF AskCreate, Steps
<1>2. ASSUME NEW r \in Requests, NEW ask, NEW step \in Steps, ReadDeal(r, ask, step)
      PROVE  SoloInv'
  BY <1>2, AskedSolo DEF ReadDeal
<1>3. ASSUME NEW r \in Requests, NEW d \in Deals, NEW s \in Stages, AskPatch(r, d, s)
      PROVE  SoloInv'
  BY <1>2, <1>3 DEF AskPatch, Steps
<1>4. ASSUME NEW r \in Requests, NEW d \in Deals, NEW s \in Stages,
              NEW position \in 0..Cardinality(Deals), AskMove(r, d, s, position)
       PROVE  SoloInv'
  BY <1>2, <1>4 DEF AskMove, Steps
<1>5. ASSUME NEW r \in Requests, NEW d \in Deals, AskArchive(r, d)
       PROVE  SoloInv'
  BY <1>2, <1>5 DEF AskArchive, Steps
<1>6. ASSUME NEW r \in Requests, NEW d \in Deals, InsertDeal(r, d)
      PROVE  SoloInv'
  <2> DEFINE row == [stage |-> req[r].to, order |-> slot[r], closed |-> FALSE,
                     archived |-> FALSE]
  <2>1. /\ pc[r] = "write" /\ Goto(r, "done")
        /\ board' = [board EXCEPT ![d] = row]
        /\ seen' = [seen EXCEPT ![r] = NoRow]
        /\ UNCHANGED <<pend, lock>>
    BY <1>6 DEF InsertDeal, EndRequest
  <2>2. ~row.closed
    OBVIOUS
  <2> HIDE DEF row
  <2>3. ClosedMatchesStage' /\ PendMatches'
    BY <2>1, <2>2 DEF SoloInv, ClosedMatchesStage, PendMatches, BoardInv, ShapeInv
  <2> QED
    BY <2>1, <2>3, EndedSolo DEF SoloInv, OneAtATime, Steps
<1>7. ASSUME NEW r \in Requests, NEW d \in Deals, DeleteDeal(r, d)
      PROVE  SoloInv'
  <2> DEFINE row == [NoRow EXCEPT !.stage = "gone"]
  <2>1. /\ Active = {} /\ Goto(r, "done")
        /\ board' = [board EXCEPT ![d] = row]
        /\ UNCHANGED <<pend, lock, seen>>
    BY <1>7 DEF DeleteDeal, MayBegin
  <2>2. ~row.closed
    BY DEF NoRow
  <2> HIDE DEF row
  <2>3. ClosedMatchesStage' /\ PendMatches'
    BY <2>1, <2>2 DEF SoloInv, ClosedMatchesStage, PendMatches, BoardInv, ShapeInv
  <2> QED
    BY <2>1, <2>3, EndedSolo DEF Active
<1>8. ASSUME NEW r \in Requests, NEW d \in Deals, Renumber(r, d)
      PROVE  SoloInv'
  <2>1. /\ pc[r] \in Steps /\ UNCHANGED <<board, req, seen, pc>>
        /\ lock' = [lock EXCEPT ![d] = r]
        /\ pend' = [pend EXCEPT ![d] = Renumbered(r, d, View(r)[d])]
    BY <1>8 DEF Renumber, Write, Steps
  <2>2. Shaped(View(r)[d]) /\ Closed(View(r)[d])
    BY ViewClosed DEF BoardInv, ShapeInv, View
  <2>3. Closed(Renumbered(r, d, View(r)[d]))
    BY <2>2 DEF Renumbered, Closed, Shaped, Fields
  <2>4. PendMatches'
    BY <2>1, <2>3 DEF SoloInv, PendMatches, BoardInv, ShapeInv, Closed
  <2> QED
    BY <2>1, <2>4, LaterSolo DEF BoardInv, ShapeInv
<1>9. ASSUME NEW r \in Requests, WriteDeal(r)
      PROVE  SoloInv'
  <2> DEFINE d == Subject(r)
  <2>1. /\ pc[r] = "write" /\ req[r].kind # "create" /\ pc[r] \in Steps
        /\ UNCHANGED <<board, req, seen>>
        /\ lock' = [lock EXCEPT ![d] = r]
        /\ pend' = [pend EXCEPT ![d] = Written(r, View(r)[d])]
    BY <1>9 DEF WriteDeal, Write, Steps
  <2>2. d \in Deals /\ lock[d] # r
    BY <2>1, BoardAssumption DEF BoardInv, Aimed, OwnVersion, Holding
  <2>3. View(r)[d] = seen[r]
    BY <2>1, <2>2 DEF View, SoloInv, SeenTrue
  <2>4. Shaped(View(r)[d]) /\ Closed(View(r)[d])
    BY <2>2, ViewClosed DEF BoardInv, ShapeInv, View
  <2>5. Closed(Written(r, View(r)[d]))
    BY <2>3, <2>4, WrittenClosed
  <2>6. PendMatches'
    BY <2>1, <2>2, <2>5 DEF SoloInv, PendMatches, BoardInv, ShapeInv, Closed
  <2>7. PICK step \in {"renumber", "commit"} : pc' = [pc EXCEPT ![r] = step]
    BY <1>9 DEF WriteDeal, Goto
  <2>8. /\ pc' \in [Requests -> Steps \cup {"new", "done"}]
        /\ \A q \in Requests : q # r => pc'[q] = pc[q]
    BY <2>7 DEF BoardInv, ShapeInv, Steps
  <2> QED
    BY <2>1, <2>6, <2>8, LaterSolo
<1>10. ASSUME NEW r \in Requests, ReadColumn(r) \/ EndRenumber(r) \/ ReadSource(r)
      PROVE  SoloInv'
  <2>1. pc[r] \in Steps /\ UNCHANGED <<board, pend, lock, req, seen>>
    BY <1>10 DEF ReadColumn, EndRenumber, ReadSource, Steps
  <2>2. PICK step \in Steps : pc' = [pc EXCEPT ![r] = step]
    BY <1>10 DEF ReadColumn, EndRenumber, ReadSource, Goto, Steps
  <2>3. PendMatches'
    BY <2>1 DEF SoloInv, PendMatches
  <2> QED
    BY <2>1, <2>2, <2>3, LaterSolo DEF BoardInv, ShapeInv
<1>11. ASSUME NEW r \in Requests, Commit(r) \/ RollBack(r)
      PROVE  SoloInv'
  <2>1. /\ pc[r] \in Steps /\ Goto(r, "done") /\ seen' = [seen EXCEPT ![r] = NoRow]
        /\ lock' = [d \in Deals |-> IF lock[d] = r THEN Nobody ELSE lock[d]]
        /\ pend' = [d \in Deals |-> IF lock[d] = r THEN NoRow ELSE pend[d]]
        /\ board' = View(r) \/ board' = board
    BY <1>11 DEF Commit, RollBack, Release, EndRequest, Steps
  <2>2. ClosedMatchesStage'
    <3>1. \A d \in Deals : Closed(View(r)[d])
      BY ViewClosed
    <3> QED
      BY <2>1, <3>1 DEF SoloInv, ClosedMatchesStage, Closed
  <2>3. PendMatches'
    BY <2>1 DEF SoloInv, PendMatches, Closed
  <2> QED
    BY <2>1, <2>2, <2>3, EndedSolo DEF SoloInv, OneAtATime
<1>12. CASE UNCHANGED vars
  BY <1>12 DEF vars, SoloInv, OneAtATime, SeenTrue, PendMatches, Closed,
                ClosedMatchesStage, Subject
<1> QED
  BY <1>1, <1>3, <1>4, <1>5, <1>6, <1>7, <1>8, <1>9, <1>10,
     <1>11, <1>12 DEF Next, Idle

\* When requests do not overlap, a deal outside won and lost stages never
\* has a closing date, for any board and any number of requests.
THEOREM ClosingDates == ~Overlap => (Spec => []ClosedMatchesStage)
<1> SUFFICES ASSUME ~Overlap
             PROVE  Spec => []ClosedMatchesStage
  OBVIOUS
<1>1. BoardInv /\ SoloInv /\ [Next]_vars => SoloInv'
  BY StepSolo
<1>2. SoloInv => ClosedMatchesStage
  BY DEF SoloInv
<1> QED
  BY Consistent, InitSolo, <1>1, <1>2, PTL DEF Spec

-----------------------------------------------------------------------------
(* Events, when requests do not overlap.                                   *)

Archives(r) == req[r].kind \in {"archive", "unarchive"}

\* A request past its first write holds its deal's row, in the stage it asked
\* for; one that archives asked for the stage the deal had.
HoldsItsDeal ==
    \A r \in Requests :
        /\ pc[r] \in Steps /\ Archives(r) => req[r].to = seen[r].stage
        /\ pc[r] \in Holding =>
             /\ req[r].kind # "create"
             /\ lock[Subject(r)] = r
             /\ pend[Subject(r)].stage = req[r].to

\* What a request writes into the deal it read is in the stage it asked for.
LEMMA WrittenStage ==
    ASSUME NEW r, NEW x, Shaped(x), x = seen[r],
           Archives(r) => req[r].to = seen[r].stage
    PROVE  Written(r, x).stage = req[r].to
<1>1. CASE Archives(r)
  <2>1. \/ Written(r, x) = [x EXCEPT !.archived = TRUE]
        \/ Written(r, x) = [x EXCEPT !.archived = FALSE]
    BY <1>1 DEF Written, Archives
  <2> QED
    BY <1>1, <2>1 DEF Shaped, Fields
<1>2. CASE ~Archives(r)
  <2>1. Written(r, x) = Restaged(r, x)
    BY <1>2 DEF Written, Archives
  <2>2. CASE ~Restages(r)
    <3>1. Restaged(r, x) = [x EXCEPT !.order = slot[r]] /\ req[r].to = x.stage
      BY <2>2 DEF Restaged, Restages
    <3> QED
      BY <2>1, <3>1 DEF Shaped, Fields
  <2>3. CASE Restages(r)
    <3>1. PICK c : Restaged(r, x) = [x EXCEPT !.stage = req[r].to, !.order = slot[r], !.closed = c]
      BY <2>3 DEF Restaged, Shaped
    <3> QED
      BY <2>1, <3>1 DEF Shaped, Fields
  <2> QED
    BY <2>2, <2>3
<1> QED
  BY <1>1, <1>2

\* A first statement that leaves the rows alone.
LEMMA AskedHolds ==
    ASSUME BoardInv, SoloInv, HoldsItsDeal, NEW r \in Requests,
           NEW step \in {"column", "write"}, NEW ask,
           Goto(r, step), req' = [req EXCEPT ![r] = ask],
           UNCHANGED <<board, pend, lock>>,
           seen' = seen \/ seen' = [seen EXCEPT ![r] = board[ask.deal]],
           ask.kind \in {"archive", "unarchive"} => ask.to = seen'[r].stage
    PROVE  HoldsItsDeal'
<1>1. /\ pc'[r] = step /\ req'[r] = ask
      /\ \A q \in Requests : q # r => /\ pc'[q] = pc[q] /\ req'[q] = req[q]
                                      /\ seen'[q] = seen[q]
  BY DEF BoardInv, ShapeInv, SoloInv, SeenTrue, Goto
<1> QED
  BY <1>1 DEF HoldsItsDeal, Archives, Subject, Holding

\* The end of a request; the rows the others hold stay as they are.
LEMMA EndedHolds ==
    ASSUME BoardInv, HoldsItsDeal, NEW r \in Requests, Goto(r, "done"),
           \A q \in Requests : q # r => req'[q] = req[q] /\ seen'[q] = seen[q],
           \A d \in Deals : lock[d] # r => lock'[d] = lock[d] /\ pend'[d] = pend[d]
    PROVE  HoldsItsDeal'
<1>1. pc'[r] = "done" /\ \A q \in Requests : q # r => pc'[q] = pc[q]
  BY DEF BoardInv, ShapeInv, Goto
<1>2. \A q \in Requests : pc[q] \in Holding => Subject(q) \in Deals
  BY DEF BoardInv, Aimed, Holding, Steps
<1> QED
  BY <1>1, <1>2 DEF HoldsItsDeal, Archives, Subject, Holding, Steps

\* Every step keeps it when requests do not overlap.
LEMMA StepHolds ==
    ~Overlap /\ BoardInv /\ SoloInv /\ HoldsItsDeal /\ [Next]_vars => HoldsItsDeal'
<1> SUFFICES ASSUME ~Overlap, BoardInv, SoloInv, HoldsItsDeal, [Next]_vars
             PROVE  HoldsItsDeal'
  OBVIOUS
<1>1. ASSUME NEW r \in Requests, NEW s \in Stages, AskCreate(r, s)
      PROVE  HoldsItsDeal'
  BY <1>1, AskedHolds DEF AskCreate
<1>2. ASSUME NEW r \in Requests, NEW ask, NEW step \in {"column", "write"},
             ReadDeal(r, ask, step),
             ask.kind \in {"archive", "unarchive"} => ask.to = board[ask.deal].stage
      PROVE  HoldsItsDeal'
  <2>1. seen' = [seen EXCEPT ![r] = board[ask.deal]]
    BY <1>2 DEF ReadDeal
  <2>2. seen'[r] = board[ask.deal]
    BY <2>1 DEF SoloInv, SeenTrue
  <2> QED
    BY <1>2, <2>1, <2>2, AskedHolds DEF ReadDeal
<1>3. ASSUME NEW r \in Requests, NEW d \in Deals, NEW s \in Stages, AskPatch(r, d, s)
      PROVE  HoldsItsDeal'
  BY <1>2, <1>3 DEF AskPatch
<1>4. ASSUME NEW r \in Requests, NEW d \in Deals, NEW s \in Stages,
             NEW position \in 0..Cardinality(Deals), AskMove(r, d, s, position)
      PROVE  HoldsItsDeal'
  BY <1>2, <1>4 DEF AskMove
<1>5. ASSUME NEW r \in Requests, NEW d \in Deals, AskArchive(r, d)
      PROVE  HoldsItsDeal'
  BY <1>2, <1>5 DEF AskArchive
<1>6. ASSUME NEW r \in Requests, NEW d \in Deals, InsertDeal(r, d)
      PROVE  HoldsItsDeal'
  <2>1. /\ Goto(r, "done") /\ UNCHANGED <<pend, lock>>
        /\ req' = [req EXCEPT ![r] = Nobody] /\ seen' = [seen EXCEPT ![r] = NoRow]
    BY <1>6 DEF InsertDeal, EndRequest
  <2> QED
    BY <2>1, EndedHolds DEF BoardInv, ShapeInv, SoloInv, SeenTrue
<1>7. ASSUME NEW r \in Requests, NEW d \in Deals, DeleteDeal(r, d)
      PROVE  HoldsItsDeal'
  BY <1>7, EndedHolds DEF DeleteDeal
<1>8. ASSUME NEW r \in Requests, NEW d \in Deals, Renumber(r, d)
      PROVE  HoldsItsDeal'
  <2>1. /\ UNCHANGED <<board, req, seen, pc>> /\ lock[d] \in {Nobody, r}
        /\ lock' = [lock EXCEPT ![d] = r]
        /\ pend' = [pend EXCEPT ![d] = Renumbered(r, d, View(r)[d])]
    BY <1>8 DEF Renumber, Write, Writable
  <2>2. Shaped(View(r)[d])
    BY DEF BoardInv, ShapeInv, View
  <2>3. Renumbered(r, d, View(r)[d]).stage = View(r)[d].stage
    BY <2>2 DEF Renumbered, Shaped, Fields
  <2>4. lock[d] = r => View(r)[d] = pend[d]
    BY DEF View
  <2>5. \A q \in Requests : pc[q] \in Holding =>
          /\ Subject(q) \in Deals /\ lock'[Subject(q)] = q
          /\ pend'[Subject(q)].stage = pend[Subject(q)].stage
    BY <2>1, <2>3, <2>4, BoardAssumption
       DEF HoldsItsDeal, BoardInv, ShapeInv, Aimed, Holding, Steps
  <2> QED
    BY <2>1, <2>5 DEF HoldsItsDeal, Archives, Subject
<1>9. ASSUME NEW r \in Requests, WriteDeal(r)
      PROVE  HoldsItsDeal'
  <2> DEFINE d == Subject(r)
  <2>1. /\ pc[r] = "write" /\ req[r].kind # "create" /\ pc[r] \in Steps
        /\ UNCHANGED <<board, req, seen>> /\ lock[d] \in {Nobody, r}
        /\ lock' = [lock EXCEPT ![d] = r]
        /\ pend' = [pend EXCEPT ![d] = Written(r, View(r)[d])]
    BY <1>9 DEF WriteDeal, Write, Writable, Steps
  <2>2. d \in Deals /\ lock[d] # r
    BY <2>1, BoardAssumption DEF BoardInv, Aimed, OwnVersion, Holding
  <2>3. View(r)[d] = seen[r] /\ Shaped(View(r)[d])
    BY <2>1, <2>2 DEF View, SoloInv, SeenTrue, BoardInv, ShapeInv
  <2>4. Written(r, View(r)[d]).stage = req[r].to
    BY <2>1, <2>3, WrittenStage DEF HoldsItsDeal
  <2>5. PICK step \in {"renumber", "commit"} : pc' = [pc EXCEPT ![r] = step]
    BY <1>9 DEF WriteDeal, Goto
  <2>6. \A q \in Requests \ {r} : pc'[q] = pc[q] /\ pc[q] \notin Steps
    BY <2>1, <2>5 DEF SoloInv, OneAtATime, BoardInv, ShapeInv
  <2>7. lock'[d] = r /\ pend'[d].stage = req[r].to
    BY <2>1, <2>2, <2>4 DEF BoardInv, ShapeInv
  <2> QED
    BY <2>1, <2>6, <2>7 DEF HoldsItsDeal, Archives, Subject, Holding, Steps
<1>10. ASSUME NEW r \in Requests, ReadColumn(r) \/ EndRenumber(r) \/ ReadSource(r)
       PROVE  HoldsItsDeal'
  <2>1. pc[r] \in Steps /\ UNCHANGED <<board, pend, lock, req, seen>>
    BY <1>10 DEF ReadColumn, EndRenumber, ReadSource, Steps
  <2>2. PICK step \in Steps :
          pc' = [pc EXCEPT ![r] = step] /\ (step \in Holding => pc[r] \in Holding)
    BY <1>10 DEF ReadColumn, EndRenumber, ReadSource, Goto, Steps, Holding
  <2>3. \A q \in Requests : /\ pc'[q] \in Steps => pc[q] \in Steps
                            /\ pc'[q] \in Holding => pc[q] \in Holding
    BY <2>1, <2>2 DEF BoardInv, ShapeInv
  <2> QED
    BY <2>1, <2>3 DEF HoldsItsDeal, Archives, Subject
<1>11. ASSUME NEW r \in Requests, Commit(r) \/ RollBack(r)
       PROVE  HoldsItsDeal'
  <2>1. /\ Goto(r, "done")
        /\ req' = [req EXCEPT ![r] = Nobody] /\ seen' = [seen EXCEPT ![r] = NoRow]
        /\ lock' = [d \in Deals |-> IF lock[d] = r THEN Nobody ELSE lock[d]]
        /\ pend' = [d \in Deals |-> IF lock[d] = r THEN NoRow ELSE pend[d]]
    BY <1>11 DEF Commit, RollBack, Release, EndRequest
  <2> QED
    BY <2>1, EndedHolds DEF BoardInv, ShapeInv, SoloInv, SeenTrue
<1>12. CASE UNCHANGED vars
  BY <1>12 DEF vars, HoldsItsDeal, Archives, Subject
<1> QED
  BY <1>1, <1>3, <1>4, <1>5, <1>6, <1>7, <1>8, <1>9, <1>10, <1>11, <1>12 DEF Next, Idle

\* When requests do not overlap, a won or lost event tells of a deal that
\* really came from an open stage, and every such commit is told.
THEOREM EventsTrue == ~Overlap => (Spec => OutcomeAnnounced)
<1> SUFFICES ASSUME ~Overlap
             PROVE  Spec => OutcomeAnnounced
  OBVIOUS
<1> DEFINE Told(r) == LET opened == board[Subject(r)].stage \notin Terminal
                          ends   == board'[Subject(r)].stage
                      IN  /\ EnteredWon(r)  <=> opened /\ ends \in Won
                          /\ EnteredLost(r) <=> opened /\ ends \in Lost
<1>1. BoardInv /\ SoloInv /\ HoldsItsDeal =>
        \A r \in Requests : Commits(r) => Told(r)
  <2> SUFFICES ASSUME BoardInv, SoloInv, HoldsItsDeal, NEW r \in Requests, Commits(r)
               PROVE  Told(r)
    OBVIOUS
  <2>1. /\ pc[r] \in Steps /\ Subject(r) \in Deals /\ req[r].kind # "create"
        /\ lock[Subject(r)] = r /\ pend[Subject(r)].stage = req[r].to
    BY DEF Commits, HoldsItsDeal, Holding, Steps, BoardInv, Aimed
  <2>2. board'[Subject(r)].stage = req[r].to
    BY <2>1 DEF Commits, View
  <2>3. board[Subject(r)].stage = seen[r].stage
    BY <2>1 DEF SoloInv, SeenTrue
  <2> QED
    BY <2>2, <2>3 DEF EnteredWon, EnteredLost, Restages, Enters, Terminal
<1>2. Init => HoldsItsDeal
  BY DEF Init, HoldsItsDeal, Steps, Holding
<1>3. BoardInv /\ SoloInv /\ HoldsItsDeal /\ [Next]_vars =>
        SoloInv' /\ HoldsItsDeal' /\ [\A r \in Requests : Commits(r) => Told(r)]_vars
  BY StepSolo, StepHolds, <1>1
<1> QED
  BY Consistent, InitSolo, <1>2, <1>3, PTL DEF Spec, OutcomeAnnounced

-----------------------------------------------------------------------------
(* Places in a column.                                                     *)

\* Of some numbers one is the least.
LEMMA LeastNat ==
    ASSUME NEW T \in SUBSET Nat, T # {}
    PROVE  \E n \in T : \A m \in T : n <= m
<1>1. \E n \in T : \A m \in T : <<m, n>> \notin OpToRel(<, Nat)
  BY NatLessThanWellFounded, WFMin
<1>2. \A m, n \in Nat : <<m, n>> \notin OpToRel(<, Nat) => n <= m
  BY DEF OpToRel
<1> QED
  BY <1>1, <1>2

\* A part of the board in which every deal has its order.
Column(rows, column) ==
    column \in SUBSET Deals /\ \A e \in column : rows[e].order \in Int

\* Rank counts the deals before a deal; the board's order is strict and total.
LEMMA RankOrders ==
    ASSUME NEW rows, NEW column, Column(rows, column)
    PROVE  /\ IsFiniteSet(column) /\ Cardinality(column) \in Nat
           /\ \A e \in column : Rank(rows, column, e) \in Nat
           /\ \A d, e \in column : Before(rows, d, e) <=> Rank(rows, column, d) < Rank(rows, column, e)
           /\ \A d, e \in column : d # e <=> Rank(rows, column, d) # Rank(rows, column, e)
<1> DEFINE Ahead(e) == {x \in column : Before(rows, x, e)}
<1>1. IsFiniteSet(column) /\ Cardinality(column) \in Nat
  BY BoardAssumption, FS_Subset, FS_CardinalityType DEF Column
<1>2. \A e \in column : IsFiniteSet(Ahead(e)) /\ Cardinality(Ahead(e)) \in Nat
  BY <1>1, FS_Subset, FS_CardinalityType
<1>3. \A e \in column : e \in Nat /\ rows[e].order \in Int
  BY BoardAssumption DEF Column
<1>4. ASSUME NEW d \in column, NEW e \in column, Before(rows, d, e)
      PROVE  Cardinality(Ahead(d)) < Cardinality(Ahead(e))
  <2>1. \A x \in column : Before(rows, x, d) => Before(rows, x, e)
    BY <1>3, <1>4 DEF Before
  <2>2. ~Before(rows, d, d)
    BY <1>3 DEF Before
  <2>3. Ahead(d) \in SUBSET Ahead(e) /\ Ahead(d) # Ahead(e)
    BY <1>4, <2>1, <2>2
  <2>4. /\ Cardinality(Ahead(d)) <= Cardinality(Ahead(e))
        /\ Cardinality(Ahead(e)) = Cardinality(Ahead(d)) => Ahead(e) = Ahead(d)
    BY <1>2, <2>3, FS_Subset
  <2> QED
    BY <1>2, <2>3, <2>4
<1>5. \A d, e \in column : d # e => Before(rows, d, e) \/ Before(rows, e, d)
  BY <1>3 DEF Before
<1>6. \A e \in column : Rank(rows, column, e) = Cardinality(Ahead(e))
  BY DEF Rank
<1> HIDE DEF Ahead
<1>7. ASSUME NEW d \in column, NEW e \in column
      PROVE  /\ Before(rows, d, e) <=> Rank(rows, column, d) < Rank(rows, column, e)
             /\ d # e <=> Rank(rows, column, d) # Rank(rows, column, e)
  <2>1. /\ Before(rows, d, e) => Rank(rows, column, d) < Rank(rows, column, e)
        /\ Before(rows, e, d) => Rank(rows, column, e) < Rank(rows, column, d)
    BY <1>4, <1>6
  <2>2. Rank(rows, column, d) \in Nat /\ Rank(rows, column, e) \in Nat
    BY <1>2, <1>6
  <2> QED
    BY <1>5, <2>1, <2>2
<1> QED
  BY <1>1, <1>2, <1>6, <1>7

\* The ranks of a column leave no gap: i deals have a rank below i.
LEMMA RanksFill ==
    ASSUME NEW rows, NEW column, Column(rows, column), NEW i \in Nat, i <= Cardinality(column)
    PROVE  Cardinality({e \in column : Rank(rows, column, e) < i}) = i
<1> DEFINE rank(e) == Rank(rows, column, e)
           low == {e \in column : rank(e) < i}
           ahead(e) == {x \in column : Before(rows, x, e)}
<1>1. /\ IsFiniteSet(column) /\ Cardinality(column) \in Nat
      /\ \A e \in column : rank(e) \in Nat /\ rank(e) = Cardinality(ahead(e))
      /\ \A d, e \in column : d \in ahead(e) <=> rank(d) < rank(e)
      /\ \A d, e \in column : d # e <=> rank(d) # rank(e)
  BY RankOrders DEF Rank
<1>2. IsFiniteSet(low) /\ Cardinality(low) \in Nat
  BY <1>1, FS_Subset, FS_CardinalityType
<1>3. \A e \in column : IsFiniteSet(ahead(e))
  BY <1>1, FS_Subset
<1> HIDE DEF rank, ahead
<1>4. Cardinality(low) <= i
  <2>1. CASE low = {}
    BY <2>1, FS_EmptySet
  <2>2. CASE low # {}
    <3> DEFINE T == {i - rank(e) : e \in low}
    <3>1. T \in SUBSET Nat /\ T # {}
      BY <1>1, <2>2
    <3>2. PICK n \in T : \A m \in T : n <= m
      BY <3>1, LeastNat
    <3>3. PICK d \in low : \A e \in low : i - rank(d) <= i - rank(e)
      BY <3>2
    <3>4. \A e \in low \ {d} : e \in ahead(d)
      <4> SUFFICES ASSUME NEW e \in low \ {d}
                   PROVE  e \in ahead(d)
        OBVIOUS
      <4>1. rank(d) \in Nat /\ rank(e) \in Nat /\ i - rank(d) <= i - rank(e) /\ rank(d) # rank(e)
        BY <1>1, <3>3
      <4> QED
        BY <1>1, <4>1
    <3>5. low \ {d} \in SUBSET ahead(d) /\ d \in column
      BY <3>4
    <3>6. Cardinality(low \ {d}) <= rank(d)
      BY <1>1, <1>3, <3>5, FS_Subset
    <3>7. Cardinality(low \ {d}) = Cardinality(low) - 1
      BY <1>2, <3>3, FS_RemoveElement
    <3>8. rank(d) < i /\ rank(d) \in Nat
      BY <1>1, <3>3
    <3> HIDE DEF low
    <3> QED
      BY <1>2, <3>6, <3>7, <3>8
  <2> QED
    BY <2>1, <2>2
<1>5. i <= Cardinality(low)
  <2>1. CASE low = column
    BY <2>1
  <2>2. CASE low # column
    <3> DEFINE T == {rank(e) : e \in column \ low}
    <3>1. T \in SUBSET Nat /\ T # {}
      BY <1>1, <2>2
    <3>2. PICK n \in T : \A m \in T : n <= m
      BY <3>1, LeastNat
    <3>3. PICK d \in column \ low : \A e \in column \ low : rank(d) <= rank(e)
      BY <3>2
    <3>4. i <= rank(d) /\ rank(d) \in Nat
      BY <1>1, <3>3
    <3>5. \A e \in ahead(d) : e \in column
      BY DEF ahead
    <3>6. \A e \in ahead(d) : e \in low
      <4> SUFFICES ASSUME NEW e \in ahead(d), e \notin low
                   PROVE  FALSE
        OBVIOUS
      <4>1. e \in column /\ rank(e) < rank(d) /\ rank(d) <= rank(e) /\ rank(e) \in Nat
        BY <1>1, <3>3, <3>5
      <4> QED
        BY <3>4, <4>1
    <3>7. ahead(d) \in SUBSET low
      BY <3>6
    <3>8. rank(d) <= Cardinality(low)
      BY <1>1, <1>2, <3>3, <3>7, FS_Subset
    <3> HIDE DEF low
    <3> QED
      BY <1>2, <3>4, <3>8
  <2> QED
    BY <2>1, <2>2
<1> HIDE DEF low
<1>6. Cardinality(low) = i
  BY <1>2, <1>4, <1>5
<1> QED
  BY <1>6 DEF low, rank

\* The place computeDestinationOrder frees is the asked one, and the other
\* deals keep their order around it.
LEMMA DestinationFrees ==
    ASSUME NEW rows, NEW after, NEW others, NEW d \in Deals \ others, NEW i \in Nat,
           Column(rows, others), i <= Cardinality(others),
           after[d].order = i,
           \A e \in others : after[e].order = Destination(rows, others, i)[e]
    PROVE  /\ Rank(after, others \cup {d}, d) = i
           /\ \A x, y \in others : Before(rows, x, y) <=> Before(after, x, y)
<1>1. /\ IsFiniteSet(others) /\ \A e \in others : Rank(rows, others, e) \in Nat
      /\ \A x, y \in others : Before(rows, x, y) <=> Rank(rows, others, x) < Rank(rows, others, y)
      /\ \A x, y \in others : x # y <=> Rank(rows, others, x) # Rank(rows, others, y)
  BY RankOrders
<1>2. \A e \in others :
        after[e].order = IF Rank(rows, others, e) < i THEN Rank(rows, others, e)
                         ELSE Rank(rows, others, e) + 1
  BY DEF Destination
<1>3. \A e \in others : e \in Nat /\ d \in Nat
  BY BoardAssumption DEF Column
<1>4. \A e \in others : Before(after, e, d) <=> Rank(rows, others, e) < i
  BY <1>1, <1>2, <1>3 DEF Before
<1>5. ~Before(after, d, d)
  BY BoardAssumption DEF Before
<1>6. {e \in others \cup {d} : Before(after, e, d)} = {e \in others : Rank(rows, others, e) < i}
  BY <1>4, <1>5
<1>7. Rank(after, others \cup {d}, d) = i
  BY <1>6, RanksFill DEF Rank
<1>8. ASSUME NEW x \in others, NEW y \in others
      PROVE  Before(rows, x, y) <=> Before(after, x, y)
  <2>1. /\ Rank(rows, others, x) \in Nat /\ Rank(rows, others, y) \in Nat
        /\ Before(rows, x, y) <=> Rank(rows, others, x) < Rank(rows, others, y)
        /\ x # y <=> Rank(rows, others, x) # Rank(rows, others, y)
        /\ x \in Nat /\ y \in Nat
    BY <1>1, <1>3
  <2>2. Before(after, x, y) <=> Rank(rows, others, x) < Rank(rows, others, y)
    BY <1>2, <2>1 DEF Before
  <2> QED
    BY <2>1, <2>2
<1> QED
  BY <1>7, <1>8

\* Compacting a column keeps its order.
LEMMA CompactedKeeps ==
    ASSUME NEW rows, NEW after, NEW column, Column(rows, column),
           \A e \in column : after[e].order = Compacted(rows, column)[e]
    PROVE  \A x, y \in column : Before(rows, x, y) <=> Before(after, x, y)
<1> SUFFICES ASSUME NEW x \in column, NEW y \in column
             PROVE  Before(rows, x, y) <=> Before(after, x, y)
  OBVIOUS
<1>1. /\ Rank(rows, column, x) \in Nat /\ Rank(rows, column, y) \in Nat
      /\ Before(rows, x, y) <=> Rank(rows, column, x) < Rank(rows, column, y)
      /\ x # y <=> Rank(rows, column, x) # Rank(rows, column, y)
  BY RankOrders
<1>2. x \in Nat /\ y \in Nat
  BY BoardAssumption DEF Column
<1>3. after[x].order = Rank(rows, column, x) /\ after[y].order = Rank(rows, column, y)
  BY DEF Compacted
<1> QED
  BY <1>1, <1>2, <1>3 DEF Before

\* nextTopBoardOrder is below every order of the stage.
LEMMA TopIsAbove ==
    ASSUME NEW rows, NEW s, Column(rows, In(rows, s))
    PROVE  /\ TopOrder(rows, s) \in Int
           /\ \A e \in In(rows, s) : TopOrder(rows, s) < rows[e].order
<1> DEFINE column == In(rows, s)
<1>1. CASE column = {}
  BY <1>1 DEF TopOrder
<1>2. CASE column # {}
  <2> DEFINE T == {Rank(rows, column, e) : e \in column}
  <2>1. T \in SUBSET Nat /\ T # {}
    BY <1>2, RankOrders
  <2>2. PICK least \in T : \A m \in T : least <= m
    BY <2>1, LeastNat
  <2>3. PICK d \in column : \A e \in column : Rank(rows, column, d) <= Rank(rows, column, e)
    BY <2>2
  <2>4. \A e \in column : rows[d].order - 1 < rows[e].order
    <3> SUFFICES ASSUME NEW e \in column
                 PROVE  rows[d].order - 1 < rows[e].order
      OBVIOUS
    <3>1. /\ Before(rows, e, d) <=> Rank(rows, column, e) < Rank(rows, column, d)
          /\ Rank(rows, column, e) \in Nat /\ Rank(rows, column, d) \in Nat
      BY RankOrders
    <3>2. ~Before(rows, e, d)
      BY <2>3, <3>1
    <3>3. rows[d].order \in Int /\ rows[e].order \in Int
      BY DEF Column
    <3> QED
      BY <3>2, <3>3 DEF Before
  <2> DEFINE tops == {rows[e].order - 1 : e \in column}
  <2>5. \E n \in tops : \A e \in column : n < rows[e].order
    BY <2>4
  <2>6. tops \subseteq Int
    BY DEF Column
  <2>7. TopOrder(rows, s) = CHOOSE n \in tops : \A e \in column : n < rows[e].order
    BY <1>2 DEF TopOrder
  <2> HIDE DEF tops
  <2> QED
    BY <2>5, <2>6, <2>7
<1> QED
  BY <1>1, <1>2

-----------------------------------------------------------------------------
(* Where a card lands, when requests do not overlap.                       *)

\* What a request about the deal d and the stage s finds: the other deals of
\* the column it asked for, the place it will take there, the places these
\* deals will have, and the same for the column the deal leaves.
Others(r) == In(board, req[r].to) \ {Subject(r)}
Index(r)  == TargetIndex(req[r].position, Cardinality(Others(r)))
Places(r) == Destination(board, Others(r), Index(r))
Left(r)   == In(board, seen[r].stage) \ {Subject(r)}
Closing(r) == Compacted(board, Left(r))

\* Every order is a number, and so is what a request asks for.
Ordered ==
    /\ slot = [r \in Requests |-> slot[r]]
    /\ targets = [r \in Requests |-> targets[r]]
    /\ \A d \in Deals : board[d].order \in Int /\ pend[d].order \in Int
    /\ \A r \in Requests : slot[r] \in Int
    /\ \A r \in Requests : \A e \in DOMAIN targets[r] : targets[r][e] \in Int
    /\ \A r \in Requests : pc[r] \in Steps => req[r].position \in Nat

\* Deal e has its new place among the rows of r; or r has still to write it.
Settled(r, e, place) ==
    lock[e] = r /\ pend[e].order = place /\ e \notin DOMAIN targets[r]
Due(r, e, place) == e \in DOMAIN targets[r] /\ targets[r][e] = place

Moves(r) == req[r].kind = "move"

\* A move past its first write has placed its deal, and each deal of the
\* column it renumbers is placed or still due; it holds no other row.
Arranged(r) ==
    /\ pend[Subject(r)].order = Index(r)
    /\ \A e \in Others(r) : \/ Settled(r, e, Places(r)[e])
                            \/ pc[r] = "renumber" /\ Due(r, e, Places(r)[e])
    /\ pc[r] = "renumber" => DOMAIN targets[r] \subseteq Others(r)
    /\ pc[r] \in {"source", "compact"} => Restages(r)
    /\ pc[r] = "compact" => DOMAIN targets[r] \subseteq Left(r)
    /\ Restages(r) /\ pc[r] \in {"compact", "commit"} =>
         \A e \in Left(r) : \/ Settled(r, e, Closing(r)[e])
                            \/ pc[r] = "compact" /\ Due(r, e, Closing(r)[e])
    /\ \A e \in Deals : lock[e] = r =>
         \/ e = Subject(r) \/ e \in Others(r)
         \/ Restages(r) /\ pc[r] \in {"compact", "commit"} /\ e \in Left(r)

\* Any other request holds its own deal alone, above the column it enters.
OnTop(r) ==
    /\ pc[r] = "commit"
    /\ ~Archives(r) => pend[Subject(r)].order = TopOrder(board, req[r].to)
    /\ \A e \in Deals : lock[e] = r => e = Subject(r)

Lands(r) ==
    /\ pc[r] = "write" /\ Moves(r) => slot[r] = Index(r) /\ targets[r] = Places(r)
    /\ pc[r] = "write" /\ ~Moves(r) /\ ~Archives(r) => slot[r] = TopOrder(board, req[r].to)
    /\ pc[r] \in Holding => IF Moves(r) THEN Arranged(r) ELSE OnTop(r)

LandInv == Ordered /\ \A r \in Requests : Lands(r)

-----------------------------------------------------------------------------
(* Facts about columns.                                                    *)

\* Any part of the committed board is a column.
LEMMA BoardColumn ==
    ASSUME Ordered, NEW column \in SUBSET Deals
    PROVE  Column(board, column)
BY DEF Ordered, Column

\* Places are numbers.
LEMMA PlacesInt ==
    ASSUME Ordered, NEW r \in Requests, req[r].position \in Nat
    PROVE  /\ Index(r) \in Nat /\ Index(r) <= Cardinality(Others(r))
           /\ DOMAIN Places(r) = Others(r) /\ DOMAIN Closing(r) = Left(r)
           /\ \A e \in Others(r) : Places(r)[e] \in Int
           /\ \A e \in Left(r) : Closing(r)[e] \in Int
           /\ Others(r) \in SUBSET Deals /\ Left(r) \in SUBSET Deals
<1>1. Others(r) \in SUBSET Deals /\ Left(r) \in SUBSET Deals
  BY DEF Others, Left, In
<1>2. Column(board, Others(r)) /\ Column(board, Left(r))
  BY <1>1, BoardColumn
<1>3. /\ Cardinality(Others(r)) \in Nat
      /\ \A e \in Others(r) : Rank(board, Others(r), e) \in Nat
      /\ \A e \in Left(r) : Rank(board, Left(r), e) \in Nat
  BY <1>2, RankOrders
<1>4. Index(r) \in Nat /\ Index(r) <= Cardinality(Others(r))
  BY <1>3 DEF Index, TargetIndex
<1>5. /\ DOMAIN Places(r) = Others(r)
      /\ \A e \in Others(r) : \/ Places(r)[e] = Rank(board, Others(r), e)
                              \/ Places(r)[e] = Rank(board, Others(r), e) + 1
  BY DEF Places, Destination
<1>6. /\ DOMAIN Closing(r) = Left(r)
      /\ \A e \in Left(r) : Closing(r)[e] = Rank(board, Left(r), e)
  BY DEF Closing, Compacted
<1>7. /\ \A e \in Others(r) : Places(r)[e] \in Int
      /\ \A e \in Left(r) : Closing(r)[e] \in Int
  BY <1>3, <1>5, <1>6
<1> QED
  BY <1>1, <1>4, <1>5, <1>6, <1>7

\* A request that holds no row sees the committed board.
LEMMA ViewIsBoard ==
    ASSUME BoardInv, NEW r \in Requests, pc[r] \notin Holding
    PROVE  View(r) = board /\ \A d \in Deals : lock[d] # r
<1>1. \A d \in Deals : lock[d] # r
  BY BoardAssumption DEF BoardInv, OwnVersion
<1>2. View(r) = [d \in Deals |-> board[d]]
  BY <1>1 DEF View
<1> QED
  BY <1>1, <1>2 DEF BoardInv, ShapeInv

\* A rank depends on the rows of its column only.
LEMMA SameCompacted ==
    ASSUME NEW rows, NEW other, NEW column, \A e \in column : rows[e] = other[e]
    PROVE  Compacted(rows, column) = Compacted(other, column)
<1>1. ASSUME NEW e \in column
      PROVE  Rank(rows, column, e) = Rank(other, column, e)
  <2>1. {x \in column : Before(rows, x, e)} = {x \in column : Before(other, x, e)}
    BY DEF Before
  <2> QED
    BY <2>1 DEF Rank
<1> QED
  BY <1>1 DEF Compacted

\* What a request that is no archive writes into the deal it is about has the
\* order it chose.
LEMMA WrittenOrder ==
    ASSUME NEW r, NEW x, Shaped(x)
    PROVE  /\ ~Archives(r) => Written(r, x).order = slot[r]
           /\ Archives(r) => Written(r, x).order = x.order
<1>1. CASE Archives(r)
  <2>1. \/ Written(r, x) = [x EXCEPT !.archived = TRUE]
        \/ Written(r, x) = [x EXCEPT !.archived = FALSE]
    BY <1>1 DEF Written, Archives
  <2> QED
    BY <1>1, <2>1 DEF Shaped, Fields
<1>2. CASE ~Archives(r)
  <2>1. Written(r, x) = Restaged(r, x)
    BY <1>2 DEF Written, Archives
  <2>2. CASE ~Restages(r)
    BY <1>2, <2>1, <2>2 DEF Restaged, Shaped, Fields
  <2>3. CASE Restages(r)
    <3>1. PICK c : Restaged(r, x) = [x EXCEPT !.stage = req[r].to, !.order = slot[r], !.closed = c]
      BY <2>3 DEF Restaged, Shaped
    <3> QED
      BY <1>2, <2>1, <3>1 DEF Shaped, Fields
  <2> QED
    BY <2>2, <2>3
<1> QED
  BY <1>1, <1>2

-----------------------------------------------------------------------------
(* Every step keeps the invariant.                                         *)

\* What a request finds stays while the committed rows and what it asked for
\* do.
LEMMA SameFinds ==
    ASSUME UNCHANGED <<board, req, seen>>, NEW r
    PROVE  /\ Subject(r)' = Subject(r) /\ Moves(r)' = Moves(r) /\ Archives(r)' = Archives(r)
           /\ Restages(r)' = Restages(r)
           /\ Others(r)' = Others(r) /\ Index(r)' = Index(r) /\ Places(r)' = Places(r)
           /\ Left(r)' = Left(r) /\ Closing(r)' = Closing(r)
BY DEF Subject, Moves, Archives, Restages, Others, Index, Places, Left, Closing

\* A first statement starts a request that has chosen no place yet.
LEMMA AskedLands ==
    ASSUME ~Overlap, BoardInv, SoloInv, LandInv, NEW r \in Requests, MayBegin(r),
           NEW step, NEW ask, Goto(r, step), req' = [req EXCEPT ![r] = ask],
           \/ step = "column"
           \/ step = "write" /\ ask.kind \in {"archive", "unarchive"},
           ask.position \in Nat,
           UNCHANGED <<board, pend, lock, slot, targets>>
    PROVE  LandInv'
<1>1. \A q \in Requests : pc[q] \notin Steps
  BY DEF MayBegin, Active
<1>2. /\ pc'[r] = step /\ req'[r] = ask
      /\ \A q \in Requests : q # r => pc'[q] = pc[q]
  BY DEF BoardInv, ShapeInv, Goto
<1>3. Ordered'
  BY <1>1, <1>2 DEF LandInv, Ordered
<1>4. \A q \in Requests : q # r => Lands(q)'
  BY <1>1, <1>2 DEF Lands, Holding, Steps
<1>5. Lands(r)'
  BY <1>2 DEF Lands, Holding, Moves, Archives
<1> QED
  BY <1>3, <1>4, <1>5 DEF LandInv

\* The end of the only request that runs.
LEMMA EndedLands ==
    ASSUME BoardInv, LandInv, NEW r \in Requests, Goto(r, "done"),
           \A q \in Requests : pc[q] \in Steps => q = r,
           \/ UNCHANGED <<slot, targets>>
           \/ /\ slot' = [slot EXCEPT ![r] = 0]
              /\ targets' = [targets EXCEPT ![r] = <<>>],
           \A d \in Deals : board'[d].order \in Int /\ pend'[d].order \in Int
    PROVE  LandInv'
<1>1. \A q \in Requests : pc'[q] \notin Steps
  BY DEF BoardInv, ShapeInv, Goto, Steps
<1>2. /\ slot' = [q \in Requests |-> slot'[q]] /\ targets' = [q \in Requests |-> targets'[q]]
      /\ \A q \in Requests : slot'[q] \in Int
  BY DEF LandInv, Ordered
<1>3. \A q \in Requests : targets'[q] = targets[q] \/ targets'[q] = <<>>
  BY DEF LandInv, Ordered
<1>4. \A q \in Requests : \A e \in DOMAIN targets'[q] : targets'[q][e] \in Int
  BY <1>3 DEF LandInv, Ordered
<1>5. Ordered'
  BY <1>1, <1>2, <1>4 DEF Ordered
<1>6. \A q \in Requests : Lands(q)'
  BY <1>1 DEF Lands, Holding, Steps
<1> QED
  BY <1>5, <1>6 DEF LandInv

\* A later statement touches the request it belongs to; no other one runs.
LEMMA LaterLands ==
    ASSUME SoloInv, NEW r \in Requests, pc[r] \in Steps,
           \A q \in Requests : q # r => pc'[q] = pc[q],
           Lands(r)', Ordered'
    PROVE  LandInv'
<1>1. \A q \in Requests : q # r => pc'[q] \notin Steps
  BY DEF SoloInv, OneAtATime
<1>2. \A q \in Requests : q # r => Lands(q)'
  BY <1>1 DEF Lands, Holding, Steps
<1> QED
  BY <1>2 DEF LandInv

\* Reading the destination column chooses the place.
LEMMA ReadColumnLands ==
    ASSUME BoardInv, SoloInv, LandInv, NEW r \in Requests, ReadColumn(r)
    PROVE  LandInv'
<1>1. /\ pc[r] = "column" /\ pc[r] \in Steps /\ pc[r] \notin Holding
      /\ pc' = [pc EXCEPT ![r] = "write"]
      /\ UNCHANGED <<board, pend, lock, req, seen>>
  BY DEF ReadColumn, Goto, Steps, Holding
<1>2. View(r) = board
  BY <1>1, ViewIsBoard
<1>3. /\ req[r].position \in Nat
      /\ Others(r) \in SUBSET Deals
  BY <1>1 DEF LandInv, Ordered, Others, In
<1>4. CASE Moves(r)
  <2>1. /\ slot' = [slot EXCEPT ![r] = Index(r)]
        /\ targets' = [targets EXCEPT ![r] = Places(r)]
    BY <1>2, <1>4 DEF ReadColumn, Moves, Others, Index, Places
  <2>2. slot'[r] = Index(r) /\ targets'[r] = Places(r)
    BY <2>1 DEF LandInv, Ordered
  <2>3. /\ Index(r) \in Int
        /\ \A e \in DOMAIN Places(r) : Places(r)[e] \in Int
    BY <1>3, PlacesInt DEF LandInv
  <2>4. Ordered'
    <3>1. \A q \in Requests : slot'[q] \in Int /\ \A e \in DOMAIN targets'[q] : targets'[q][e] \in Int
      BY <2>1, <2>3 DEF LandInv, Ordered
    <3>2. \A q \in Requests : pc'[q] \in Steps => pc[q] \in Steps
      BY <1>1 DEF BoardInv, ShapeInv
    <3> QED
      BY <1>1, <2>1, <3>1, <3>2 DEF LandInv, Ordered
  <2>5. Lands(r)'
    <3>1. pc'[r] = "write"
      BY <1>1 DEF BoardInv, ShapeInv
    <3>2. Index(r)' = Index(r) /\ Places(r)' = Places(r) /\ Moves(r)'
      BY <1>1, <1>4, SameFinds
    <3> QED
      BY <2>2, <3>1, <3>2 DEF Lands, Holding
  <2> QED
    BY <1>1, <2>4, <2>5, LaterLands DEF BoardInv, ShapeInv
<1>5. CASE ~Moves(r)
  <2>1. slot' = [slot EXCEPT ![r] = TopOrder(board, req[r].to)] /\ targets' = targets
    BY <1>2, <1>5 DEF ReadColumn, Moves
  <2>2. TopOrder(board, req[r].to) \in Int
    <3>1. In(board, req[r].to) \in SUBSET Deals
      BY DEF In
    <3> QED
      BY <3>1, BoardColumn, TopIsAbove DEF LandInv
  <2>3. Ordered'
    <3>1. \A q \in Requests : slot'[q] \in Int
      BY <2>1, <2>2 DEF LandInv, Ordered
    <3>2. \A q \in Requests : pc'[q] \in Steps => pc[q] \in Steps
      BY <1>1 DEF BoardInv, ShapeInv
    <3> QED
      BY <1>1, <2>1, <3>1, <3>2 DEF LandInv, Ordered
  <2>4. Lands(r)'
    <3>1. pc'[r] = "write"
      BY <1>1 DEF BoardInv, ShapeInv
    <3>2. slot'[r] = TopOrder(board', req'[r].to)
      BY <1>1, <2>1 DEF LandInv, Ordered
    <3>3. ~Moves(r)'
      BY <1>1, <1>5 DEF Moves
    <3> QED
      BY <3>1, <3>2, <3>3 DEF Lands, Holding
  <2> QED
    BY <1>1, <2>3, <2>4, LaterLands DEF BoardInv, ShapeInv
<1> QED
  BY <1>4, <1>5

\* The first write of a request puts its deal at the place it chose.
LEMMA WriteDealLands ==
    ASSUME BoardInv, SoloInv, LandInv, NEW r \in Requests, WriteDeal(r)
    PROVE  LandInv'
<1> DEFINE d == Subject(r)
           row == Written(r, View(r)[d])
<1>1. /\ pc[r] = "write" /\ pc[r] \in Steps /\ pc[r] \notin Holding
      /\ lock' = [lock EXCEPT ![d] = r]
      /\ pend' = [pend EXCEPT ![d] = row]
      /\ pc' = [pc EXCEPT ![r] = IF Moves(r) THEN "renumber" ELSE "commit"]
      /\ UNCHANGED <<board, req, seen, slot, targets>>
  BY DEF WriteDeal, Write, Goto, Steps, Holding, Moves
<1>2. /\ View(r) = board /\ d \in Deals
      /\ \A e \in Deals : lock[e] # r
  BY <1>1, ViewIsBoard DEF BoardInv, Aimed
<1>3. Shaped(View(r)[d])
  BY <1>2 DEF BoardInv, ShapeInv
<1>4. /\ ~Archives(r) => row.order = slot[r]
      /\ Archives(r) => row.order = board[d].order
  BY <1>2, <1>3, WrittenOrder
<1> HIDE DEF row
<1>5. /\ pend'[d] = row /\ \A e \in Deals : lock'[e] = r => e = d
      /\ pc'[r] = (IF Moves(r) THEN "renumber" ELSE "commit")
      /\ \A q \in Requests : q # r => pc'[q] = pc[q]
      /\ \A e \in Deals : e # d => pend'[e] = pend[e]
  BY <1>1, <1>2 DEF BoardInv, ShapeInv
<1>6. Ordered'
  <2>1. \A e \in Deals : pend'[e].order \in Int
    BY <1>2, <1>4, <1>5 DEF LandInv, Ordered
  <2>2. \A q \in Requests : pc'[q] \in Steps => pc[q] \in Steps
    BY <1>1, <1>5
  <2> QED
    BY <1>1, <2>1, <2>2 DEF LandInv, Ordered
<1>7. Lands(r)'
  <2>1. /\ Subject(r)' = d /\ Moves(r)' = Moves(r) /\ Archives(r)' = Archives(r)
        /\ Others(r)' = Others(r) /\ Index(r)' = Index(r) /\ Places(r)' = Places(r)
    BY <1>1, SameFinds
  <2>2. CASE Moves(r)
    <3>1. slot[r] = Index(r) /\ targets[r] = Places(r) /\ ~Archives(r)
      BY <1>1, <2>2 DEF LandInv, Lands, Moves, Archives
    <3>2. DOMAIN Places(r) = Others(r)
      BY DEF Places, Destination
    <3>3. Arranged(r)'
      BY <1>1, <1>4, <1>5, <2>1, <2>2, <3>1, <3>2 DEF Arranged, Due
    <3> QED
      BY <1>5, <2>1, <2>2, <3>3 DEF Lands
  <2>3. CASE ~Moves(r)
    <3>1. ~Archives(r) => slot[r] = TopOrder(board, req[r].to)
      BY <1>1, <2>3 DEF LandInv, Lands
    <3>2. OnTop(r)'
      BY <1>1, <1>4, <1>5, <2>1, <2>3, <3>1 DEF OnTop
    <3> QED
      BY <1>5, <2>1, <2>3, <3>2 DEF Lands
  <2> QED
    BY <2>2, <2>3
<1> QED
  BY <1>1, <1>5, <1>6, <1>7, LaterLands

\* A move past its first write holds its rows in their new places or has
\* still to write them.
LEMMA MoveArranged ==
    ASSUME LandInv, NEW r \in Requests, pc[r] \in {"renumber", "source", "compact"}
    PROVE  Moves(r) /\ Arranged(r) /\ pc[r] \in Steps
BY DEF LandInv, Lands, OnTop, Holding, Steps

\* A deal is in one column, and not among the others of its own move.
LEMMA Apart ==
    ASSUME NEW r
    PROVE  /\ Subject(r) \notin Others(r) /\ Subject(r) \notin Left(r)
           /\ Restages(r) => Others(r) \cap Left(r) = {}
BY DEF Others, Left, In, Restages

\* Renumbering a row settles it.
LEMMA RenumberLands ==
    ASSUME BoardInv, SoloInv, LandInv, NEW r \in Requests, NEW d \in Deals, Renumber(r, d)
    PROVE  LandInv'
<1> DEFINE row == Renumbered(r, d, View(r)[d])
<1>1. /\ pc[r] \in {"renumber", "compact"} /\ d \in DOMAIN targets[r]
      /\ lock' = [lock EXCEPT ![d] = r]
      /\ pend' = [pend EXCEPT ![d] = row]
      /\ targets' = [targets EXCEPT ![r] = [e \in DOMAIN targets[r] \ {d} |-> targets[r][e]]]
      /\ UNCHANGED <<board, pc, req, seen, slot>>
  BY DEF Renumber, Write, LandInv, Ordered
<1>2. Moves(r) /\ Arranged(r) /\ pc[r] \in Steps /\ pc[r] \in Holding
  BY <1>1, MoveArranged DEF Holding
<1>3. Shaped(View(r)[d])
  BY DEF View, BoardInv, ShapeInv
<1>4. row.order = targets[r][d]
  BY <1>3 DEF Renumbered, Shaped, Fields
<1> HIDE DEF row
<1>5. /\ lock'[d] = r /\ pend'[d].order = targets[r][d]
      /\ \A e \in Deals : e # d => lock'[e] = lock[e] /\ pend'[e] = pend[e]
  BY <1>1, <1>4 DEF BoardInv, ShapeInv
<1>6. /\ targets'[r] = [e \in DOMAIN targets[r] \ {d} |-> targets[r][e]]
      /\ \A q \in Requests : q # r => targets'[q] = targets[q]
  BY <1>1 DEF LandInv, Ordered
<1>7. Ordered'
  <2>1. \A e \in Deals : pend'[e].order \in Int
    BY <1>1, <1>5 DEF LandInv, Ordered
  <2>2. \A q \in Requests : \A e \in DOMAIN targets'[q] : targets'[q][e] \in Int
    BY <1>6 DEF LandInv, Ordered
  <2> QED
    BY <1>1, <2>1, <2>2 DEF LandInv, Ordered
<1>8. /\ Subject(r)' = Subject(r) /\ Moves(r)' = Moves(r) /\ Restages(r)' = Restages(r)
      /\ Others(r)' = Others(r) /\ Index(r)' = Index(r) /\ Places(r)' = Places(r)
      /\ Left(r)' = Left(r) /\ Closing(r)' = Closing(r)
  BY <1>1, SameFinds
<1>9. /\ Subject(r) \in Deals /\ Others(r) \in SUBSET Deals /\ Left(r) \in SUBSET Deals
  BY <1>2 DEF BoardInv, Aimed, Others, Left, In
<1>10. Arranged(r)'
  <2> DEFINE SettledNow(e, place) ==
               lock'[e] = r /\ pend'[e].order = place /\ e \notin DOMAIN targets'[r]
             DueNow(e, place) == e \in DOMAIN targets'[r] /\ targets'[r][e] = place
  <2>1. \A e \in Deals : \A place :
          Settled(r, e, place) \/ Due(r, e, place) => SettledNow(e, place) \/ DueNow(e, place)
    BY <1>1, <1>5, <1>6 DEF Settled, Due
  <2>2. DOMAIN targets'[r] \subseteq DOMAIN targets[r]
    BY <1>6
  <2>3. CASE pc[r] = "renumber"
    <3>1. d \in Others(r) /\ d # Subject(r)
      BY <1>1, <1>2, <2>3, Apart DEF Arranged
    <3>2. pend'[Subject(r)].order = Index(r)
      BY <1>2, <1>5, <1>9, <3>1 DEF Arranged
    <3>3. ASSUME NEW e \in Others(r)
          PROVE  SettledNow(e, Places(r)[e]) \/ DueNow(e, Places(r)[e])
      <4>1. e \in Deals /\ (Settled(r, e, Places(r)[e]) \/ Due(r, e, Places(r)[e]))
        BY <1>2, <1>9 DEF Arranged
      <4> QED
        BY <2>1, <4>1
    <3>4. \A e \in Deals : lock'[e] = r => e = Subject(r) \/ e \in Others(r)
      BY <1>2, <1>5, <2>3, <3>1 DEF Arranged
    <3> QED
      BY <1>1, <1>2, <1>8, <2>2, <2>3, <3>2, <3>3, <3>4 DEF Arranged, Settled, Due
  <2>4. CASE pc[r] = "compact"
    <3>1. d \in Left(r) /\ Restages(r) /\ d # Subject(r) /\ d \notin Others(r)
      BY <1>1, <1>2, <2>4, Apart DEF Arranged
    <3>2. pend'[Subject(r)].order = Index(r)
      BY <1>2, <1>5, <1>9, <3>1 DEF Arranged
    <3>3. \A e \in Others(r) : SettledNow(e, Places(r)[e])
      BY <1>2, <1>5, <1>9, <2>2, <2>4, <3>1 DEF Arranged, Settled
    <3>4. ASSUME NEW e \in Left(r)
          PROVE  SettledNow(e, Closing(r)[e]) \/ DueNow(e, Closing(r)[e])
      <4>1. e \in Deals /\ (Settled(r, e, Closing(r)[e]) \/ Due(r, e, Closing(r)[e]))
        BY <1>2, <1>9, <2>4, <3>1 DEF Arranged
      <4> QED
        BY <2>1, <4>1
    <3>5. \A e \in Deals : lock'[e] = r => e = Subject(r) \/ e \in Others(r) \/ e \in Left(r)
      BY <1>2, <1>5, <2>4, <3>1 DEF Arranged
    <3>6. pc'[r] = "compact" /\ DOMAIN targets'[r] \subseteq Left(r)
      BY <1>1, <1>2, <2>2, <2>4 DEF Arranged
    <3>7. /\ \A e \in Others(r) : Settled(r, e, Places(r)[e])'
          /\ \A e \in Left(r) : Settled(r, e, Closing(r)[e])' \/ Due(r, e, Closing(r)[e])'
      BY <1>8, <3>3, <3>4 DEF Settled, Due
    <3> QED
      BY <1>8, <3>1, <3>2, <3>5, <3>6, <3>7 DEF Arranged
  <2> QED
    BY <1>1, <2>3, <2>4
<1>11. Lands(r)'
  BY <1>1, <1>2, <1>8, <1>10 DEF Lands, Holding
<1> QED
  BY <1>1, <1>2, <1>7, <1>11, LaterLands

\* With nothing left to write, the deals of the column are all in place.
LEMMA EndRenumberLands ==
    ASSUME BoardInv, SoloInv, LandInv, NEW r \in Requests, EndRenumber(r)
    PROVE  LandInv'
<1>1. /\ pc[r] \in {"renumber", "compact"} /\ DOMAIN targets[r] = {}
      /\ pc' = [pc EXCEPT ![r] = IF pc[r] = "renumber" /\ Restages(r) THEN "source" ELSE "commit"]
      /\ UNCHANGED <<board, pend, lock, req, seen, slot, targets>>
  BY DEF EndRenumber, Goto
<1>2. Moves(r) /\ Arranged(r) /\ pc[r] \in Steps
  BY <1>1, MoveArranged
<1>3. /\ pc'[r] = IF pc[r] = "renumber" /\ Restages(r) THEN "source" ELSE "commit"
      /\ \A q \in Requests : q # r => pc'[q] = pc[q]
  BY <1>1 DEF BoardInv, ShapeInv
<1>4. Ordered'
  BY <1>1, <1>2, <1>3 DEF LandInv, Ordered
<1>5. /\ Subject(r)' = Subject(r) /\ Moves(r)' = Moves(r) /\ Restages(r)' = Restages(r)
      /\ Others(r)' = Others(r) /\ Index(r)' = Index(r) /\ Places(r)' = Places(r)
      /\ Left(r)' = Left(r) /\ Closing(r)' = Closing(r)
  BY <1>1, SameFinds
<1>6. /\ pend[Subject(r)].order = Index(r)
      /\ \A e \in Others(r) : lock[e] = r /\ pend[e].order = Places(r)[e]
      /\ Restages(r) /\ pc[r] = "compact" =>
           \A e \in Left(r) : lock[e] = r /\ pend[e].order = Closing(r)[e]
      /\ pc[r] = "compact" => Restages(r)
  BY <1>1, <1>2 DEF Arranged, Settled, Due
<1>7. Arranged(r)'
  BY <1>1, <1>2, <1>3, <1>5, <1>6 DEF Arranged, Settled
<1>8. Lands(r)'
  BY <1>2, <1>3, <1>5, <1>7 DEF Lands
<1> QED
  BY <1>2, <1>3, <1>4, <1>8, LaterLands

\* The column a deal leaves is, but for the deal, as it was when the request
\* started.
LEMMA ReadSourceLands ==
    ASSUME BoardInv, SoloInv, HoldsItsDeal, LandInv, NEW r \in Requests, ReadSource(r)
    PROVE  LandInv'
<1>1. /\ pc[r] = "source" /\ pc[r] \in Steps /\ pc[r] \in Holding
      /\ pc' = [pc EXCEPT ![r] = "compact"]
      /\ targets' = [targets EXCEPT ![r] = Compacted(View(r), In(View(r), seen[r].stage))]
      /\ UNCHANGED <<board, pend, lock, req, seen, slot>>
  BY DEF ReadSource, Goto, Steps, Holding
<1>2. Moves(r) /\ Arranged(r)
  BY <1>1, MoveArranged
<1>3. Restages(r)
  BY <1>1, <1>2 DEF Arranged
<1>4. /\ Subject(r) \in Deals /\ lock[Subject(r)] = r /\ pend[Subject(r)].stage = req[r].to
  BY <1>1 DEF HoldsItsDeal, BoardInv, Aimed
<1>5. \A e \in Deals : e # Subject(r) => View(r)[e].stage = board[e].stage
  BY BoardAssumption DEF BoardInv, OwnVersion, SameButOrder, Fields, View
<1>6. View(r)[Subject(r)].stage # seen[r].stage
  BY <1>3, <1>4 DEF View, Restages
<1>7. In(View(r), seen[r].stage) = Left(r)
  BY <1>4, <1>5, <1>6 DEF In, Left
<1>8. \A e \in Left(r) : e \in Deals /\ View(r)[e] = board[e]
  <2>1. \A e \in Left(r) : e \in Deals /\ e # Subject(r) /\ e \notin Others(r)
    BY <1>3, Apart DEF Left, In
  <2>2. \A e \in Left(r) : lock[e] # r
    BY <1>1, <1>2, <2>1 DEF Arranged
  <2> QED
    BY <2>1, <2>2 DEF View
<1>9. Compacted(View(r), In(View(r), seen[r].stage)) = Closing(r)
  BY <1>7, <1>8, SameCompacted DEF Closing
<1>10. /\ targets' = [targets EXCEPT ![r] = Closing(r)]
       /\ targets'[r] = Closing(r)
  BY <1>1, <1>9 DEF LandInv, Ordered
<1>11. /\ DOMAIN Closing(r) = Left(r) /\ \A e \in Left(r) : Closing(r)[e] \in Int
  BY <1>1, PlacesInt DEF LandInv, Ordered
<1>12. /\ pc'[r] = "compact" /\ \A q \in Requests : q # r => pc'[q] = pc[q]
  BY <1>1 DEF BoardInv, ShapeInv
<1>13. Ordered'
  <2>1. \A q \in Requests : \A e \in DOMAIN targets'[q] : targets'[q][e] \in Int
    BY <1>10, <1>11 DEF LandInv, Ordered
  <2>2. \A q \in Requests : pc'[q] \in Steps => pc[q] \in Steps
    BY <1>1, <1>12
  <2> QED
    BY <1>1, <1>10, <2>1, <2>2 DEF LandInv, Ordered
<1>14. /\ Subject(r)' = Subject(r) /\ Moves(r)' = Moves(r) /\ Restages(r)' = Restages(r)
       /\ Others(r)' = Others(r) /\ Index(r)' = Index(r) /\ Places(r)' = Places(r)
       /\ Left(r)' = Left(r) /\ Closing(r)' = Closing(r)
  BY <1>1, SameFinds
<1>15. Arranged(r)'
  <2>1. \A e \in Others(r) : /\ lock[e] = r /\ pend[e].order = Places(r)[e]
                             /\ e \notin DOMAIN targets'[r]
    BY <1>1, <1>2, <1>3, <1>10, <1>11, Apart DEF Arranged, Settled
  <2>2. \A e \in Left(r) : Due(r, e, Closing(r)[e])'
    BY <1>10, <1>11, <1>14 DEF Due
  <2> QED
    BY <1>1, <1>2, <1>3, <1>10, <1>11, <1>12, <1>14, <2>1, <2>2 DEF Arranged, Settled
<1>16. Lands(r)'
  BY <1>2, <1>12, <1>14, <1>15 DEF Lands
<1> QED
  BY <1>1, <1>12, <1>13, <1>16, LaterLands

\* Every step keeps the invariant when requests do not overlap.
LEMMA StepLands ==
    ~Overlap /\ BoardInv /\ SoloInv /\ HoldsItsDeal /\ LandInv /\ [Next]_vars => LandInv'
<1> SUFFICES ASSUME ~Overlap, BoardInv, SoloInv, HoldsItsDeal, LandInv, [Next]_vars
             PROVE  LandInv'
  OBVIOUS
<1>1. ASSUME NEW r \in Requests, NEW s \in Stages, AskCreate(r, s)
      PROVE  LandInv'
  <2>1. PICK ask : /\ ask.kind = "create" /\ ask.position = 0
                   /\ req' = [req EXCEPT ![r] = ask]
    BY <1>1 DEF AskCreate
  <2>2. ask.position \in Nat
    BY <2>1
  <2> QED
    BY <1>1, <2>1, <2>2, AskedLands DEF AskCreate
<1>2. ASSUME NEW r \in Requests, NEW ask, NEW step, ReadDeal(r, ask, step),
             ask.position \in Nat,
             \/ step = "column"
             \/ step = "write" /\ ask.kind \in {"archive", "unarchive"}
      PROVE  LandInv'
  BY <1>2, AskedLands DEF ReadDeal
<1>3. ASSUME NEW r \in Requests, NEW d \in Deals, NEW s \in Stages, AskPatch(r, d, s)
      PROVE  LandInv'
  BY <1>2, <1>3 DEF AskPatch
<1>4. ASSUME NEW r \in Requests, NEW d \in Deals, NEW s \in Stages,
             NEW position \in 0..Cardinality(Deals), AskMove(r, d, s, position)
      PROVE  LandInv'
  <2>1. position \in Nat
    BY BoardAssumption, FS_CardinalityType
  <2> QED
    BY <1>2, <1>4, <2>1 DEF AskMove
<1>5. ASSUME NEW r \in Requests, NEW d \in Deals, AskArchive(r, d)
      PROVE  LandInv'
  BY <1>2, <1>5 DEF AskArchive
<1>6. ASSUME NEW r \in Requests, NEW d \in Deals, InsertDeal(r, d)
      PROVE  LandInv'
  <2> DEFINE row == [stage |-> req[r].to, order |-> slot[r], closed |-> FALSE,
                     archived |-> FALSE]
  <2>1. /\ pc[r] = "write" /\ Goto(r, "done")
        /\ board' = [board EXCEPT ![d] = row]
        /\ slot' = [slot EXCEPT ![r] = 0] /\ targets' = [targets EXCEPT ![r] = <<>>]
        /\ UNCHANGED <<pend, lock>>
    BY <1>6 DEF InsertDeal, EndRequest
  <2>2. row.order \in Int
    BY DEF LandInv, Ordered
  <2> HIDE DEF row
  <2>3. \A e \in Deals : board'[e].order \in Int /\ pend'[e].order \in Int
    BY <2>1, <2>2 DEF LandInv, Ordered, BoardInv, ShapeInv
  <2> QED
    BY <2>1, <2>3, EndedLands DEF SoloInv, OneAtATime, Steps
<1>7. ASSUME NEW r \in Requests, NEW d \in Deals, DeleteDeal(r, d)
      PROVE  LandInv'
  <2> DEFINE row == [NoRow EXCEPT !.stage = "gone"]
  <2>1. /\ Active = {} /\ Goto(r, "done")
        /\ board' = [board EXCEPT ![d] = row]
        /\ UNCHANGED <<pend, lock, slot, targets>>
    BY <1>7 DEF DeleteDeal, MayBegin
  <2>2. row.order \in Int
    BY DEF NoRow
  <2> HIDE DEF row
  <2>3. \A e \in Deals : board'[e].order \in Int /\ pend'[e].order \in Int
    BY <2>1, <2>2 DEF LandInv, Ordered, BoardInv, ShapeInv
  <2> QED
    BY <2>1, <2>3, EndedLands DEF Active
<1>8. ASSUME NEW r \in Requests, Commit(r) \/ RollBack(r)
      PROVE  LandInv'
  <2>1. /\ pc[r] \in Steps /\ Goto(r, "done")
        /\ slot' = [slot EXCEPT ![r] = 0] /\ targets' = [targets EXCEPT ![r] = <<>>]
        /\ pend' = [d \in Deals |-> IF lock[d] = r THEN NoRow ELSE pend[d]]
        /\ board' = View(r) \/ board' = board
    BY <1>8 DEF Commit, RollBack, Release, EndRequest, Steps
  <2>2. NoRow.order \in Int
    BY DEF NoRow
  <2>3. \A e \in Deals : View(r)[e].order \in Int
    BY DEF View, LandInv, Ordered
  <2>4. \A e \in Deals : board'[e].order \in Int /\ pend'[e].order \in Int
    BY <2>1, <2>2, <2>3 DEF LandInv, Ordered
  <2> QED
    BY <2>1, <2>4, EndedLands DEF SoloInv, OneAtATime
<1>9. CASE UNCHANGED vars
  <2>1. \A r \in Requests : Lands(r)'
    <3> SUFFICES ASSUME NEW r \in Requests PROVE Lands(r)'
      OBVIOUS
    <3>1. /\ Subject(r)' = Subject(r) /\ Moves(r)' = Moves(r) /\ Archives(r)' = Archives(r)
          /\ Restages(r)' = Restages(r)
          /\ Others(r)' = Others(r) /\ Index(r)' = Index(r) /\ Places(r)' = Places(r)
          /\ Left(r)' = Left(r) /\ Closing(r)' = Closing(r)
      BY <1>9, SameFinds DEF vars
    <3> QED
      BY <1>9, <3>1 DEF vars, LandInv, Lands, Arranged, OnTop, Settled, Due
  <2>2. Ordered'
    BY <1>9 DEF vars, LandInv, Ordered
  <2> QED
    BY <2>1, <2>2 DEF LandInv
<1> QED
  BY <1>1, <1>3, <1>4, <1>5, <1>6, <1>7, <1>8, <1>9, ReadColumnLands, WriteDealLands,
     RenumberLands, EndRenumberLands, ReadSourceLands DEF Next, Idle

\* At the start every order is a number and nothing runs.
LEMMA InitLands == Init => LandInv
<1> SUFFICES ASSUME Init PROVE LandInv
  OBVIOUS
<1>1. \A d \in Deals : board[d].order \in Int
  <2>1. board \in [Deals -> [stage : Stages \cup {"absent"}, order : 0..Cardinality(Deals),
                            closed : BOOLEAN, archived : {FALSE}]]
    BY DEF Init, StartBoards
  <2>2. 0..Cardinality(Deals) \subseteq Int
    BY BoardAssumption, FS_CardinalityType
  <2> DEFINE places == 0..Cardinality(Deals)
  <2> HIDE DEF places
  <2>3. board \in [Deals -> [stage : Stages \cup {"absent"}, order : places,
                            closed : BOOLEAN, archived : {FALSE}]]
    BY <2>1 DEF places
  <2>4. \A d \in Deals : board[d].order \in places
    BY <2>3
  <2> QED
    BY <2>2, <2>4 DEF places
<1>2. NoRow.order \in Int
  BY DEF NoRow
<1>3. \A r \in Requests : DOMAIN targets[r] = {}
  BY DEF Init
<1>4. Ordered
  BY <1>1, <1>2, <1>3 DEF Init, Ordered, Steps
<1> QED
  BY <1>4 DEF Init, LandInv, Lands, Holding

-----------------------------------------------------------------------------
(* The board after a request.                                              *)

\* The commit of a request leaves every other deal in its column, with the
\* order it wrote or the one the deal had.
LEMMA CommitBoard ==
    ASSUME BoardInv, SoloInv, HoldsItsDeal, NEW r \in Requests, pc[r] = "commit",
           board' = View(r)
    PROVE  /\ Subject(r) \in Deals /\ board'[Subject(r)] = pend[Subject(r)]
           /\ board'[Subject(r)].stage = req[r].to
           /\ board[Subject(r)].stage = seen[r].stage
           /\ \A e \in Deals : /\ lock[e] = r => board'[e] = pend[e]
                               /\ lock[e] # r => board'[e] = board[e]
                               /\ e # Subject(r) => board'[e].stage = board[e].stage
<1>1. pc[r] \in Steps /\ pc[r] \in Holding
  BY DEF Steps, Holding
<1>2. /\ Subject(r) \in Deals /\ lock[Subject(r)] = r
      /\ pend[Subject(r)].stage = req[r].to /\ req[r].kind # "create"
  BY <1>1 DEF HoldsItsDeal, BoardInv, Aimed
<1>3. \A e \in Deals : board'[e] = IF lock[e] = r THEN pend[e] ELSE board[e]
  BY DEF View
<1>4. \A e \in Deals : lock[e] = r /\ e # Subject(r) => pend[e].stage = board[e].stage
  BY BoardAssumption DEF BoardInv, OwnVersion, SameButOrder, Fields
<1> QED
  BY <1>1, <1>2, <1>3, <1>4 DEF SoloInv, SeenTrue

\* A move that commits lands as asked.
LEMMA MoveLands ==
    ASSUME BoardInv, SoloInv, HoldsItsDeal, LandInv, NEW r \in Requests,
           Commits(r), Moves(r)
    PROVE  LET to == req[r].to
               d  == Subject(r)
           IN  /\ board'[d].stage = to
               /\ PlaceOf(board', to, d)
                    = TargetIndex(req[r].position, Cardinality(In(board, to) \ {d}))
               /\ \A s \in Stages : /\ In(board', s) \ {d} = In(board, s) \ {d}
                                    /\ SameOrder(In(board, s) \ {d})
<1> DEFINE to == req[r].to
           d  == Subject(r)
<1>1. /\ d \in Deals /\ board'[d] = pend[d] /\ board'[d].stage = to
      /\ board[d].stage = seen[r].stage
      /\ \A e \in Deals : /\ lock[e] = r => board'[e] = pend[e]
                          /\ lock[e] # r => board'[e] = board[e]
                          /\ e # d => board'[e].stage = board[e].stage
  BY CommitBoard DEF Commits
<1>2. Arranged(r) /\ pc[r] = "commit" /\ req[r].position \in Nat
  BY DEF Commits, LandInv, Lands, Ordered, Holding, Steps
<1>3. /\ Index(r) \in Nat /\ Index(r) <= Cardinality(Others(r))
      /\ Others(r) \in SUBSET Deals /\ Left(r) \in SUBSET Deals
  BY <1>2, PlacesInt DEF LandInv
<1>4. Column(board, Others(r)) /\ Column(board, Left(r))
  BY <1>3, BoardColumn DEF LandInv
<1>5. /\ board'[d].order = Index(r)
      /\ \A e \in Others(r) : board'[e].order = Places(r)[e]
      /\ Restages(r) => \A e \in Left(r) : board'[e].order = Closing(r)[e]
  BY <1>1, <1>2, <1>3 DEF Arranged, Settled
<1>6. In(board', to) = Others(r) \cup {d}
  BY <1>1 DEF In, Others
<1>7. \A s \in Stages : In(board', s) \ {d} = In(board, s) \ {d}
  BY <1>1 DEF In
<1>8. PICK after : after = board'
  OBVIOUS
<1>9. d \in Deals \ Others(r)
  BY <1>1, Apart
<1>10. /\ Rank(after, Others(r) \cup {d}, d) = Index(r)
       /\ \A x, y \in Others(r) : Before(board, x, y) <=> Before(after, x, y)
  <2>1. /\ after[d].order = Index(r)
        /\ \A e \in Others(r) : after[e].order = Destination(board, Others(r), Index(r))[e]
    BY <1>5, <1>8 DEF Places
  <2> QED
    BY <1>3, <1>4, <1>9, <2>1, DestinationFrees
<1>11. Restages(r) => \A x, y \in Left(r) : Before(board, x, y) <=> Before(after, x, y)
  <2>1. Restages(r) => \A e \in Left(r) : after[e].order = Compacted(board, Left(r))[e]
    BY <1>5, <1>8 DEF Closing
  <2> QED
    BY <1>4, <2>1, CompactedKeeps
<1>12. PlaceOf(after, to, d) = Index(r)
  BY <1>6, <1>8, <1>10 DEF PlaceOf
<1>13. ASSUME NEW s \in Stages
       PROVE  \A x, y \in In(board, s) \ {d} : Before(board, x, y) <=> Before(after, x, y)
  <2>1. CASE s = to
    BY <1>10, <2>1 DEF Others
  <2>2. CASE s # to /\ s = seen[r].stage
    BY <1>11, <2>2 DEF Left, Restages
  <2>3. CASE s # to /\ s # seen[r].stage
    <3>1. \A e \in In(board, s) \ {d} : e \in Deals /\ e \notin Others(r) /\ e \notin Left(r) /\ e # d
      BY <2>3 DEF In, Others, Left
    <3>2. \A e \in In(board, s) \ {d} : after[e] = board[e]
      BY <1>1, <1>2, <1>8, <3>1 DEF Arranged
    <3> QED
      BY <3>2 DEF Before
  <2> QED
    BY <2>1, <2>2, <2>3
<1>14. \A s \in Stages : SameOrder(In(board, s) \ {d})
  BY <1>8, <1>13 DEF SameOrder
<1> QED
  BY <1>1, <1>7, <1>8, <1>12, <1>14 DEF Index, Others

\* The only steps that give a deal another stage.
LEMMA StagesChange ==
    ASSUME BoardInv, [Next]_vars, board' # board
    PROVE  \/ \E r \in Requests, x \in Deals : InsertDeal(r, x) \/ DeleteDeal(r, x)
           \/ \E r \in Requests : Commit(r)
<1>1. ASSUME NEW q \in Requests, NEW ask, NEW step, ReadDeal(q, ask, step)
      PROVE  FALSE
  BY <1>1 DEF ReadDeal
<1>2. ASSUME NEW q \in Requests, NEW s \in Stages, NEW e \in Deals,
             AskCreate(q, s) \/ AskPatch(q, e, s)
             \/ \E position \in 0..Cardinality(Deals) : AskMove(q, e, s, position)
      PROVE  FALSE
  BY <1>1, <1>2 DEF AskCreate, AskPatch, AskMove
<1>3. ASSUME NEW q \in Requests, NEW e \in Deals, AskArchive(q, e) \/ Renumber(q, e)
      PROVE  FALSE
  BY <1>1, <1>3 DEF AskArchive, Renumber
<1>4. ASSUME NEW q \in Requests,
             ReadColumn(q) \/ WriteDeal(q) \/ EndRenumber(q) \/ ReadSource(q) \/ RollBack(q)
      PROVE  FALSE
  BY <1>4 DEF ReadColumn, WriteDeal, EndRenumber, ReadSource, RollBack
<1>5. ~UNCHANGED vars
  BY DEF vars
<1> QED
  BY <1>2, <1>3, <1>4, <1>5 DEF Next, Idle

\* A deal that enters a column by no move enters it on top.
LEMMA EntersOnTop ==
    ASSUME BoardInv, SoloInv, HoldsItsDeal, LandInv, [Next]_vars, NEW d \in Deals,
           Exists(board', d), board'[d].stage # board[d].stage,
           ~\E r \in Requests : Commits(r) /\ Moves(r) /\ Subject(r) = d
    PROVE  \A e \in In(board, board'[d].stage) : Before(board', d, e)
<1>1. ASSUME NEW r \in Requests, NEW x \in Deals, InsertDeal(r, x)
      PROVE  \A e \in In(board, board'[d].stage) : Before(board', d, e)
  <2> DEFINE row == [stage |-> req[r].to, order |-> slot[r], closed |-> FALSE,
                     archived |-> FALSE]
  <2>1. /\ pc[r] = "write" /\ req[r].kind = "create" /\ board[x] = NoRow
        /\ board' = [board EXCEPT ![x] = row]
    BY <1>1, BoardAssumption DEF InsertDeal, EndRequest
  <2>2. row.stage = req[r].to /\ row.order = slot[r]
    OBVIOUS
  <2> HIDE DEF row
  <2>3. /\ d = x /\ board'[d] = row
        /\ \A e \in Deals : e # d => board'[e] = board[e]
    BY <2>1 DEF BoardInv, ShapeInv
  <2>4. slot[r] = TopOrder(board, req[r].to)
    BY <2>1 DEF LandInv, Lands, Moves, Archives
  <2>5. board'[d].stage = req[r].to /\ board[d].stage # req[r].to
    BY <2>2, <2>3
  <2>6. \A e \in In(board, req[r].to) : e \in Deals /\ e # d
    BY <2>5 DEF In
  <2>7. \A e \in In(board, req[r].to) : TopOrder(board, req[r].to) < board[e].order
    <3>1. In(board, req[r].to) \in SUBSET Deals
      BY DEF In
    <3> QED
      BY <3>1, BoardColumn, TopIsAbove DEF LandInv
  <2> QED
    BY <2>2, <2>3, <2>4, <2>5, <2>6, <2>7 DEF Before
<1>2. ASSUME NEW r \in Requests, NEW x \in Deals, DeleteDeal(r, x)
      PROVE  FALSE
  <2> DEFINE row == [NoRow EXCEPT !.stage = "gone"]
  <2>1. board' = [board EXCEPT ![x] = row]
    BY <1>2 DEF DeleteDeal
  <2>2. row.stage = "gone"
    BY DEF NoRow
  <2> HIDE DEF row
  <2>3. board'[d].stage = "gone"
    BY <2>1, <2>2 DEF BoardInv, ShapeInv
  <2> QED
    BY <2>3, BoardAssumption DEF Exists
<1>3. ASSUME NEW r \in Requests, Commit(r)
      PROVE  \A e \in In(board, board'[d].stage) : Before(board', d, e)
  <2>1. /\ pc[r] = "commit" /\ board' = View(r) /\ pc'[r] = "done" /\ Commits(r)
    BY <1>3 DEF Commit, Release, EndRequest, Goto, BoardInv, ShapeInv, Commits
  <2>2. /\ Subject(r) \in Deals /\ board'[Subject(r)] = pend[Subject(r)]
        /\ board'[Subject(r)].stage = req[r].to
        /\ board[Subject(r)].stage = seen[r].stage
        /\ \A e \in Deals : /\ lock[e] = r => board'[e] = pend[e]
                            /\ lock[e] # r => board'[e] = board[e]
                            /\ e # Subject(r) => board'[e].stage = board[e].stage
    BY <2>1, CommitBoard
  <2>3. d = Subject(r) /\ ~Moves(r)
    BY <2>1, <2>2
  <2>4. ~Archives(r)
    BY <2>1, <2>2, <2>3 DEF HoldsItsDeal, Steps
  <2>5. /\ pend[d].order = TopOrder(board, req[r].to)
        /\ \A e \in Deals : lock[e] = r => e = d
    BY <2>1, <2>3, <2>4 DEF LandInv, Lands, OnTop, Holding
  <2>6. \A e \in In(board, req[r].to) : e \in Deals /\ e # d /\ board'[e] = board[e]
    BY <2>2, <2>3, <2>5 DEF In
  <2>7. \A e \in In(board, req[r].to) : TopOrder(board, req[r].to) < board[e].order
    <3>1. In(board, req[r].to) \in SUBSET Deals
      BY DEF In
    <3> QED
      BY <3>1, BoardColumn, TopIsAbove DEF LandInv
  <2> QED
    BY <2>2, <2>3, <2>5, <2>6, <2>7 DEF Before
<1>4. board' # board
  OBVIOUS
<1> QED
  BY <1>1, <1>2, <1>3, <1>4, StagesChange

\* When requests do not overlap, a card lands where it was asked to: a moved
\* deal at the place the user dropped it, with every other column in its order,
\* and a created or restaged one on top of its column, for any board.
THEOREM CardsLand == ~Overlap => (Spec => CardsLandAsAsked)
<1> SUFFICES ASSUME ~Overlap
             PROVE  Spec => CardsLandAsAsked
  OBVIOUS
<1>1. Init => HoldsItsDeal
  BY DEF Init, HoldsItsDeal, Steps, Holding
<1>2. BoardInv /\ SoloInv /\ HoldsItsDeal /\ LandInv /\ [Next]_vars =>
        SoloInv' /\ HoldsItsDeal' /\ LandInv'
  BY StepSolo, StepHolds, StepLands
<1>3. BoardInv /\ SoloInv /\ HoldsItsDeal /\ LandInv /\ [Next]_vars =>
        [\A r \in Requests :
           Commits(r) /\ req[r].kind = "move" =>
             LET to == req[r].to
                 d  == Subject(r)
             IN  /\ board'[d].stage = to
                 /\ PlaceOf(board', to, d)
                      = TargetIndex(req[r].position, Cardinality(In(board, to) \ {d}))
                 /\ \A s \in Stages : /\ In(board', s) \ {d} = In(board, s) \ {d}
                                      /\ SameOrder(In(board, s) \ {d})]_vars
  BY MoveLands DEF Moves
<1>4. BoardInv /\ SoloInv /\ HoldsItsDeal /\ LandInv /\ [Next]_vars =>
        [\A d \in Deals :
           /\ Exists(board', d) /\ board'[d].stage # board[d].stage
           /\ ~\E r \in Requests : Commits(r) /\ req[r].kind = "move" /\ Subject(r) = d
           => \A e \in In(board, board'[d].stage) : Before(board', d, e)]_vars
  BY EntersOnTop DEF Moves
<1> QED
  BY Consistent, InitSolo, InitLands, <1>1, <1>2, <1>3, <1>4, PTL
     DEF Spec, CardsLandAsAsked, MoveLandsAsAsked, RestagedOnTop
=============================================================================
