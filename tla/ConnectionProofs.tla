--------------------------- MODULE ConnectionProofs ---------------------------
(***************************************************************************)
(* Proofs about Connections, for any number of agents, requests and calls, *)
(* and for any limits.                                                     *)
(***************************************************************************)
EXTENDS Connections, FiniteSetTheorems, TLAPS

\* The phases of the counts are those of a connect.
PhaseFits ==
    \A k \in Calls :
        calls[k].phase \in {"checked", "counted", "allowed"} <=>
            calls[k].op = "connect"

TypeInv == TypeOK /\ PhaseFits

\* A row whose status changes is still a row.
LEMMA RowFits ==
    ASSUME NEW row \in RequestRow, NEW status \in Answers
    PROVE  [row EXCEPT !.status = status] \in RequestRow
BY DEF RequestRow

CallsFit ==
    /\ calls \in [Calls -> Call]
    /\ \A k \in Calls :
          /\ ~Idle(k) => calls[k].by \in Agents
          /\ calls[k].op \in {"connect", "block"} => calls[k].to \in Agents
          /\ calls[k].op \in {"accept", "reject", "cancel"} =>
                calls[k].req \in Requests
    /\ PhaseFits

\* A call that is answered leaves the others as they are.
LEMMA DoneFits ==
    ASSUME CallsFit, NEW k \in Calls, calls' = Done(k)
    PROVE  CallsFit'
BY DEF CallsFit, PhaseFits, Idle, Done, NoCall, Call

\* Every step keeps every variable in its type.
LEMMA TypeStep == TypeInv /\ [Next]_vars => TypeInv'
<1> SUFFICES ASSUME TypeInv, [Next]_vars PROVE TypeInv'
  OBVIOUS
<1> USE DEF TypeInv, TypeOK, PhaseFits, Call, Idle
<1>1. ASSUME NEW k \in Calls, NEW a \in Agents, NEW b \in Agents,
             CheckConnect(k, a, b)
      PROVE  TypeInv'
  BY <1>1 DEF CheckConnect, NoCall
<1>2. ASSUME NEW k \in Calls, CountPending(k) PROVE TypeInv'
  BY <1>2 DEF CountPending, Done, NoCall
<1>3. ASSUME NEW k \in Calls, CountToday(k) PROVE TypeInv'
  BY <1>3 DEF CountToday, Done, NoCall
<1>4. ASSUME NEW k \in Calls, CommitConnect(k) PROVE TypeInv'
  <2>1. CallsFit'
    BY <1>4, DoneFits DEF CommitConnect, CallsFit
  <2>2. /\ calls[k].by \in Agents /\ calls[k].to \in Agents
        /\ calls[k].seen + 1 \in Nat
    BY <1>4 DEF CommitConnect
  <2>3. requests' \in [Requests -> RequestRow]
    BY <1>4, <2>2 DEF CommitConnect, RequestRow
  <2>4. sentTotal' \in [Agents -> Nat]
    BY <1>4, <2>2 DEF CommitConnect
  <2> QED  BY <1>4, <2>1, <2>3, <2>4 DEF CommitConnect, CallsFit
<1>5. ASSUME NEW k \in Calls, NEW op \in {"accept", "reject", "cancel"},
             NEW r \in Requests, NEW a \in Agents, ReadRequest(k, op, r, a)
      PROVE  TypeInv'
  BY <1>5 DEF ReadRequest, NoCall
<1>6. ASSUME NEW k \in Calls, CommitAccept(k) PROVE TypeInv'
  <2>1. CallsFit'
    BY <1>6, DoneFits DEF CommitAccept, CallsFit
  <2>2. calls[k].req \in Requests /\ "accepted" \in Answers
    BY <1>6 DEF CommitAccept, Ready, Answers
  <2>3. [requests[calls[k].req] EXCEPT !.status = "accepted"] \in RequestRow
    BY <2>2, RowFits
  <2>4. requests' \in [Requests -> RequestRow]
    BY <1>6, <2>2, <2>3 DEF CommitAccept
  <2> QED  BY <1>6, <2>1, <2>4 DEF CommitAccept, CallsFit
<1>7. ASSUME NEW k \in Calls, AcceptConflicts(k) PROVE TypeInv'
  BY <1>7 DEF AcceptConflicts, Done, NoCall
<1>8. ASSUME NEW k \in Calls, CommitAnswer(k) PROVE TypeInv'
  <2>1. CallsFit'
    BY <1>8, DoneFits DEF CommitAnswer, CallsFit
  <2>2. calls[k].req \in Requests /\ "refused" \in Answers
    BY <1>8 DEF CommitAnswer, Ready, Answers
  <2>3. [requests[calls[k].req] EXCEPT !.status = "refused"] \in RequestRow
    BY <2>2, RowFits
  <2>4. requests' = [requests EXCEPT ![calls[k].req] =
                       [requests[calls[k].req] EXCEPT !.status = "refused"]]
    BY <1>8 DEF CommitAnswer
  <2>5. requests' \in [Requests -> RequestRow]
    BY <2>2, <2>3, <2>4
  <2> QED  BY <1>8, <2>1, <2>5 DEF CommitAnswer, CallsFit
<1>9. ASSUME NEW k \in Calls, NEW a \in Agents, NEW b \in Agents,
             ReadForBlock(k, a, b)
      PROVE  TypeInv'
  BY <1>9 DEF ReadForBlock, NoCall
<1>10. ASSUME NEW k \in Calls, CommitBlock(k) PROVE TypeInv'
  BY <1>10 DEF CommitBlock, Ready, Done, NoCall, Closed
<1>11. ASSUME NEW k \in Calls, BlockConflicts(k) PROVE TypeInv'
  BY <1>11 DEF BlockConflicts, Done, NoCall
<1>12. ASSUME NEW a \in Agents, NEW b \in Agents, Unblock(a, b) PROVE TypeInv'
  BY <1>12 DEF Unblock
<1>13. ASSUME NEW r \in Requests, SessionEnds(r) PROVE TypeInv'
  BY <1>13 DEF SessionEnds, Closed
<1>14. ASSUME NEW r \in Requests, Age(r) PROVE TypeInv'
  BY <1>14 DEF Age, RequestRow
<1>15. ASSUME NEW a \in Agents, DeleteAccount(a) PROVE TypeInv'
  BY <1>15 DEF DeleteAccount, Closed
<1>16. CASE ExpireRequests
  <2>1. "expired" \in Answers
    BY DEF Answers
  <2>2. \A r \in Requests :
          [requests[r] EXCEPT !.status = "expired"] \in RequestRow
    BY <2>1, RowFits
  <2> QED  BY <1>16, <2>2 DEF ExpireRequests
<1>17. ASSUME NEW r \in Requests, SessionReopens(r) PROVE TypeInv'
  BY <1>17 DEF SessionReopens
<1>18. CASE UNCHANGED vars
  BY <1>18 DEF vars
<1> QED
  BY <1>1, <1>2, <1>3, <1>4, <1>5, <1>6, <1>7, <1>8, <1>9, <1>10, <1>11,
     <1>12, <1>13, <1>14, <1>15, <1>16, <1>17, <1>18
  DEF Next, NewCall, CallStep

LEMMA TypeInit == Init => TypeInv
BY DEF Init, TypeInv, TypeOK, PhaseFits, RequestRow, NoRequest, Call, NoCall,
   Idle

\* A row that is not made yet is nobody's.
Blank ==
    \A r \in Requests :
        requests[r].status = "absent" => requests[r].from = None

\* A request that is made stays made, and its sender's.
StaysMade(r) ==
    /\ requests'[r].status = "absent" => requests[r].status = "absent"
    /\ \/ requests'[r].from = requests[r].from
       \/ requests[r].status = "absent" /\ requests'[r].status # "absent"

LEMMA MadeForGood ==
    ASSUME TypeInv, [Next]_vars, NEW r \in Requests
    PROVE  StaysMade(r)
<1> USE DEF TypeInv, TypeOK, StaysMade
<1>1. ASSUME NEW k \in Calls, CommitConnect(k) PROVE StaysMade(r)
  BY <1>1 DEF CommitConnect
<1>2. ASSUME NEW k \in Calls, CommitAccept(k) PROVE StaysMade(r)
  BY <1>2 DEF CommitAccept, RequestRow
<1>3. ASSUME NEW k \in Calls, CommitAnswer(k) PROVE StaysMade(r)
  BY <1>3 DEF CommitAnswer, RequestRow
<1>4. ASSUME NEW q \in Requests, Age(q) PROVE StaysMade(r)
  BY <1>4 DEF Age
<1>5. CASE ExpireRequests
  BY <1>5 DEF ExpireRequests, RequestRow
<1>6. CASE UNCHANGED requests
  BY <1>6
<1>7. (\/ \E k \in Calls : NewCall(k)
       \/ \E k \in Calls : \/ CountPending(k) \/ CountToday(k)
                           \/ AcceptConflicts(k) \/ CommitBlock(k)
                           \/ BlockConflicts(k)
       \/ \E a, b \in Agents : Unblock(a, b)
       \/ \E q \in Requests : SessionEnds(q) \/ SessionReopens(q)
       \/ \E a \in Agents : DeleteAccount(a)
       \/ UNCHANGED vars) => UNCHANGED requests
  BY DEF NewCall, CheckConnect, ReadForBlock, ReadRequest, CountPending,
     CountToday, AcceptConflicts, CommitBlock, BlockConflicts, Unblock,
     SessionEnds, SessionReopens, DeleteAccount, vars
<1> QED
  BY <1>1, <1>2, <1>3, <1>4, <1>5, <1>6, <1>7 DEF Next, CallStep

LEMMA BlankStep == TypeInv /\ Blank /\ [Next]_vars => Blank'
BY MadeForGood DEF Blank, StaysMade

\* Connections keep to their types (routes/connections.py, routes/blocks.py).
THEOREM TypeCorrect == Spec => []TypeOK
<1>1. TypeInv => TypeOK
  BY DEF TypeInv
<1> QED
  BY <1>1, TypeInit, TypeStep, PTL DEF Spec

----------------------------------------------------------------------------
(* The limits.  A row a call inserts counts instead of the call; a call    *)
(* that is let in by a count found room in it.                             *)

\* Neither count grows.
LEMMA Fewer ==
    ASSUME NEW S, NEW T, NEW U \in SUBSET S, NEW V \in SUBSET T,
           IsFiniteSet(S), IsFiniteSet(T)
    PROVE  /\ Cardinality(U) + Cardinality(V) <= Cardinality(S) + Cardinality(T)
           /\ Cardinality(U) + Cardinality(V) \in Nat
           /\ Cardinality(S) + Cardinality(T) \in Nat
<1>1. /\ Cardinality(U) <= Cardinality(S) /\ Cardinality(V) <= Cardinality(T)
      /\ IsFiniteSet(U) /\ IsFiniteSet(V)
  BY FS_Subset
<1>2. /\ Cardinality(U) \in Nat /\ Cardinality(V) \in Nat
      /\ Cardinality(S) \in Nat /\ Cardinality(T) \in Nat
  BY <1>1, FS_CardinalityType
<1> QED  BY <1>1, <1>2

\* A row comes for a call that goes.
LEMMA Exchanged ==
    ASSUME NEW S, NEW T, NEW x, NEW k \in T, NEW U \in SUBSET (S \cup {x}),
           NEW V \in SUBSET (T \ {k}), IsFiniteSet(S), IsFiniteSet(T)
    PROVE  /\ Cardinality(U) + Cardinality(V) <= Cardinality(S) + Cardinality(T)
           /\ Cardinality(U) + Cardinality(V) \in Nat
           /\ Cardinality(S) + Cardinality(T) \in Nat
<1>1. /\ IsFiniteSet(S \cup {x}) /\ IsFiniteSet(T \ {k})
      /\ Cardinality(S \cup {x}) <= Cardinality(S) + 1
      /\ Cardinality(T \ {k}) = Cardinality(T) - 1
  <2>1. Cardinality(S) \in Nat
    BY FS_CardinalityType
  <2>2. /\ IsFiniteSet(S \cup {x})
        /\ Cardinality(S \cup {x})
              = IF x \in S THEN Cardinality(S) ELSE Cardinality(S) + 1
    BY FS_AddElement
  <2>3. /\ IsFiniteSet(T \ {k})
        /\ Cardinality(T \ {k})
              = IF k \in T THEN Cardinality(T) - 1 ELSE Cardinality(T)
    BY FS_RemoveElement
  <2> QED  BY <2>1, <2>2, <2>3
<1>2. /\ Cardinality(S) \in Nat /\ Cardinality(T) \in Nat
      /\ Cardinality(S \cup {x}) \in Nat /\ Cardinality(T \ {k}) \in Nat
  BY <1>1, FS_CardinalityType
<1>3. /\ Cardinality(U) + Cardinality(V)
         <= Cardinality(S \cup {x}) + Cardinality(T \ {k})
      /\ Cardinality(U) + Cardinality(V) \in Nat
  BY <1>1, Fewer
<1> QED  BY <1>1, <1>2, <1>3

\* There was room, and only calls can have been let in.
LEMMA Admitted ==
    ASSUME NEW S, NEW U \in SUBSET S, NEW V \in SUBSET Calls, IsFiniteSet(S),
           NEW limit \in Nat, Cardinality(S) < limit
    PROVE  Cardinality(U) + Cardinality(V) < limit + Cardinality(Calls)
<1>1. /\ Cardinality(U) + Cardinality(V) <= Cardinality(S) + Cardinality(Calls)
      /\ Cardinality(U) + Cardinality(V) \in Nat
      /\ Cardinality(S) \in Nat /\ Cardinality(Calls) \in Nat
  BY FiniteAssumption, Fewer, FS_CardinalityType
<1> QED  BY <1>1

LEMMA CountsFinite ==
    ASSUME NEW a, NEW phases
    PROVE  /\ IsFiniteSet(Outstanding(a)) /\ IsFiniteSet(Outstanding(a)')
           /\ IsFiniteSet(SentToday(a)) /\ IsFiniteSet(SentToday(a)')
           /\ IsFiniteSet(Passing(a, phases)) /\ IsFiniteSet(Passing(a, phases)')
           /\ IsFiniteSet(From(a)) /\ IsFiniteSet(From(a)')
           /\ Passing(a, phases)' \in SUBSET Calls
BY FiniteAssumption, FS_Subset DEF Outstanding, SentToday, Passing, From

Counted(a) == Passing(a, {"counted", "allowed"})
Allowed(a) == Passing(a, {"allowed"})

\* No row comes in and no call passes a count.
Quiet(a) ==
    /\ Outstanding(a)' \subseteq Outstanding(a) /\ Counted(a)' \subseteq Counted(a)
    /\ SentToday(a)' \subseteq SentToday(a) /\ Allowed(a)' \subseteq Allowed(a)

\* A call passes one of the counts; with the second it stays a call that has
\* passed the first.
Passes(a) ==
    /\ Outstanding(a)' \subseteq Outstanding(a) /\ SentToday(a)' \subseteq SentToday(a)
    /\ \/ /\ Cardinality(Outstanding(a)) < PendingLimit
          /\ Allowed(a)' \subseteq Allowed(a)
       \/ /\ Cardinality(SentToday(a)) < DayLimit
          /\ Counted(a)' \subseteq Counted(a)

\* A call becomes a row.
Inserts(a) ==
    \E k \in Allowed(a), r \in Requests :
        /\ k \in Counted(a)
        /\ Outstanding(a)' \subseteq Outstanding(a) \cup {r}
        /\ SentToday(a)' \subseteq SentToday(a) \cup {r}
        /\ Counted(a)' \subseteq Counted(a) \ {k}
        /\ Allowed(a)' \subseteq Allowed(a) \ {k}

\* A call starts, or is answered.
LEMMA CallIsQuiet ==
    ASSUME TypeInv, NEW a \in Agents, NEW k \in Calls, NEW c,
           calls' = [calls EXCEPT ![k] = c],
           c.phase \in {"idle", "checked", "read"},
           UNCHANGED requests
    PROVE  Quiet(a)
BY DEF Quiet, Outstanding, SentToday, Passing, Counted, Allowed, TypeInv, TypeOK

\* Rows that leave pending, or grow older, count for less.
RowsFade ==
    \A r \in Requests :
        /\ requests'[r].from = requests[r].from
        /\ requests'[r].status = "pending" => requests[r].status = "pending"
        /\ requests'[r].status # "absent" =>
              requests[r].status # "absent" \/ requests[r].from = None
        /\ requests'[r].age # "due" => requests[r].age # "due"
        /\ requests'[r].age = "today" => requests[r].age = "today"

LEMMA FadeIsQuiet ==
    ASSUME TypeInv, RowsFade, NEW a \in Agents,
           UNCHANGED calls \/ \E k \in Calls : calls' = Done(k)
    PROVE  Quiet(a)
<1>1. /\ Outstanding(a)' \subseteq Outstanding(a)
      /\ SentToday(a)' \subseteq SentToday(a)
  BY NoneAssumption DEF RowsFade, Outstanding, SentToday
<1>2. Counted(a)' \subseteq Counted(a) /\ Allowed(a)' \subseteq Allowed(a)
  BY DEF Passing, Counted, Allowed, TypeInv, TypeOK, Done, NoCall
<1> QED  BY <1>1, <1>2 DEF Quiet

\* So is an answer to a request that has been made.
LEMMA ChangeFades ==
    ASSUME TypeInv, Blank, NEW r \in Requests, NEW status \in Answers,
           requests' = [requests EXCEPT ![r] =
                          [requests[r] EXCEPT !.status = status]]
    PROVE  RowsFade
BY DEF TypeInv, TypeOK, Blank, RowsFade, RequestRow, Answers

LEMMA StepsCount ==
    ASSUME TypeInv, Blank, [Next]_vars, NEW a \in Agents
    PROVE  Quiet(a) \/ Passes(a) \/ Inserts(a)
<1> USE DEF TypeInv, TypeOK
<1>1. ASSUME NEW k \in Calls, NEW b \in Agents, NEW c \in Agents,
             CheckConnect(k, b, c)
      PROVE  Quiet(a)
  BY <1>1, CallIsQuiet DEF CheckConnect, NoCall
<1>2. ASSUME NEW k \in Calls, CountPending(k) PROVE Quiet(a) \/ Passes(a)
  <2>1. CASE calls' = Done(k)
    BY <1>2, <2>1, CallIsQuiet DEF CountPending, Done, NoCall
  <2>2. CASE /\ calls' = [calls EXCEPT ![k].phase = "counted"]
             /\ Cardinality(Outstanding(calls[k].by)) < PendingLimit
    <3>1. /\ Outstanding(a)' = Outstanding(a)
          /\ SentToday(a)' = SentToday(a)
      BY <1>2 DEF CountPending, Outstanding, SentToday
    <3>2. Allowed(a)' \subseteq Allowed(a)
      BY <2>2 DEF Allowed, Passing
    <3>3. calls[k].by # a => Counted(a)' \subseteq Counted(a)
      BY <2>2 DEF Counted, Passing, Call
    <3> QED  BY <2>2, <3>1, <3>2, <3>3 DEF Quiet, Passes
  <2> QED  BY <1>2, <2>1, <2>2 DEF CountPending, BelowPendingLimit
<1>3. ASSUME NEW k \in Calls, CountToday(k) PROVE Quiet(a) \/ Passes(a)
  <2>1. CASE calls' = Done(k)
    BY <1>3, <2>1, CallIsQuiet DEF CountToday, Done, NoCall
  <2>2. CASE /\ calls' = [calls EXCEPT ![k].phase = "allowed"]
             /\ Cardinality(SentToday(calls[k].by)) < DayLimit
    <3>1. /\ Outstanding(a)' = Outstanding(a)
          /\ SentToday(a)' = SentToday(a)
      BY <1>3 DEF CountToday, Outstanding, SentToday
    <3>2. Counted(a)' \subseteq Counted(a)
      BY <1>3, <2>2 DEF CountToday, Counted, Passing, Call
    <3>3. calls[k].by # a => Allowed(a)' \subseteq Allowed(a)
      BY <2>2 DEF Allowed, Passing, Call
    <3> QED  BY <2>2, <3>1, <3>2, <3>3 DEF Quiet, Passes
  <2> QED  BY <1>3, <2>1, <2>2 DEF CountToday, BelowDayLimit
<1>4. ASSUME NEW k \in Calls, CommitConnect(k) PROVE Quiet(a) \/ Inserts(a)
  <2>1. PICK r \in Requests :
          requests' = [requests EXCEPT
                         ![r] = [status |-> "pending", from |-> calls[k].by,
                                 to |-> calls[k].to, age |-> "today"]]
    BY <1>4 DEF CommitConnect
  <2>2. calls' = Done(k) /\ calls[k].phase = "allowed"
    BY <1>4 DEF CommitConnect
  <2>3. /\ Counted(a)' \subseteq Counted(a) \ {k}
        /\ Allowed(a)' \subseteq Allowed(a) \ {k}
    BY <2>2 DEF Counted, Allowed, Passing, Done, NoCall
  <2>4. CASE calls[k].by = a
    <3>1. k \in Allowed(a) /\ k \in Counted(a)
      BY <2>2, <2>4 DEF Counted, Allowed, Passing
    <3>2. /\ Outstanding(a)' \subseteq Outstanding(a) \cup {r}
          /\ SentToday(a)' \subseteq SentToday(a) \cup {r}
      BY <2>1 DEF Outstanding, SentToday
    <3> QED  BY <2>3, <3>1, <3>2 DEF Inserts
  <2>5. CASE calls[k].by # a
    <3>1. /\ Outstanding(a)' \subseteq Outstanding(a)
          /\ SentToday(a)' \subseteq SentToday(a)
      BY <2>1, <2>5 DEF Outstanding, SentToday, RequestRow
    <3> QED  BY <2>3, <3>1 DEF Quiet
  <2> QED  BY <2>4, <2>5
<1>5. ASSUME NEW k \in Calls, NEW op \in {"accept", "reject", "cancel"},
             NEW r \in Requests, NEW b \in Agents, ReadRequest(k, op, r, b)
      PROVE  Quiet(a)
  BY <1>5, CallIsQuiet DEF ReadRequest, NoCall
<1>6. ASSUME NEW k \in Calls, CommitAccept(k) PROVE Quiet(a)
  <2>1. /\ requests' = [requests EXCEPT ![calls[k].req] =
                          [requests[calls[k].req] EXCEPT !.status = "accepted"]]
        /\ calls[k].req \in Requests /\ "accepted" \in Answers
    BY <1>6 DEF CommitAccept, Ready, Answers
  <2>2. RowsFade
    BY <2>1, ChangeFades
  <2> QED  BY <1>6, <2>2, FadeIsQuiet DEF CommitAccept
<1>7. ASSUME NEW k \in Calls, AcceptConflicts(k) \/ BlockConflicts(k)
      PROVE  Quiet(a)
  BY <1>7, CallIsQuiet DEF AcceptConflicts, BlockConflicts, Done, NoCall
<1>8. ASSUME NEW k \in Calls, CommitAnswer(k) PROVE Quiet(a)
  <2>1. /\ requests' = [requests EXCEPT ![calls[k].req] =
                          [requests[calls[k].req] EXCEPT !.status = "refused"]]
        /\ calls[k].req \in Requests /\ "refused" \in Answers
    BY <1>8 DEF CommitAnswer, Ready, Answers
  <2>2. RowsFade
    BY <2>1, ChangeFades
  <2> QED  BY <1>8, <2>2, FadeIsQuiet DEF CommitAnswer
<1>9. ASSUME NEW k \in Calls, NEW b \in Agents, NEW c \in Agents,
             ReadForBlock(k, b, c)
      PROVE  Quiet(a)
  <2> DEFINE c2 == calls'[k]
  <2>1. calls' = [calls EXCEPT ![k] = c2] /\ UNCHANGED requests
    BY <1>9 DEF ReadForBlock
  <2>2. c2.phase = "read"
    BY <1>9 DEF ReadForBlock, NoCall
  <2> HIDE DEF c2
  <2> QED  BY <2>1, <2>2, CallIsQuiet
<1>10. ASSUME NEW k \in Calls, CommitBlock(k) PROVE Quiet(a)
  BY <1>10, CallIsQuiet DEF CommitBlock, Done, NoCall
<1>11. ASSUME NEW r \in Requests, Age(r) PROVE Quiet(a)
  <2>1. \A q \in Requests : requests[q] \in RequestRow
    OBVIOUS
  <2>2. requests' = [requests EXCEPT ![r] =
                       [requests[r] EXCEPT
                          !.age = IF @ = "today" THEN "earlier" ELSE "due"]]
    BY <1>11 DEF Age
  <2>3. RowsFade
    BY <2>1, <2>2 DEF RowsFade, RequestRow
  <2> QED  BY <1>11, <2>3, FadeIsQuiet DEF Age
<1>12. CASE ExpireRequests
  <2>1. RowsFade
    BY <1>12 DEF ExpireRequests, Overdue, RowsFade
  <2> QED  BY <1>12, <2>1, FadeIsQuiet DEF ExpireRequests
<1>13. ASSUME UNCHANGED <<requests, calls>> PROVE Quiet(a)
  BY <1>13, FadeIsQuiet DEF RowsFade
<1>14. (\/ \E b, c \in Agents : Unblock(b, c)
        \/ \E r \in Requests : SessionEnds(r) \/ SessionReopens(r)
        \/ \E b \in Agents : DeleteAccount(b)
        \/ UNCHANGED vars) => UNCHANGED <<requests, calls>>
  BY DEF Unblock, SessionEnds, SessionReopens, DeleteAccount, vars
<1> QED
  BY <1>1, <1>2, <1>3, <1>4, <1>5, <1>6, <1>7, <1>8, <1>9, <1>10, <1>11,
     <1>12, <1>13, <1>14 DEF Next, NewCall, CallStep

LEMMA PendingStep ==
    ASSUME TypeInv, Blank, PendingNearLimit, [Next]_vars
    PROVE  PendingNearLimit'
<1>0. PendingLimit \in Nat /\ Cardinality(Calls) \in Nat
  BY LimitAssumption, FiniteAssumption, FS_CardinalityType
<1> SUFFICES ASSUME NEW a \in Agents
             PROVE  Cardinality(Outstanding(a)') + Cardinality(Counted(a)')
                    < PendingLimit + Cardinality(Calls)
  BY DEF PendingNearLimit, Counted
<1>1. Cardinality(Outstanding(a)) + Cardinality(Counted(a))
      < PendingLimit + Cardinality(Calls)
  BY DEF PendingNearLimit, Counted
<1>2. /\ IsFiniteSet(Outstanding(a)) /\ IsFiniteSet(Counted(a))
      /\ Counted(a)' \in SUBSET Calls
  BY CountsFinite DEF Counted
<1>3. CASE /\ Outstanding(a)' \subseteq Outstanding(a)
           /\ Counted(a)' \subseteq Counted(a)
  <2>1. Cardinality(Outstanding(a)') + Cardinality(Counted(a)')
        <= Cardinality(Outstanding(a)) + Cardinality(Counted(a))
    BY <1>2, <1>3, Fewer
  <2>2. /\ Cardinality(Outstanding(a)') + Cardinality(Counted(a)') \in Nat
        /\ Cardinality(Outstanding(a)) + Cardinality(Counted(a)) \in Nat
    BY <1>2, <1>3, Fewer
  <2> QED  BY <1>0, <1>1, <2>1, <2>2
<1>4. CASE /\ Cardinality(Outstanding(a)) < PendingLimit
           /\ Outstanding(a)' \subseteq Outstanding(a)
  BY <1>0, <1>2, <1>4, Admitted
<1>5. CASE Inserts(a)
  <2>1. PICK k \in Counted(a), r \in Requests :
          /\ Outstanding(a)' \subseteq Outstanding(a) \cup {r}
          /\ Counted(a)' \subseteq Counted(a) \ {k}
    BY <1>5 DEF Inserts
  <2> DEFINE U == Outstanding(a)'  V == Counted(a)'
  <2>2. U \in SUBSET (Outstanding(a) \cup {r}) /\ V \in SUBSET (Counted(a) \ {k})
    BY <2>1
  <2> HIDE DEF U, V
  <2>3. /\ Cardinality(U) + Cardinality(V)
           <= Cardinality(Outstanding(a)) + Cardinality(Counted(a))
        /\ Cardinality(U) + Cardinality(V) \in Nat
        /\ Cardinality(Outstanding(a)) + Cardinality(Counted(a)) \in Nat
    BY <1>2, <2>1, <2>2, Exchanged
  <2> QED  BY <1>0, <1>1, <2>3 DEF U, V
<1> QED  BY <1>3, <1>4, <1>5, StepsCount DEF Quiet, Passes

LEMMA TodayStep ==
    ASSUME TypeInv, Blank, TodayNearLimit, [Next]_vars
    PROVE  TodayNearLimit'
<1>0. DayLimit \in Nat /\ Cardinality(Calls) \in Nat
  BY LimitAssumption, FiniteAssumption, FS_CardinalityType
<1> SUFFICES ASSUME NEW a \in Agents
             PROVE  Cardinality(SentToday(a)') + Cardinality(Allowed(a)')
                    < DayLimit + Cardinality(Calls)
  BY DEF TodayNearLimit, Allowed
<1>1. Cardinality(SentToday(a)) + Cardinality(Allowed(a))
      < DayLimit + Cardinality(Calls)
  BY DEF TodayNearLimit, Allowed
<1>2. /\ IsFiniteSet(SentToday(a)) /\ IsFiniteSet(Allowed(a))
      /\ Allowed(a)' \in SUBSET Calls
  BY CountsFinite DEF Allowed
<1>3. CASE /\ SentToday(a)' \subseteq SentToday(a)
           /\ Allowed(a)' \subseteq Allowed(a)
  <2>1. Cardinality(SentToday(a)') + Cardinality(Allowed(a)')
        <= Cardinality(SentToday(a)) + Cardinality(Allowed(a))
    BY <1>2, <1>3, Fewer
  <2>2. /\ Cardinality(SentToday(a)') + Cardinality(Allowed(a)') \in Nat
        /\ Cardinality(SentToday(a)) + Cardinality(Allowed(a)) \in Nat
    BY <1>2, <1>3, Fewer
  <2> QED  BY <1>0, <1>1, <2>1, <2>2
<1>4. CASE /\ Cardinality(SentToday(a)) < DayLimit
           /\ SentToday(a)' \subseteq SentToday(a)
  BY <1>0, <1>2, <1>4, Admitted
<1>5. CASE Inserts(a)
  <2>1. PICK k \in Allowed(a), r \in Requests :
          /\ SentToday(a)' \subseteq SentToday(a) \cup {r}
          /\ Allowed(a)' \subseteq Allowed(a) \ {k}
    BY <1>5 DEF Inserts
  <2> DEFINE U == SentToday(a)'  V == Allowed(a)'
  <2>2. U \in SUBSET (SentToday(a) \cup {r}) /\ V \in SUBSET (Allowed(a) \ {k})
    BY <2>1
  <2> HIDE DEF U, V
  <2>3. /\ Cardinality(U) + Cardinality(V)
           <= Cardinality(SentToday(a)) + Cardinality(Allowed(a))
        /\ Cardinality(U) + Cardinality(V) \in Nat
        /\ Cardinality(SentToday(a)) + Cardinality(Allowed(a)) \in Nat
    BY <1>2, <2>1, <2>2, Exchanged
  <2> QED  BY <1>0, <1>1, <2>3 DEF U, V
<1> QED  BY <1>3, <1>4, <1>5, StepsCount DEF Quiet, Passes

\* Concurrent calls exceed the limit of pending requests by less than their
\* number (routes/connections.py, create_connection).
THEOREM PendingCorrect == Spec => []PendingNearLimit
<1>1. Init => Blank /\ PendingNearLimit
  <2> SUFFICES ASSUME Init PROVE Blank /\ PendingNearLimit
    OBVIOUS
  <2>1. \A a \in Agents :
          Outstanding(a) = {} /\ Passing(a, {"counted", "allowed"}) = {}
    BY DEF Init, NoRequest, NoCall, Outstanding, Passing
  <2>2. PendingLimit \in Nat \ {0} /\ Cardinality(Calls) \in Nat
    BY LimitAssumption, FiniteAssumption, FS_CardinalityType
  <2>3. Blank
    BY DEF Init, NoRequest, Blank
  <2> QED  BY <2>1, <2>2, <2>3, FS_EmptySet DEF PendingNearLimit
<1>2. /\ TypeInv /\ Blank /\ PendingNearLimit /\ [Next]_vars
      => TypeInv' /\ Blank' /\ PendingNearLimit'
  BY TypeStep, BlankStep, PendingStep
<1> QED  BY <1>1, <1>2, TypeInit, PTL DEF Spec

\* The same for the requests of a day.
THEOREM TodayCorrect == Spec => []TodayNearLimit
<1>1. Init => Blank /\ TodayNearLimit
  <2> SUFFICES ASSUME Init PROVE Blank /\ TodayNearLimit
    OBVIOUS
  <2>1. \A a \in Agents : SentToday(a) = {} /\ Passing(a, {"allowed"}) = {}
    BY DEF Init, NoRequest, NoCall, SentToday, Passing
  <2>2. DayLimit \in Nat \ {0} /\ Cardinality(Calls) \in Nat
    BY LimitAssumption, FiniteAssumption, FS_CardinalityType
  <2>3. Blank
    BY DEF Init, NoRequest, Blank
  <2> QED  BY <2>1, <2>2, <2>3, FS_EmptySet DEF TodayNearLimit
<1>2. /\ TypeInv /\ Blank /\ TodayNearLimit /\ [Next]_vars
      => TypeInv' /\ Blank' /\ TodayNearLimit'
  BY TypeStep, BlankStep, TodayStep
<1> QED  BY <1>1, <1>2, TypeInit, PTL DEF Spec

----------------------------------------------------------------------------
(* The counter.                                                            *)

\* What a connect read of the total is no more than was sent.
SeenNotOvercounted ==
    \A k \in Calls :
        calls[k].op = "connect" => calls[k].seen <= Cardinality(From(calls[k].by))

CountInv == SentNotOvercounted /\ SeenNotOvercounted

LEMMA FromGrows ==
    ASSUME TypeInv, [Next]_vars, NEW a \in Agents
    PROVE  /\ Cardinality(From(a)) <= Cardinality(From(a)')
           /\ Cardinality(From(a)) \in Nat /\ Cardinality(From(a)') \in Nat
<1>1. From(a) \in SUBSET From(a)'
  BY MadeForGood DEF From, StaysMade
<1>2. IsFiniteSet(From(a)) /\ IsFiniteSet(From(a)')
  BY CountsFinite
<1> QED  BY <1>1, <1>2, FS_Subset, FS_CardinalityType

\* A step that leaves the totals, or resets one.
LEMMA TotalKept ==
    ASSUME TypeInv, [Next]_vars, CountInv,
           \A a \in Agents : sentTotal'[a] = sentTotal[a] \/ sentTotal'[a] = 0
    PROVE  SentNotOvercounted'
<1> SUFFICES ASSUME NEW a \in Agents
             PROVE  sentTotal'[a] <= Cardinality(From(a)')
  BY DEF SentNotOvercounted
<1>1. sentTotal[a] <= Cardinality(From(a)) /\ sentTotal[a] \in Nat
  BY DEF CountInv, SentNotOvercounted, TypeInv, TypeOK
<1> QED  BY <1>1, FromGrows

\* A step that starts no connect.
LEMMA SeenKept ==
    ASSUME TypeInv, [Next]_vars, CountInv,
           \A k \in Calls :
              calls'[k].op = "connect" =>
                 /\ calls[k].op = "connect"
                 /\ calls'[k].by = calls[k].by /\ calls'[k].seen = calls[k].seen
                 /\ calls[k].by \in Agents
    PROVE  SeenNotOvercounted'
<1> SUFFICES ASSUME NEW k \in Calls, calls'[k].op = "connect"
             PROVE  calls'[k].seen <= Cardinality(
                      {r \in Requests : /\ requests'[r].status # "absent"
                                        /\ requests'[r].from = calls'[k].by})
  BY DEF SeenNotOvercounted, From
<1>0. PICK a \in Agents : a = calls[k].by
  OBVIOUS
<1>1. calls[k].op = "connect" /\ calls'[k].by = a /\ calls'[k].seen = calls[k].seen
  BY <1>0
<1>2. calls[k].seen <= Cardinality(From(a))
  BY <1>0, <1>1 DEF CountInv, SeenNotOvercounted
<1>3. calls[k].seen \in Nat
  BY DEF TypeInv, TypeOK, Call
<1>4. {r \in Requests : /\ requests'[r].status # "absent"
                        /\ requests'[r].from = calls'[k].by} = From(a)'
  BY <1>1 DEF From
<1> QED  BY <1>1, <1>2, <1>3, <1>4, FromGrows

LEMMA CountStep ==
    ASSUME TypeInv, [Next]_vars, CountInv
    PROVE  CountInv'
<1> USE DEF TypeInv, TypeOK
<1>1. ASSUME NEW k \in Calls, NEW a \in Agents, NEW b \in Agents,
             CheckConnect(k, a, b)
      PROVE  CountInv'
  <2>1. SentNotOvercounted'
    BY <1>1, TotalKept DEF CheckConnect
  <2>2. ASSUME NEW j \in Calls, calls'[j].op = "connect"
        PROVE  calls'[j].seen <= Cardinality(
                  {r \in Requests : /\ requests'[r].status # "absent"
                                    /\ requests'[r].from = calls'[j].by})
    <3>1. UNCHANGED requests
      BY <1>1 DEF CheckConnect
    <3>2. CASE j = k
      <4>1. calls'[j].seen = sentTotal[a] /\ calls'[j].by = a
        BY <1>1, <3>2 DEF CheckConnect, NoCall
      <4> QED  BY <3>1, <4>1 DEF CountInv, SentNotOvercounted, From
    <3>3. CASE j # k
      <4>1. calls'[j] = calls[j]
        BY <1>1, <3>3 DEF CheckConnect
      <4> QED
        BY <2>2, <3>1, <4>1 DEF CountInv, SeenNotOvercounted, From
    <3> QED  BY <3>2, <3>3
  <2> QED  BY <2>1, <2>2 DEF CountInv, SeenNotOvercounted, From
<1>2. ASSUME NEW k \in Calls, CommitConnect(k) PROVE CountInv'
  <2>1. SeenNotOvercounted'
    <3>1. \A j \in Calls : calls[j].op = "connect" => calls[j].by \in Agents
      BY DEF PhaseFits, Idle
    <3>2. \A j \in Calls : calls'[j].op = "connect" => calls'[j] = calls[j]
      BY <1>2 DEF CommitConnect, Done, NoCall
    <3> QED  BY <3>1, <3>2, SeenKept
  <2>2. PICK r \in Requests :
          /\ requests[r].status = "absent"
          /\ requests' = [requests EXCEPT
                            ![r] = [status |-> "pending", from |-> calls[k].by,
                                    to |-> calls[k].to, age |-> "today"]]
    BY <1>2 DEF CommitConnect
  <2>3. PICK a \in Agents : a = calls[k].by
    BY <1>2 DEF CommitConnect, Idle
  <2>4. calls[k].seen <= Cardinality(From(a)) /\ calls[k].seen \in Nat
    BY <1>2, <2>3 DEF CommitConnect, CountInv, SeenNotOvercounted, PhaseFits, Call
  <2>5. From(a)' = From(a) \cup {r} /\ r \notin From(a)
    BY <2>2, <2>3 DEF From
  <2>6. Cardinality(From(a)') = Cardinality(From(a)) + 1
    BY <2>5, CountsFinite, FS_AddElement
  <2>7. ASSUME NEW b \in Agents PROVE sentTotal'[b] <= Cardinality(From(b)')
    <3>1. Cardinality(From(b)) <= Cardinality(From(b)')
          /\ Cardinality(From(b)) \in Nat /\ Cardinality(From(b)') \in Nat
      BY FromGrows
    <3>2. CASE b = a
      <4>1. sentTotal'[b] = calls[k].seen + 1
        BY <1>2, <2>3, <3>2 DEF CommitConnect
      <4> QED  BY <2>4, <2>6, <3>1, <3>2, <4>1
    <3>3. CASE b # a
      <4>1. sentTotal'[b] = sentTotal[b] /\ sentTotal[b] \in Nat
        BY <1>2, <2>3, <3>3 DEF CommitConnect
      <4> QED
        BY <3>1, <4>1 DEF CountInv, SentNotOvercounted
    <3> QED  BY <3>2, <3>3
  <2> QED  BY <2>1, <2>7 DEF CountInv, SentNotOvercounted
<1>3. ASSUME NEW k \in Calls,
             \/ CountPending(k) \/ CountToday(k) \/ CommitAccept(k)
             \/ AcceptConflicts(k) \/ CommitAnswer(k) \/ CommitBlock(k)
             \/ BlockConflicts(k)
      PROVE  CountInv'
  <2>1. UNCHANGED sentTotal
    BY <1>3
    DEF CountPending, CountToday, CommitAccept, AcceptConflicts, CommitAnswer,
        CommitBlock, BlockConflicts
  <2>2. \/ calls' = Done(k)
        \/ /\ calls[k].phase \in {"checked", "counted"}
           /\ \E p \in {"counted", "allowed"} :
                 calls' = [calls EXCEPT ![k].phase = p]
    BY <1>3
    DEF CountPending, CountToday, CommitAccept, AcceptConflicts, CommitAnswer,
        CommitBlock, BlockConflicts
  <2>3. ASSUME NEW j \in Calls, calls'[j].op = "connect"
        PROVE  /\ calls[j].op = "connect" /\ calls'[j].by = calls[j].by
               /\ calls'[j].seen = calls[j].seen
    BY <2>2, <2>3 DEF Done, NoCall, Call
  <2>4. \A j \in Calls : calls[j].op = "connect" => calls[j].by \in Agents
    BY DEF PhaseFits, Idle
  <2> QED  BY <2>1, <2>3, <2>4, TotalKept, SeenKept DEF CountInv
<1>4. ASSUME \A a \in Agents : sentTotal'[a] = sentTotal[a] \/ sentTotal'[a] = 0,
             \A j \in Calls : calls'[j].op = "connect" => calls'[j] = calls[j]
      PROVE  CountInv'
  <2>1. \A j \in Calls : calls[j].op = "connect" => calls[j].by \in Agents
    BY DEF PhaseFits, Idle
  <2> QED  BY <1>4, <2>1, TotalKept, SeenKept DEF CountInv
<1>5. ASSUME NEW k \in Calls, NEW op \in {"accept", "reject", "cancel"},
             NEW r \in Requests, NEW a \in Agents, ReadRequest(k, op, r, a)
      PROVE  CountInv'
  BY <1>4, <1>5 DEF ReadRequest, NoCall
<1>6. ASSUME NEW k \in Calls, NEW a \in Agents, NEW b \in Agents,
             ReadForBlock(k, a, b)
      PROVE  CountInv'
  <2>1. /\ \A j \in Calls : j # k => calls'[j] = calls[j]
        /\ calls'[k].op = "block" /\ UNCHANGED sentTotal
    BY <1>6 DEF ReadForBlock, NoCall
  <2> QED  BY <1>4, <2>1
<1>7. ASSUME NEW a \in Agents, DeleteAccount(a) PROVE CountInv'
  BY <1>4, <1>7 DEF DeleteAccount
<1>8. (\/ \E a, b \in Agents : Unblock(a, b)
       \/ \E r \in Requests : SessionEnds(r) \/ SessionReopens(r) \/ Age(r)
       \/ ExpireRequests
       \/ UNCHANGED vars) => UNCHANGED <<calls, sentTotal>>
  BY DEF Unblock, SessionEnds, SessionReopens, Age, ExpireRequests, vars
<1>9. CASE UNCHANGED <<calls, sentTotal>>
  BY <1>4, <1>9
<1> QED
  BY <1>1, <1>2, <1>3, <1>5, <1>6, <1>7, <1>8, <1>9
  DEF Next, NewCall, CallStep

\* No agent is billed more requests than it sent (routes/connections.py,
\* create_connection_request).
THEOREM SentCorrect == Spec => []SentNotOvercounted
<1>1. Init => CountInv
  <2> SUFFICES ASSUME Init PROVE CountInv
    OBVIOUS
  <2>1. \A a \in Agents : From(a) = {}
    BY DEF Init, NoRequest, From
  <2>2. \A k \in Calls : calls[k].op # "connect"
    BY DEF Init, NoCall
  <2>3. \A a \in Agents : sentTotal[a] = 0
    BY DEF Init
  <2> QED
    BY <2>1, <2>2, <2>3, FS_EmptySet
    DEF CountInv, SentNotOvercounted, SeenNotOvercounted
<1>2. CountInv => SentNotOvercounted
  BY DEF CountInv
<1> QED  BY <1>1, <1>2, TypeInit, TypeStep, CountStep, PTL DEF Spec

----------------------------------------------------------------------------
(* Requests and their sessions.                                            *)

\* The sessions a block is to close have been opened.
ClosesOpened ==
    \A k \in Calls, r \in Requests :
        r \in calls[k].closing => sessions[r] # "none"

FitInv == SessionFitsRequest /\ ClosesOpened

LEMMA FitStep ==
    ASSUME TypeInv, FitInv, [Next]_vars
    PROVE  FitInv'
<1> USE DEF TypeInv, TypeOK, FitInv, SessionFitsRequest, ClosesOpened
<1>1. ASSUME NEW k \in Calls, NEW a \in Agents, NEW b \in Agents,
             CheckConnect(k, a, b)
      PROVE  FitInv'
  BY <1>1 DEF CheckConnect, NoCall
<1>2. ASSUME NEW k \in Calls,
             CountPending(k) \/ CountToday(k) \/ AcceptConflicts(k)
             \/ BlockConflicts(k)
      PROVE  FitInv'
  BY <1>2
  DEF CountPending, CountToday, AcceptConflicts, BlockConflicts, Done, NoCall,
      Call
<1>3. ASSUME NEW k \in Calls, CommitConnect(k) PROVE FitInv'
  BY <1>3 DEF CommitConnect, Done, NoCall
<1>4. ASSUME NEW k \in Calls, NEW op \in {"accept", "reject", "cancel"},
             NEW r \in Requests, NEW a \in Agents, ReadRequest(k, op, r, a)
      PROVE  FitInv'
  BY <1>4 DEF ReadRequest, NoCall
<1>5. ASSUME NEW k \in Calls, CommitAccept(k) PROVE FitInv'
  BY <1>5 DEF CommitAccept, Ready, Done, NoCall
<1>6. ASSUME NEW k \in Calls, CommitAnswer(k) PROVE FitInv'
  BY <1>6 DEF CommitAnswer, Ready, Done, NoCall
<1>7. ASSUME NEW k \in Calls, NEW a \in Agents, NEW b \in Agents,
             ReadForBlock(k, a, b)
      PROVE  FitInv'
  <2>1. /\ \A j \in Calls : j # k => calls'[j] = calls[j]
        /\ \A r \in calls'[k].closing : sessions[r] = "open"
        /\ UNCHANGED <<requests, sessions>>
    BY <1>7 DEF ReadForBlock, NoCall
  <2> QED  BY <2>1
<1>8. ASSUME NEW k \in Calls, CommitBlock(k) PROVE FitInv'
  BY <1>8 DEF CommitBlock, Closed, Done, NoCall
<1>9. ASSUME NEW r \in Requests, SessionEnds(r) PROVE FitInv'
  BY <1>9 DEF SessionEnds, Closed
<1>10. ASSUME NEW r \in Requests, Age(r) PROVE FitInv'
  BY <1>10 DEF Age
<1>11. ASSUME NEW a \in Agents, DeleteAccount(a) PROVE FitInv'
  BY <1>11 DEF DeleteAccount, Closed
<1>12. CASE ExpireRequests
  BY <1>12 DEF ExpireRequests, Overdue
<1>13. (\/ \E a, b \in Agents : Unblock(a, b)
        \/ UNCHANGED vars) => UNCHANGED <<requests, sessions, calls>>
  BY DEF Unblock, vars
<1>14. CASE UNCHANGED <<requests, sessions, calls>>
  BY <1>14
<1>15. ASSUME NEW r \in Requests, SessionReopens(r) PROVE FitInv'
  BY <1>15 DEF SessionReopens
<1> QED
  BY <1>1, <1>2, <1>3, <1>4, <1>5, <1>6, <1>7, <1>8, <1>9, <1>10, <1>11,
     <1>12, <1>13, <1>14, <1>15 DEF Next, NewCall, CallStep

\* A request that is open or ran out has no session, an accepted one has one
\* (routes/connections.py, accept_connection_request).
THEOREM FitsCorrect == Spec => []SessionFitsRequest
<1>1. Init => FitInv
  BY DEF Init, NoRequest, NoCall, FitInv, SessionFitsRequest, ClosesOpened
<1>2. FitInv => SessionFitsRequest
  BY DEF FitInv
<1> QED  BY <1>1, <1>2, TypeInit, TypeStep, FitStep, PTL DEF Spec

\* A request opens its session once, however often it is accepted: what opens
\* it again is no answer (models.py, Session.connection_request_id).
THEOREM OpenedCorrect == Spec => OpenedOnce
<1> DEFINE Step == \A r \in Requests :
                     sessions[r] = "closed" /\ sessions'[r] = "open"
                     => UNCHANGED <<requests, calls>>
<1>1. TypeInv /\ [Next]_vars => [Step]_vars
  <2> SUFFICES ASSUME TypeInv, Next, NEW r \in Requests,
                      sessions[r] = "closed", sessions'[r] = "open"
               PROVE  UNCHANGED <<requests, calls>>
    OBVIOUS
  <2> USE DEF TypeInv, TypeOK
  <2>1. ASSUME NEW k \in Calls PROVE ~CommitAccept(k)
    BY DEF CommitAccept, HasNoSession
  <2>2. ASSUME NEW rs PROVE sessions' # Closed(rs)
    BY DEF Closed
  <2>3. \/ \E k \in Calls : CommitAccept(k)
        \/ \E rs : sessions' = Closed(rs)
        \/ \E q \in Requests : SessionReopens(q)
        \/ UNCHANGED sessions
    BY DEF Next, NewCall, CallStep, CheckConnect, CountPending, CountToday,
       CommitConnect, ReadRequest, AcceptConflicts, CommitAnswer, ReadForBlock,
       CommitBlock, BlockConflicts, Unblock, SessionEnds, DeleteAccount, Age,
       ExpireRequests
  <2> QED  BY <2>1, <2>2, <2>3 DEF SessionReopens
<1> QED  BY <1>1, TypeInit, TypeStep, PTL DEF Spec, OpenedOnce

----------------------------------------------------------------------------
(* Answers.                                                                *)

\* The row of r keeps its status, and no call comes to answer it.
Stands(r) ==
    /\ requests'[r].status = requests[r].status
    /\ \A k \in Calls :
          calls'[k].op \in {"accept", "reject", "cancel"} /\ calls'[k].req = r
          => calls'[k] = calls[k]

\* A request that is not pending keeps its status but for a call that is to
\* answer it, and gets no new one.
LEMMA StandsStep ==
    ASSUME TypeInv, [Next]_vars, NEW r \in Requests,
           requests[r].status \in Answers, Answering(r) = {}
    PROVE  Stands(r)
<1> USE DEF TypeInv, TypeOK, Stands
<1>0. requests[r].status \notin {"absent", "pending"}
  BY DEF Answers
<1>a. ASSUME NEW k \in Calls, calls' = Done(k), UNCHANGED requests
      PROVE  Stands(r)
  BY <1>a DEF Done, NoCall
<1>1. ASSUME NEW k \in Calls, NEW a \in Agents, NEW b \in Agents,
             CheckConnect(k, a, b)
      PROVE  Stands(r)
  BY <1>1 DEF CheckConnect, NoCall
<1>2. ASSUME NEW k \in Calls, CountPending(k) \/ CountToday(k) PROVE Stands(r)
  BY <1>2, <1>a DEF CountPending, CountToday, PhaseFits, Call
<1>3. ASSUME NEW k \in Calls, CommitConnect(k) PROVE Stands(r)
  BY <1>3, <1>0 DEF CommitConnect, Done, NoCall
<1>4. ASSUME NEW k \in Calls, NEW op \in {"accept", "reject", "cancel"},
             NEW q \in Requests, NEW a \in Agents, ReadRequest(k, op, q, a)
      PROVE  Stands(r)
  BY <1>4, <1>0 DEF ReadRequest, MayAct, NoCall
<1>5. ASSUME NEW k \in Calls, CommitAccept(k) \/ CommitAnswer(k)
      PROVE  Stands(r)
  <2>1. calls[k].req # r /\ calls' = Done(k)
    BY <1>5 DEF CommitAccept, CommitAnswer, Ready, Answering
  <2>2. requests'[r] = requests[r]
    BY <1>5, <2>1 DEF CommitAccept, CommitAnswer
  <2> QED  BY <2>1, <2>2 DEF Done, NoCall
<1>6. ASSUME NEW k \in Calls,
             AcceptConflicts(k) \/ CommitBlock(k) \/ BlockConflicts(k)
      PROVE  Stands(r)
  BY <1>6, <1>a DEF AcceptConflicts, CommitBlock, BlockConflicts
<1>7. ASSUME NEW k \in Calls, NEW a \in Agents, NEW b \in Agents,
             ReadForBlock(k, a, b)
      PROVE  Stands(r)
  <2>1. /\ \A j \in Calls : j # k => calls'[j] = calls[j]
        /\ calls'[k].op = "block" /\ UNCHANGED requests
    BY <1>7 DEF ReadForBlock, NoCall
  <2> QED  BY <2>1
<1>8. ASSUME NEW q \in Requests, Age(q) PROVE Stands(r)
  BY <1>8 DEF Age, RequestRow
<1>9. CASE ExpireRequests
  BY <1>9, <1>0 DEF ExpireRequests, Overdue
<1>10. (\/ \E a, b \in Agents : Unblock(a, b)
        \/ \E q \in Requests : SessionEnds(q) \/ SessionReopens(q)
        \/ \E a \in Agents : DeleteAccount(a)
        \/ UNCHANGED vars) => UNCHANGED <<requests, calls>>
  BY DEF Unblock, SessionEnds, SessionReopens, DeleteAccount, vars
<1>11. CASE UNCHANGED <<requests, calls>>
  BY <1>11
<1> QED
  BY <1>1, <1>2, <1>3, <1>4, <1>5, <1>6, <1>7, <1>8, <1>9, <1>10, <1>11
  DEF Next, NewCall, CallStep

\* The answer to a request stands once no call that read it before is left
\* (routes/connections.py, jobs.py).
THEOREM AnswerCorrect == Spec => AnswerStands
<1> DEFINE Step == \A r \in Requests :
                     requests[r].status \in Answers /\ Answering(r) = {}
                     => requests'[r].status = requests[r].status
                        /\ Answering(r)' = {}
<1>1. TypeInv /\ [Next]_vars => [Step]_vars
  <2> SUFFICES ASSUME TypeInv, [Next]_vars, NEW r \in Requests,
                      requests[r].status \in Answers, Answering(r) = {}
               PROVE  /\ requests'[r].status = requests[r].status
                      /\ Answering(r)' = {}
    OBVIOUS
  <2>1. Stands(r)
    BY StandsStep
  <2> QED  BY <2>1 DEF Stands, Answering
<1> QED  BY <1>1, TypeInit, TypeStep, PTL DEF Spec, AnswerStands

----------------------------------------------------------------------------
(* The implementation of Introduction.                                     *)

\* A connect is to another agent; who answers a request found it made, and who
\* accepts is the one that was asked; a request that was made has a sender.
IntroInv ==
    /\ \A k \in Calls :
          /\ calls[k].op = "connect" => calls[k].by # calls[k].to
          /\ calls[k].op \in {"accept", "reject", "cancel"} =>
                requests[calls[k].req].status # "absent"
          /\ calls[k].op = "accept" =>
                requests[calls[k].req].to = calls[k].by
    /\ \A r \in Requests :
          requests[r].status = "absent" <=> requests[r].from = None

\* The rows keep their parties.
SameParties ==
    \A r \in Requests :
        /\ requests'[r].from = requests[r].from
        /\ requests'[r].to = requests[r].to
        /\ requests'[r].status = "absent" <=> requests[r].status = "absent"

\* Only a connect gives a row its parties.
LEMMA PartiesStep ==
    ASSUME TypeInv, IntroInv, [Next]_vars
    PROVE  SameParties \/ \E k \in Calls : CommitConnect(k)
<1> USE DEF TypeInv, TypeOK, SameParties
<1>1. ASSUME NEW k \in Calls, CommitAccept(k) PROVE SameParties
  BY <1>1 DEF CommitAccept, Ready, IntroInv, RequestRow
<1>2. ASSUME NEW k \in Calls, CommitAnswer(k) PROVE SameParties
  BY <1>2 DEF CommitAnswer, Ready, IntroInv, RequestRow
<1>3. ASSUME NEW r \in Requests, Age(r) PROVE SameParties
  BY <1>3 DEF Age, RequestRow
<1>4. CASE ExpireRequests
  BY <1>4 DEF ExpireRequests, Overdue, RequestRow
<1>5. CASE UNCHANGED requests
  BY <1>5
<1>6. (\/ \E k \in Calls : NewCall(k)
       \/ \E k \in Calls : \/ CountPending(k) \/ CountToday(k)
                           \/ AcceptConflicts(k) \/ CommitBlock(k)
                           \/ BlockConflicts(k)
       \/ \E a, b \in Agents : Unblock(a, b)
       \/ \E q \in Requests : SessionEnds(q) \/ SessionReopens(q)
       \/ \E a \in Agents : DeleteAccount(a)
       \/ UNCHANGED vars) => UNCHANGED requests
  BY DEF NewCall, CheckConnect, ReadForBlock, ReadRequest, CountPending,
     CountToday, AcceptConflicts, CommitBlock, BlockConflicts, Unblock,
     SessionEnds, SessionReopens, DeleteAccount, vars
<1> QED
  BY <1>1, <1>2, <1>3, <1>4, <1>5, <1>6 DEF Next, CallStep

\* No call starts to connect or to answer, nor changes what it is about.
NothingStarts ==
    \A k \in Calls :
        \/ calls'[k].op \in {"none", "block"}
        \/ /\ calls'[k].op = calls[k].op /\ calls'[k].req = calls[k].req
           /\ calls'[k].by = calls[k].by /\ calls'[k].to = calls[k].to

\* Calls that only go on or end keep to IntroInv.
LEMMA NothingStartsInv ==
    ASSUME TypeInv, IntroInv, SameParties, NothingStarts
    PROVE  IntroInv'
BY NoneAssumption DEF TypeInv, TypeOK, IntroInv, SameParties, NothingStarts

\* Every step keeps to IntroInv.
LEMMA IntroInvStep ==
    ASSUME TypeInv, IntroInv, [Next]_vars
    PROVE  IntroInv'
<1> USE DEF TypeInv, TypeOK
<1>1. ASSUME NEW k \in Calls, NEW a \in Agents, NEW b \in Agents,
             CheckConnect(k, a, b)
      PROVE  IntroInv'
  BY <1>1 DEF CheckConnect, IntroInv, NoCall
<1>2. ASSUME NEW k \in Calls, NEW op \in {"accept", "reject", "cancel"},
             NEW r \in Requests, NEW a \in Agents, ReadRequest(k, op, r, a)
      PROVE  IntroInv'
  BY <1>2 DEF ReadRequest, MayAct, IntroInv, NoCall
<1>3. ASSUME NEW k \in Calls, CommitConnect(k) PROVE IntroInv'
  BY <1>3, NoneAssumption DEF CommitConnect, IntroInv, Done, NoCall, PhaseFits, Idle
<1>4. ASSUME NEW k \in Calls, NEW a \in Agents, NEW b \in Agents,
             ReadForBlock(k, a, b)
      PROVE  NothingStarts
  <2>1. /\ \A j \in Calls : j # k => calls'[j] = calls[j]
        /\ calls'[k].op = "block"
    BY <1>4 DEF ReadForBlock, NoCall
  <2> QED  BY <2>1 DEF NothingStarts
<1>5. ASSUME NEW k \in Calls, CountPending(k) \/ CountToday(k)
      PROVE  NothingStarts
  BY <1>5 DEF CountPending, CountToday, NothingStarts, Done, NoCall, Call
<1>6. ASSUME NEW k \in Calls, calls' = Done(k) PROVE NothingStarts
  BY <1>6 DEF NothingStarts, Done, NoCall
<1>7. ASSUME UNCHANGED calls PROVE NothingStarts
  BY <1>7 DEF NothingStarts
<1>8. \/ \E k \in Calls : CommitConnect(k)
      \/ NothingStarts
      \/ \E k \in Calls, a, b \in Agents : CheckConnect(k, a, b)
      \/ \E k \in Calls, op \in {"accept", "reject", "cancel"},
            r \in Requests, a \in Agents : ReadRequest(k, op, r, a)
  BY <1>4, <1>5, <1>6, <1>7
  DEF Next, NewCall, CallStep, CommitAccept, AcceptConflicts, CommitAnswer,
      CommitBlock, BlockConflicts, Unblock, SessionEnds, SessionReopens,
      DeleteAccount, Age, ExpireRequests, vars
<1> QED
  BY <1>1, <1>2, <1>3, <1>8, PartiesStep, NothingStartsInv

AskerOf == [r \in Requests |-> requests[r].from]
AskedOf == [r \in Requests |-> requests[r].to]

\* The requests whose acceptance is about to be written.
Accepting ==
    {r \in Requests : \E k \in Calls : Ready(k, "accept") /\ calls[k].req = r}

\* Who is accepting is changed by accepts only.
LEMMA AcceptingKept ==
    ASSUME TypeInv, NEW k \in Calls,
           \A j \in Calls : j # k => calls'[j] = calls[j],
           ~Ready(k, "accept"), ~Ready(k, "accept")'
    PROVE  Accepting' = Accepting
BY DEF Accepting, Ready

\* The steps of calls after which the same requests are being accepted.
LEMMA QuietCalls ==
    ASSUME TypeInv, NEW k \in Calls,
           \/ CountPending(k) \/ CountToday(k) \/ CommitConnect(k)
           \/ CommitAnswer(k) \/ CommitBlock(k) \/ BlockConflicts(k)
           \/ \E a, b \in Agents : CheckConnect(k, a, b) \/ ReadForBlock(k, a, b)
           \/ \E op \in {"reject", "cancel"}, r \in Requests, a \in Agents :
                 ReadRequest(k, op, r, a)
    PROVE  Accepting' = Accepting
<1> SUFFICES /\ \A j \in Calls : j # k => calls'[j] = calls[j]
             /\ ~Ready(k, "accept") /\ ~Ready(k, "accept")'
  BY AcceptingKept
<1> USE DEF TypeInv, TypeOK, Ready
<1>1. CASE CountPending(k) \/ CountToday(k)
  BY <1>1 DEF CountPending, CountToday, Done, NoCall, Call
<1>2. CASE \/ CommitConnect(k) \/ CommitAnswer(k)
           \/ CommitBlock(k) \/ BlockConflicts(k)
  <2>1. calls' = Done(k) /\ ~Ready(k, "accept")
    BY <1>2 DEF CommitConnect, CommitAnswer, CommitBlock, BlockConflicts
  <2> QED  BY <2>1 DEF Done, NoCall
<1>3. CASE \E a, b \in Agents : CheckConnect(k, a, b)
  BY <1>3 DEF CheckConnect, Idle, NoCall
<1>4. CASE \E a, b \in Agents : ReadForBlock(k, a, b)
  <2>1. /\ \A j \in Calls : j # k => calls'[j] = calls[j]
        /\ calls'[k].op = "block" /\ calls[k].phase = "idle"
    <3>1. PICK a \in Agents, b \in Agents : ReadForBlock(k, a, b)
      BY <1>4
    <3> QED  BY <3>1 DEF ReadForBlock, Idle, NoCall
  <2> QED  BY <2>1
<1>5. CASE \E op \in {"reject", "cancel"}, r \in Requests, a \in Agents :
              ReadRequest(k, op, r, a)
  BY <1>5 DEF ReadRequest, Idle, NoCall
<1> QED  BY <1>1, <1>2, <1>3, <1>4, <1>5

\* Every step is a step of Introduction or none.
LEMMA IntroStep ==
    ASSUME TypeInv, FitInv, IntroInv, IntroInv', [Next]_vars
    PROVE  [Intro!Next]_(Intro!vars)
<1> DEFINE Parties == <<AskerOf, AskedOf>>
<1> SUFFICES Intro!Next \/ UNCHANGED <<AskerOf, AskedOf, Willing, sessions>>
  BY DEF Intro!vars, AskerOf, AskedOf
<1>0. Willing = Accepting /\ Willing' = Accepting'
  BY DEF IntroInv, Willing, Accepting, Ready
<1>a. SameParties => UNCHANGED <<AskerOf, AskedOf>>
  BY DEF SameParties, AskerOf, AskedOf
<1>1. ASSUME NEW k \in Calls, CommitConnect(k) PROVE Intro!Next
  <2>1. PICK r \in Requests, a \in Agents, b \in Agents :
          /\ a = calls[k].by /\ b = calls[k].to /\ a # b
          /\ requests[r].status = "absent"
          /\ requests' = [requests EXCEPT
                            ![r] = [status |-> "pending", from |-> a,
                                    to |-> b, age |-> "today"]]
    BY <1>1 DEF CommitConnect, IntroInv, TypeInv, TypeOK, PhaseFits, Idle
  <2>2. /\ AskerOf' = [AskerOf EXCEPT ![r] = a]
        /\ AskedOf' = [AskedOf EXCEPT ![r] = b]
        /\ AskerOf[r] = None
    BY <2>1 DEF AskerOf, AskedOf, IntroInv, TypeInv, TypeOK
  <2>3. UNCHANGED <<Willing, sessions>>
    BY <1>0, <1>1, QuietCalls DEF CommitConnect
  <2>4. Intro!Ask(r, a, b)
    BY <2>1, <2>2, <2>3 DEF Intro!Ask, AskerOf, AskedOf
  <2> QED  BY <2>4 DEF Intro!Next
<1>2. ASSUME SameParties, NEW k \in Calls, NEW r \in Requests, NEW a \in Agents,
             ReadRequest(k, "accept", r, a)
      PROVE  Intro!Next
  <2>1. Accepting' = Accepting \cup {r}
    <3>1. /\ ~Ready(k, "accept") /\ Ready(k, "accept")' /\ calls'[k].req = r
          /\ \A j \in Calls : j # k => calls'[j] = calls[j]
      BY <1>2 DEF ReadRequest, Idle, Ready, NoCall, TypeInv, TypeOK
    <3> QED  BY <3>1 DEF Accepting, Ready
  <2>2. requests[r].from # None /\ sessions[r] = "none" /\ UNCHANGED sessions
    BY <1>2
    DEF ReadRequest, MayAct, IntroInv, FitInv, SessionFitsRequest
  <2>3. Intro!Agree(r)
    BY <1>0, <1>2, <1>a, <2>1, <2>2 DEF Intro!Agree, AskerOf, AskedOf
  <2> QED  BY <2>3 DEF Intro!Next
<1>3. ASSUME SameParties, NEW k \in Calls, CommitAccept(k) \/ AcceptConflicts(k)
      PROVE  Intro!Next \/ UNCHANGED <<AskerOf, AskedOf, Willing, sessions>>
  <2>1. PICK r \in Requests : r = calls[k].req /\ r \in Accepting
    BY <1>3
    DEF CommitAccept, AcceptConflicts, Ready, Accepting, TypeInv, TypeOK
  <2>2. Accepting' \in {Accepting, Accepting \ {r}}
    <3>1. /\ Ready(k, "accept") /\ ~Ready(k, "accept")'
          /\ \A j \in Calls : j # k => calls'[j] = calls[j]
      BY <1>3
      DEF CommitAccept, AcceptConflicts, Ready, Done, NoCall, TypeInv, TypeOK
    <3> QED  BY <2>1, <3>1 DEF Accepting, Ready
  <2>3. CASE CommitAccept(k)
    <3>1. Intro!Open(r)
      BY <1>0, <1>3, <1>a, <2>1, <2>2, <2>3
      DEF CommitAccept, HasNoSession, Intro!Open, AskerOf, AskedOf
    <3> QED  BY <3>1 DEF Intro!Next
  <2>4. CASE AcceptConflicts(k)
    <3>1. UNCHANGED sessions
      BY <2>4 DEF AcceptConflicts
    <3> QED
      BY <1>0, <1>3, <1>a, <2>2, <3>1
      DEF Intro!ChangeMind, Intro!Next, AskerOf, AskedOf
  <2> QED  BY <1>3, <2>3, <2>4
<1>4. ASSUME NEW rs \in SUBSET Requests, \A r \in rs : sessions[r] # "none",
             sessions' = Closed(rs), SameParties, Accepting' = Accepting
      PROVE  Intro!Next
  <2>1. Intro!Close(rs)
    BY <1>0, <1>4, <1>a DEF Intro!Close, Closed, AskerOf, AskedOf
  <2> QED  BY <2>1 DEF Intro!Next
<1>5. ASSUME SameParties, NEW k \in Calls, CommitBlock(k) PROVE Intro!Next
  <2>1. /\ calls[k].closing \in SUBSET Requests
        /\ \A r \in calls[k].closing : sessions[r] # "none"
    BY DEF FitInv, ClosesOpened, TypeInv, TypeOK, Call
  <2>2. sessions' = Closed(calls[k].closing) /\ Accepting' = Accepting
    BY <1>5, QuietCalls DEF CommitBlock
  <2> QED  BY <1>4, <1>5, <2>1, <2>2
<1>6. ASSUME UNCHANGED calls PROVE Accepting' = Accepting
  BY <1>6 DEF Accepting, Ready
<1>7. ASSUME SameParties, NEW r \in Requests, SessionEnds(r) PROVE Intro!Next
  BY <1>4, <1>6, <1>7 DEF SessionEnds
<1>8. ASSUME SameParties, NEW a \in Agents, DeleteAccount(a) PROVE Intro!Next
  <2> DEFINE rs == {r \in Requests : sessions[r] = "open" /\ a \in Pair(r)}
  <2>1. sessions' = Closed(rs) /\ UNCHANGED calls
    BY <1>8 DEF DeleteAccount
  <2> QED  BY <1>4, <1>6, <1>8, <2>1
<1>9. ASSUME SameParties, NEW r \in Requests, SessionReopens(r)
      PROVE  Intro!Next
  <2>1. Intro!Reopen(r)
    BY <1>0, <1>6, <1>9, <1>a
    DEF SessionReopens, Intro!Reopen, AskerOf, AskedOf
  <2> QED  BY <2>1 DEF Intro!Next
<1>10. ASSUME SameParties, UNCHANGED <<sessions, calls>>
       PROVE  UNCHANGED <<AskerOf, AskedOf, Willing, sessions>>
  BY <1>0, <1>6, <1>10, <1>a
<1>11. ASSUME SameParties, NEW k \in Calls,
              \/ CountPending(k) \/ CountToday(k) \/ CommitAnswer(k)
              \/ BlockConflicts(k)
              \/ \E a, b \in Agents : CheckConnect(k, a, b) \/ ReadForBlock(k, a, b)
              \/ \E op \in {"reject", "cancel"}, r \in Requests, a \in Agents :
                    ReadRequest(k, op, r, a)
       PROVE  UNCHANGED <<AskerOf, AskedOf, Willing, sessions>>
  <2>1. Accepting' = Accepting
    BY <1>11, QuietCalls
  <2>2. UNCHANGED sessions
    BY <1>11
    DEF CountPending, CountToday, CommitAnswer, BlockConflicts, CheckConnect,
        ReadForBlock, ReadRequest
  <2> QED  BY <1>0, <1>11, <1>a, <2>1, <2>2
<1>12. (\/ \E a, b \in Agents : Unblock(a, b)
        \/ \E r \in Requests : Age(r)
        \/ ExpireRequests
        \/ UNCHANGED vars) => UNCHANGED <<sessions, calls>>
  BY DEF Unblock, Age, ExpireRequests, vars
<1>13. CASE \E k \in Calls : CommitConnect(k)
  BY <1>1, <1>13
<1>14. CASE SameParties
  BY <1>1, <1>2, <1>3, <1>5, <1>7, <1>8, <1>9, <1>10, <1>11, <1>12, <1>14
  DEF Next, NewCall, CallStep
<1> QED
  BY <1>13, <1>14, PartiesStep

\* A session opens for a request between two agents, by the will of the one
\* that was asked; who asked whom never changes (routes/connections.py,
\* accept_connection).
THEOREM ImplementsIntroduction == Spec => IntroSpec
<1>1. Init => FitInv /\ IntroInv /\ Intro!Init
  BY DEF Init, NoRequest, NoCall, FitInv, SessionFitsRequest, ClosesOpened,
     IntroInv, Intro!Init, Willing, Ready
<1>2. TypeInv /\ FitInv /\ IntroInv /\ [Next]_vars
      => FitInv' /\ IntroInv' /\ [Intro!Next]_(Intro!vars)
  BY FitStep, IntroInvStep, IntroStep
<1> QED
  BY <1>1, <1>2, TypeInit, TypeStep, PTL DEF Spec, IntroSpec, Intro!Spec
=============================================================================
