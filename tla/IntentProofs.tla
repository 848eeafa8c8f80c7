----------------------------- MODULE IntentProofs -----------------------------
(***************************************************************************)
(* Proofs about Intents, for any number of intents, calls and other        *)
(* agents, and for any limits.                                             *)
(***************************************************************************)
EXTENDS Intents, FiniteSetTheorems, TLAPS

Exists(i) == intents[i].status # "absent"

\* Calls delete and refresh intents that exist, and an account is deleted with
\* intents that exist.
ReadExists ==
    /\ \A k \in Calls :
          /\ calls[k].op \in {"delete", "refresh"} => Exists(calls[k].intent)
          /\ \A i \in calls[k].rows : Exists(i)
    /\ \A i \in swept : Exists(i)

TypeInv == TypeOK /\ ReadExists

\* The part of the types that is about calls.
CallsFit ==
    /\ calls \in [Calls -> Call]
    /\ \A k \in Calls :
          /\ calls[k].op \in {"delete", "refresh"} =>
                calls[k].intent \in Intents /\ Exists(calls[k].intent)
          /\ calls[k].op = "block" => calls[k].by \in Blockers
          /\ \A i \in calls[k].rows : Exists(i)

\* No row goes.
RowsLast == \A i \in Intents : Exists(i) => Exists(i)'

\* A call that is done, or goes on, leaves the others as they are.
LEMMA DoneFits ==
    ASSUME CallsFit, NEW k \in Calls, calls' = Done(k),
           RowsLast
    PROVE  CallsFit'
BY DEF RowsLast, Exists, CallsFit, Done, NoCall, Call, AllOps, Standings

LEMMA PhaseFits ==
    ASSUME CallsFit, NEW k \in Calls,
           NEW p \in {"counted", "embedding", "checking"},
           calls' = [calls EXCEPT ![k].phase = p],
           RowsLast
    PROVE  CallsFit'
BY DEF RowsLast, Exists, CallsFit, Call

LEMMA DecidedFits ==
    ASSUME CallsFit, NEW k \in Calls, NEW ban \in BOOLEAN,
           calls' = [calls EXCEPT ![k].phase = "decided", ![k].ban = ban],
           UNCHANGED intents
    PROVE  CallsFit'
<1>1. calls[k] \in Call
  BY DEF CallsFit
<1>2. [calls[k] EXCEPT !.phase = "decided", !.ban = ban] \in Call
  BY <1>1 DEF Call
<1>3. calls' = [calls EXCEPT
                  ![k] = [calls[k] EXCEPT !.phase = "decided", !.ban = ban]]
  BY DEF CallsFit
<1> QED  BY <1>1, <1>2, <1>3 DEF CallsFit, Call, Exists

LEMMA CloseFits ==
    ASSUME CallsFit, NEW k \in Calls, UNCHANGED intents,
           CloseIntents(k) \/ CloseBlocks(k)
    PROVE  CallsFit'
<1>0. calls[k] \in Call
  BY DEF CallsFit
<1>1. CASE CloseIntents(k)
  <2> DEFINE rows == Intents \ WithStatus("absent")
             c == [calls[k] EXCEPT !.phase = "erasing", !.rows = rows]
  <2>1. rows \in SUBSET Intents /\ \A i \in rows : Exists(i)
    BY DEF WithStatus, Exists
  <2>2. calls' = [calls EXCEPT ![k] = c]
    BY <1>1 DEF CloseIntents, CallsFit
  <2> HIDE DEF rows
  <2>3. /\ c \in Call /\ c.op = calls[k].op /\ c.intent = calls[k].intent
        /\ c.by = calls[k].by /\ c.rows = rows
    BY <1>0, <2>1 DEF Call
  <2> HIDE DEF c
  <2> QED  BY <2>1, <2>2, <2>3 DEF CallsFit, Exists
<1>2. CASE CloseBlocks(k)
  <2> DEFINE freed == {b \in Blockers : blocked[b] # "no"}
             c == [calls[k] EXCEPT !.phase = "freeing", !.freed = freed]
  <2>1. freed \in SUBSET Blockers
    OBVIOUS
  <2>2. calls' = [calls EXCEPT ![k] = c]
    BY <1>2 DEF CloseBlocks, CallsFit
  <2> HIDE DEF freed
  <2>3. /\ c \in Call /\ c.op = calls[k].op /\ c.intent = calls[k].intent
        /\ c.by = calls[k].by /\ c.rows = calls[k].rows
    BY <1>0, <2>1 DEF Call
  <2> HIDE DEF c
  <2> QED  BY <2>2, <2>3 DEF CallsFit, Exists
<1> QED  BY <1>1, <1>2

\* The maintenance job changes nothing but the status of an intent.
LEMMA MaintenanceRows ==
    ASSUME intents \in [Intents -> Intent], RunMaintenance, NEW i \in Intents
    PROVE  /\ intents'[i].status = Maintained(intents[i])
           /\ intents'[i].age = intents[i].age
<1>1. intents'[i] = [intents[i] EXCEPT !.status = Maintained(intents[i])]
  BY DEF RunMaintenance
<1>2. intents[i] \in Intent
  OBVIOUS
<1>3. ASSUME NEW row \in Intent, NEW status
      PROVE  /\ [row EXCEPT !.status = status].status = status
             /\ [row EXCEPT !.status = status].age = row.age
  BY DEF Intent
<1> QED  BY <1>1, <1>2, <1>3

\* Every step keeps every variable in its type.
LEMMA TypeStep == TypeInv /\ [Next]_vars => TypeInv'
<1> SUFFICES ASSUME TypeInv, [Next]_vars PROVE TypeInv'
  OBVIOUS
<1> USE DEF TypeInv, TypeOK, ReadExists, Exists
<1>0. CallsFit
  BY DEF CallsFit
<1>1. ASSUME NEW k \in Calls, NEW op \in AllOps \ {"delete", "refresh", "block"},
             NEW p \in {"checked", "read", "checking"}, Begin(k, op, p)
      PROVE  TypeInv'
  BY <1>1 DEF Begin, NoCall, Call, AllOps, Standings
<1>2. ASSUME NEW k \in Calls, CheckCreate(k) \/ StartPoll(k) \/ StartConnect(k)
      PROVE  TypeInv'
  BY <1>1, <1>2 DEF CheckCreate, StartPoll, StartConnect, AllOps
<1>3. ASSUME NEW k \in Calls, NEW op \in {"delete", "refresh"}, NEW i \in Intents,
             ReadIntent(k, op, i)
      PROVE  TypeInv'
  <2> DEFINE c == calls'[k]
  <2>1. /\ calls' = [calls EXCEPT ![k] = c] /\ c \in Call
        /\ c.op = op /\ c.intent = i /\ c.rows = {}
    <3> DEFINE b == i \in WithStatus("dormant")
    <3>1. calls' = [calls EXCEPT
                      ![k] = [NoCall EXCEPT !.op = op, !.phase = "read",
                                            !.intent = i, !.asleep = b]]
      BY <1>3 DEF ReadIntent
    <3>2. b \in BOOLEAN
      OBVIOUS
    <3> HIDE DEF b
    <3> QED  BY <3>1, <3>2 DEF NoCall, Call, AllOps, Standings
  <2>2. /\ intents[i].status # "absent"
        /\ UNCHANGED <<agent, intents, blocked, lifted, swept>>
    BY <1>3 DEF ReadIntent
  <2> HIDE DEF c
  <2>3. CallsFit'
    BY <1>0, <2>1, <2>2 DEF CallsFit, Exists
  <2> QED  BY <2>2, <2>3 DEF CallsFit
<1>4. ASSUME NEW k \in Calls, NEW b \in Blockers, StartBlock(k, b)
      PROVE  TypeInv'
  BY <1>4 DEF StartBlock, NoCall, Call, AllOps, Agent
<1>5. ASSUME NEW k \in Calls, StartClose(k) PROVE TypeInv'
  BY <1>5 DEF StartClose, NoCall, Call, AllOps, Agent, Standings
<1>6. ASSUME NEW k \in Calls, GiveUp(k) PROVE TypeInv'
  BY <1>0, <1>6, DoneFits DEF GiveUp, CallsFit, RowsLast
<1>7. ASSUME NEW k \in Calls, CountActive(k) \/ CountToday(k) PROVE TypeInv'
  <2>1. CallsFit'
    BY <1>0, <1>7, PhaseFits DEF CountActive, CountToday, RowsLast
  <2> QED  BY <1>7, <2>1 DEF CountActive, CountToday, CallsFit
<1>8. ASSUME NEW k \in Calls, PersistIntent(k) PROVE TypeInv'
  <2>1. PICK i \in Intents :
          intents' = [intents EXCEPT ![i] = [status |-> "active", age |-> "today"]]
    BY <1>8 DEF PersistIntent, WithStatus
  <2>2. intents' \in [Intents -> Intent]
    BY <2>1 DEF Intent
  <2>3. RowsLast
    BY <2>1 DEF RowsLast
  <2>4. CallsFit'
    BY <1>0, <1>8, <2>3, PhaseFits DEF PersistIntent
  <2> QED  BY <1>8, <2>2, <2>3, <2>4 DEF PersistIntent, CallsFit, RowsLast
<1>9. ASSUME NEW k \in Calls, CommitDelete(k) PROVE TypeInv'
  <2>1. calls[k].intent \in Intents
    BY <1>9 DEF CommitDelete, Ready
  <2>2. intents' \in [Intents -> Intent]
    BY <1>9, <2>1 DEF CommitDelete, Intent
  <2>3. RowsLast
    BY <1>9, <2>1 DEF CommitDelete, RowsLast
  <2>4. CallsFit'
    BY <1>0, <1>9, <2>3, DoneFits DEF CommitDelete
  <2> QED  BY <1>9, <2>2, <2>3, <2>4 DEF CommitDelete, CallsFit, RowsLast
<1>10. ASSUME NEW k \in Calls, CommitRefresh(k) PROVE TypeInv'
  <2>1. calls[k].intent \in Intents /\ intents[calls[k].intent].status # "absent"
    BY <1>10 DEF CommitRefresh, Ready
  <2>2. intents' \in [Intents -> Intent]
    BY <1>10, <2>1 DEF CommitRefresh, Intent
  <2>3. RowsLast
    BY <1>10, <2>1 DEF CommitRefresh, RowsLast
  <2>4. CallsFit'
    BY <1>0, <1>10, <2>3, DoneFits DEF CommitRefresh
  <2> QED  BY <1>10, <2>2, <2>3, <2>4 DEF CommitRefresh, CallsFit, RowsLast
<1>11. ASSUME NEW k \in Calls, CommitPoll(k) PROVE TypeInv'
  <2>1. CallsFit'
    BY <1>0, <1>11, DoneFits DEF CommitPoll, RowsLast
  <2> QED  BY <1>11, <2>1 DEF CommitPoll, CallsFit, Agent
<1>12. ASSUME NEW k \in Calls, DecideBan(k) PROVE TypeInv'
  <2>0. PICK spam \in Spams :
          calls' = [calls EXCEPT
                      ![k].phase = "decided",
                      ![k].ban = /\ MayBeBanned(k)
                                 /\ \/ BlockedTooOften(k)
                                    \/ spam
                                    \/ Cardinality(CreatedToday) > BurstLimit]
    BY <1>12 DEF DecideBan
  <2>1. \E ban \in BOOLEAN :
          calls' = [calls EXCEPT ![k].phase = "decided", ![k].ban = ban]
    BY <2>0
  <2>2. CallsFit'
    BY <1>0, <1>12, <2>1, DecidedFits DEF DecideBan
  <2> QED  BY <1>12, <2>2 DEF DecideBan, CallsFit
<1>13. ASSUME NEW k \in Calls, CommitDecided(k) PROVE TypeInv'
  <2>0. UNCHANGED intents \/ intents' = PutToSleep
    BY <1>13 DEF CommitDecided
  <2>1. RowsLast
    BY <2>0 DEF PutToSleep, Intent, RowsLast
  <2>2. CallsFit'
    BY <1>0, <1>13, <2>1, DoneFits DEF CommitDecided
  <2>3. intents' \in [Intents -> Intent]
    BY <2>0 DEF PutToSleep, Intent
  <2>4. agent' \in Agent
    BY <1>13 DEF CommitDecided, Agent, Standings
  <2>5. blocked' \in [Blockers -> {"no", "recent", "old"}]
    BY <1>13 DEF CommitDecided
  <2>6. swept' \subseteq swept
    BY <1>13 DEF CommitDecided
  <2> QED
    BY <1>13, <2>1, <2>2, <2>3, <2>4, <2>5, <2>6
    DEF CommitDecided, CallsFit, RowsLast
<1>14. ASSUME NEW b \in Blockers, Unblock(b) \/ AgeBlock(b) PROVE TypeInv'
  BY <1>14 DEF Unblock, AgeBlock
<1>15. ASSUME NEW k \in Calls, CommitClose(k) PROVE TypeInv'
  <2>0. calls[k].rows \subseteq Intents
    BY DEF Call
  <2>1. intents' \in [Intents -> Intent]
    BY <1>15 DEF CommitClose, Erased, Intent
  <2>2. agent' \in Agent
    BY <1>15 DEF CommitClose, Agent, Standings
  <2>3. RowsLast
    BY <1>15 DEF CommitClose, Erased, RowsLast
  <2>4. CallsFit'
    BY <1>0, <1>15, <2>3, DoneFits DEF CommitClose
  <2>5. swept' \subseteq Intents /\ \A i \in swept' : Exists(i)'
    BY <1>15, <2>0, <2>3 DEF CommitClose, RowsLast
  <2>6. blocked' \in [Blockers -> {"no", "recent", "old"}] /\ lifted' \in BOOLEAN
    BY <1>15 DEF CommitClose
  <2> QED  BY <2>1, <2>2, <2>4, <2>5, <2>6 DEF CallsFit
<1>22. ASSUME NEW k \in Calls, CloseIntents(k) \/ CloseBlocks(k) PROVE TypeInv'
  <2>1. UNCHANGED <<agent, intents, blocked, lifted, swept>>
    BY <1>22 DEF CloseIntents, CloseBlocks
  <2>2. CallsFit'
    BY <1>0, <1>22, <2>1, CloseFits
  <2> QED  BY <2>1, <2>2 DEF CallsFit
<1>16. CASE HardBan \/ BanRunsOut \/ FallSilent
  BY <1>16 DEF HardBan, BanRunsOut, FallSilent, Agent, Standings
<1>17. ASSUME NEW i \in Intents, Age(i) PROVE TypeInv'
  BY <1>17 DEF Age, Intent
<1>18. CASE RunMaintenance
  <2>1. \A i \in Intents :
          /\ Maintained(intents[i])
                \in {"absent", "active", "dormant", "expired", "deleted"}
          /\ Maintained(intents[i]) = "absent" => intents[i].status = "absent"
    BY DEF Maintained, Intent
  <2>2. intents' \in [Intents -> Intent]
    BY <1>18, <2>1 DEF RunMaintenance, Intent
  <2>3. RowsLast
    <3>1. \A i \in Intents : intents'[i].status = Maintained(intents[i])
      BY <1>18, MaintenanceRows DEF TypeInv, TypeOK
    <3> QED  BY <2>1, <3>1 DEF RowsLast
  <2>4. agent' \in Agent /\ lifted' \in BOOLEAN
    BY <1>18 DEF RunMaintenance, BanIsOver, Agent, Standings
  <2>5. UNCHANGED <<blocked, calls, swept>>
    BY <1>18 DEF RunMaintenance
  <2>6. \A k \in Calls : calls[k].rows \subseteq Intents
    BY DEF Call
  <2>7. CallsFit'
    BY <1>0, <2>3, <2>5, <2>6 DEF CallsFit, RowsLast
  <2>8. swept' \subseteq Intents /\ \A i \in swept' : Exists(i)'
    BY <2>3, <2>5 DEF RowsLast
  <2> QED  BY <2>2, <2>4, <2>5, <2>7, <2>8 DEF CallsFit
<1>19. CASE UNCHANGED vars
  BY <1>19 DEF vars
<1>20. ASSUME NEW k \in Calls, NewCall(k) PROVE TypeInv'
  BY <1>2, <1>3, <1>4, <1>5, <1>20 DEF NewCall
<1>21. ASSUME NEW k \in Calls, CallStep(k) PROVE TypeInv'
  BY <1>6, <1>7, <1>8, <1>9, <1>10, <1>11, <1>12, <1>13, <1>15, <1>21,
     <1>22 DEF CallStep
<1> QED
  BY <1>14, <1>16, <1>17, <1>18, <1>19, <1>20, <1>21 DEF Next

LEMMA TypeInit == Init => TypeInv
<1> SUFFICES ASSUME Init PROVE TypeInv
  OBVIOUS
<1>1. /\ calls \in [Calls -> Call]
      /\ \A k \in Calls : calls[k].op = "none" /\ calls[k].rows = {}
  BY DEF Init, NoCall, Call, AllOps, Standings
<1>2. agent \in Agent /\ intents \in [Intents -> Intent]
  BY DEF Init, Agent, Standings, Intent, NoIntent
<1>3. /\ lifted \in BOOLEAN /\ blocked \in [Blockers -> {"no", "recent", "old"}]
      /\ swept = {}
  BY DEF Init
<1> QED  BY <1>1, <1>2, <1>3 DEF TypeInv, TypeOK, ReadExists

\* Intents, bans and blocks keep to their types (routes/intents.py,
\* moderation.py).
THEOREM TypeCorrect == Spec => []TypeOK
<1>1. TypeInv => TypeOK
  BY DEF TypeInv
<1> QED  BY <1>1, TypeInit, TypeStep, PTL DEF Spec

----------------------------------------------------------------------------
(* Counting: an intent comes for a call that goes, and a call that is let  *)
(* in found room.                                                          *)

\* Neither count grows.
LEMMA Fewer ==
    ASSUME NEW S, NEW T, NEW U \in SUBSET S, NEW V \in SUBSET T,
           IsFiniteSet(S), IsFiniteSet(T)
    PROVE  /\ Cardinality(U) + Cardinality(V) <= Cardinality(S) + Cardinality(T)
           /\ Cardinality(U) + Cardinality(V) \in Nat
           /\ Cardinality(S) + Cardinality(T) \in Nat
<1>1. /\ Cardinality(U) <= Cardinality(S) /\ Cardinality(V) <= Cardinality(T)
      /\ IsFiniteSet(U) /\ IsFiniteSet(V)
  BY FS_Subset
<1>2. /\ Cardinality(U) \in Nat /\ Cardinality(V) \in Nat
      /\ Cardinality(S) \in Nat /\ Cardinality(T) \in Nat
  BY <1>1, FS_CardinalityType
<1> QED  BY <1>1, <1>2

\* A row comes for a call that goes.
LEMMA Exchanged ==
    ASSUME NEW S, NEW T, NEW x, NEW k \in T, NEW U \in SUBSET (S \cup {x}),
           NEW V \in SUBSET (T \ {k}), IsFiniteSet(S), IsFiniteSet(T)
    PROVE  /\ Cardinality(U) + Cardinality(V) <= Cardinality(S) + Cardinality(T)
           /\ Cardinality(U) + Cardinality(V) \in Nat
           /\ Cardinality(S) + Cardinality(T) \in Nat
<1>1. /\ IsFiniteSet(S \cup {x}) /\ IsFiniteSet(T \ {k})
      /\ Cardinality(S \cup {x}) <= Cardinality(S) + 1
      /\ Cardinality(T \ {k}) = Cardinality(T) - 1
  <2>1. Cardinality(S) \in Nat
    BY FS_CardinalityType
  <2>2. /\ IsFiniteSet(S \cup {x})
        /\ Cardinality(S \cup {x})
              = IF x \in S THEN Cardinality(S) ELSE Cardinality(S) + 1
    BY FS_AddElement
  <2>3. /\ IsFiniteSet(T \ {k})
        /\ Cardinality(T \ {k})
              = IF k \in T THEN Cardinality(T) - 1 ELSE Cardinality(T)
    BY FS_RemoveElement
  <2> QED  BY <2>1, <2>2, <2>3
<1>2. /\ Cardinality(S) \in Nat /\ Cardinality(T) \in Nat
      /\ Cardinality(S \cup {x}) \in Nat /\ Cardinality(T \ {k}) \in Nat
  BY <1>1, FS_CardinalityType
<1>3. /\ Cardinality(U) + Cardinality(V)
         <= Cardinality(S \cup {x}) + Cardinality(T \ {k})
      /\ Cardinality(U) + Cardinality(V) \in Nat
  BY <1>1, Fewer
<1> QED  BY <1>1, <1>2, <1>3

\* There was room, and only calls can have been let in.
LEMMA Admitted ==
    ASSUME NEW S, NEW U \in SUBSET S, NEW V \in SUBSET Calls, IsFiniteSet(S),
           NEW limit \in Nat, Cardinality(S) < limit
    PROVE  Cardinality(U) + Cardinality(V) < limit + Cardinality(Calls)
<1>1. /\ Cardinality(U) + Cardinality(V) <= Cardinality(S) + Cardinality(Calls)
      /\ Cardinality(U) + Cardinality(V) \in Nat
      /\ Cardinality(S) \in Nat /\ Cardinality(Calls) \in Nat
  BY FiniteAssumption, Fewer, FS_CardinalityType
<1> QED  BY <1>1

----------------------------------------------------------------------------
(* The limit of a day.                                                     *)

Waiting == {k \in Calls : At(k, "embedding")}

\* Nothing is created and no call begins to wait for the embedder.
Creates ==
    \/ CreatedToday' \subseteq CreatedToday /\ Waiting' \subseteq Waiting
    \/ BelowDayLimit /\ CreatedToday' \subseteq CreatedToday
    \/ \E k \in Waiting, i \in Intents :
          /\ CreatedToday' \subseteq CreatedToday \cup {i}
          /\ Waiting' \subseteq Waiting \ {k}

\* Rows stay, and their time does not run backwards.
LEMMA RowsStay ==
    ASSUME \A i \in Intents :
              /\ intents'[i].status # "absent" => intents[i].status # "absent"
              /\ intents'[i].age = "today" => intents[i].age = "today"
    PROVE  CreatedToday' \subseteq CreatedToday
BY DEF CreatedToday

\* A call that does not go on to the embedder.
LEMMA StopsWaiting ==
    ASSUME NEW k \in Calls, \A j \in Calls \ {k} : calls'[j] = calls[j],
           calls'[k].phase # "embedding"
    PROVE  Waiting' \subseteq Waiting \ {k}
BY DEF Waiting, At

\* Every step makes no intent and lets no call wait, or found room for one, or
\* makes the intent of a call that waited.
LEMMA CreateStep == TypeInv /\ [Next]_vars => Creates
<1> SUFFICES ASSUME TypeInv, [Next]_vars PROVE Creates
  OBVIOUS
<1> USE DEF TypeInv, TypeOK
<1>0. ASSUME UNCHANGED intents PROVE CreatedToday' \subseteq CreatedToday
  BY <1>0, RowsStay
<1>1. ASSUME NEW k \in Calls, NEW op, NEW p \in {"checked", "read", "checking"},
             Begin(k, op, p)
      PROVE  Creates
  <2>1. Waiting' \subseteq Waiting
    BY <1>1, StopsWaiting DEF Begin, NoCall
  <2> QED  BY <1>0, <1>1, <2>1 DEF Begin, Creates
<1>2. ASSUME NEW k \in Calls, NewCall(k) PROVE Creates
  <2>1. CASE CheckCreate(k) \/ StartPoll(k) \/ StartConnect(k)
    BY <1>1, <2>1 DEF CheckCreate, StartPoll, StartConnect
  <2>2. ASSUME NEW op \in {"delete", "refresh"}, NEW i \in Intents,
               ReadIntent(k, op, i)
        PROVE  Creates
    <3>1. Waiting' \subseteq Waiting
      BY <2>2, StopsWaiting DEF ReadIntent, NoCall
    <3> QED  BY <1>0, <2>2, <3>1 DEF ReadIntent, Creates
  <2>3. ASSUME NEW b \in Blockers, StartBlock(k, b) PROVE Creates
    <3>1. Waiting' \subseteq Waiting
      BY <2>3, StopsWaiting DEF StartBlock, NoCall
    <3> QED  BY <1>0, <2>3, <3>1 DEF StartBlock, Creates
  <2>4. CASE StartClose(k)
    <3>1. Waiting' \subseteq Waiting
      BY <2>4, StopsWaiting DEF StartClose, NoCall
    <3> QED  BY <1>0, <2>4, <3>1 DEF StartClose, Creates
  <2> QED  BY <1>2, <2>1, <2>2, <2>3, <2>4 DEF NewCall
<1>3. ASSUME NEW k \in Calls, calls' = Done(k) PROVE Waiting' \subseteq Waiting
  BY <1>3, StopsWaiting DEF Done, NoCall
<1>4. ASSUME NEW k \in Calls, GiveUp(k) \/ CommitPoll(k) PROVE Creates
  BY <1>0, <1>3, <1>4 DEF GiveUp, CommitPoll, Creates
<1>5. ASSUME NEW k \in Calls, CountActive(k) PROVE Creates
  <2>1. Waiting' \subseteq Waiting
    BY <1>5 DEF CountActive, Waiting, At
  <2> QED  BY <1>0, <1>5, <2>1 DEF CountActive, Creates
<1>6. ASSUME NEW k \in Calls, CountToday(k) PROVE Creates
  BY <1>0, <1>6 DEF CountToday, Creates
<1>7. ASSUME NEW k \in Calls, PersistIntent(k) PROVE Creates
  <2>1. PICK i \in Intents :
          intents' = [intents EXCEPT ![i] = [status |-> "active", age |-> "today"]]
    BY <1>7 DEF PersistIntent, WithStatus
  <2>2. CreatedToday' \subseteq CreatedToday \cup {i}
    BY <2>1 DEF CreatedToday
  <2>3. k \in Waiting /\ Waiting' \subseteq Waiting \ {k}
    BY <1>7 DEF PersistIntent, Waiting, At
  <2> QED  BY <2>2, <2>3 DEF Creates
<1>8. ASSUME NEW k \in Calls, CommitDelete(k) PROVE Creates
  <2>1. CreatedToday' \subseteq CreatedToday
    BY <1>8, RowsStay DEF CommitDelete, Ready, ReadExists, Exists
  <2> QED  BY <1>3, <1>8, <2>1 DEF CommitDelete, Creates
<1>9. ASSUME NEW k \in Calls, CommitRefresh(k) PROVE Creates
  <2>1. CreatedToday' \subseteq CreatedToday
    BY <1>9, RowsStay DEF CommitRefresh, Ready, ReadExists, Exists
  <2> QED  BY <1>3, <1>9, <2>1 DEF CommitRefresh, Creates
<1>10. ASSUME NEW k \in Calls, DecideBan(k) PROVE Creates
  <2>1. Waiting' \subseteq Waiting
    BY <1>10 DEF DecideBan, Waiting, At
  <2> QED  BY <1>0, <1>10, <2>1 DEF DecideBan, Creates
<1>11. ASSUME NEW k \in Calls, CommitDecided(k) PROVE Creates
  <2>1. UNCHANGED intents \/ intents' = PutToSleep
    BY <1>11 DEF CommitDecided
  <2>2. \A i \in Intents :
          intents' = PutToSleep => /\ intents'[i].age = intents[i].age
                                   /\ intents'[i].status # "absent" =>
                                         intents[i].status # "absent"
    BY DEF PutToSleep, Found, WithStatus, Intent
  <2>3. CreatedToday' \subseteq CreatedToday
    BY <2>1, <2>2, RowsStay
  <2> QED  BY <1>3, <1>11, <2>3 DEF CommitDecided, Creates
<1>12. ASSUME UNCHANGED calls,
              \A i \in Intents :
                 /\ intents'[i].status # "absent" => intents[i].status # "absent"
                 /\ intents'[i].age = "today" => intents[i].age = "today"
       PROVE  Creates
  BY <1>12, RowsStay DEF Creates, Waiting, At
<1>13. ASSUME NEW b \in Blockers, Unblock(b) \/ AgeBlock(b) PROVE Creates
  BY <1>12, <1>13 DEF Unblock, AgeBlock
<1>14. ASSUME NEW k \in Calls, CommitClose(k) PROVE Creates
  <2>0. \A i \in calls[k].rows : intents[i].status # "absent"
    BY DEF ReadExists, Exists
  <2>1. CreatedToday' \subseteq CreatedToday
    BY <1>14, <2>0, RowsStay DEF CommitClose, Erased, Intent
  <2> QED  BY <1>3, <1>14, <2>1 DEF CommitClose, Creates
<1>15. CASE HardBan \/ BanRunsOut \/ FallSilent
  BY <1>12, <1>15 DEF HardBan, BanRunsOut, FallSilent
<1>16. ASSUME NEW i \in Intents, Age(i) PROVE Creates
  BY <1>12, <1>16 DEF Age
<1>17. CASE RunMaintenance
  <2>1. \A i \in Intents :
          Maintained(intents[i]) # "absent" => intents[i].status # "absent"
    BY DEF Maintained
  <2>2. \A i \in Intents :
          /\ intents'[i].status = Maintained(intents[i])
          /\ intents'[i].age = intents[i].age
    BY <1>17, MaintenanceRows
  <2>3. UNCHANGED calls
    BY <1>17 DEF RunMaintenance
  <2> QED  BY <1>12, <2>1, <2>2, <2>3
<1>18. CASE UNCHANGED vars
  BY <1>12, <1>18 DEF vars
<1>19. ASSUME NEW k \in Calls, CloseIntents(k) \/ CloseBlocks(k) PROVE Creates
  <2>1. Waiting' \subseteq Waiting
    BY <1>19 DEF CloseIntents, CloseBlocks, Waiting, At, Call
  <2> QED  BY <1>0, <1>19, <2>1 DEF CloseIntents, CloseBlocks, Creates
<1> QED
  BY <1>2, <1>4, <1>5, <1>6, <1>7, <1>8, <1>9, <1>10, <1>11, <1>13, <1>14,
     <1>15, <1>16, <1>17, <1>18, <1>19 DEF Next, CallStep

CreatedInv == TypeInv /\ CreatedNearLimit

LEMMA CreatedStep == CreatedInv /\ [Next]_vars => CreatedInv'
<1> SUFFICES ASSUME CreatedInv, [Next]_vars PROVE CreatedInv'
  OBVIOUS
<1>1. TypeInv' /\ Creates
  BY TypeStep, CreateStep DEF CreatedInv
<1>2. /\ IsFiniteSet(CreatedToday) /\ IsFiniteSet(Waiting)
      /\ Cardinality(Calls) \in Nat /\ DayLimit \in Nat
      /\ Waiting' \subseteq Calls
  BY FiniteAssumption, LimitAssumption, FS_Subset, FS_CardinalityType
  DEF CreatedToday, Waiting
<1>3. Cardinality(CreatedToday) + Cardinality(Waiting)
      < DayLimit + Cardinality(Calls)
  BY DEF CreatedInv, CreatedNearLimit, Waiting
<1>4. SUFFICES Cardinality(CreatedToday') + Cardinality(Waiting')
               < DayLimit + Cardinality(Calls)
  BY <1>1 DEF CreatedInv, CreatedNearLimit, Waiting
<1>5. CASE CreatedToday' \subseteq CreatedToday /\ Waiting' \subseteq Waiting
  BY <1>2, <1>3, <1>5, Fewer
<1>6. CASE BelowDayLimit /\ CreatedToday' \subseteq CreatedToday
  BY <1>2, <1>6, Admitted DEF BelowDayLimit
<1>7. ASSUME NEW k \in Waiting, NEW i \in Intents,
             CreatedToday' \subseteq CreatedToday \cup {i},
             Waiting' \subseteq Waiting \ {k}
      PROVE  Cardinality(CreatedToday') + Cardinality(Waiting')
             < DayLimit + Cardinality(Calls)
  <2> DEFINE U == CreatedToday'  V == Waiting'
  <2>1. U \in SUBSET (CreatedToday \cup {i}) /\ V \in SUBSET (Waiting \ {k})
    BY <1>7
  <2> HIDE DEF U, V
  <2>2. /\ Cardinality(U) + Cardinality(V)
           <= Cardinality(CreatedToday) + Cardinality(Waiting)
        /\ Cardinality(U) + Cardinality(V) \in Nat
        /\ Cardinality(CreatedToday) + Cardinality(Waiting) \in Nat
    BY <1>2, <2>1, Exchanged
  <2> QED  BY <1>2, <1>3, <2>2 DEF U, V
<1> QED  BY <1>1, <1>5, <1>6, <1>7 DEF Creates

\* The creates that wait for the embedder at the same time are all that exceeds
\* the limit of a day (routes/intents.py, create_intent).
THEOREM CreatedCorrect == Spec => []CreatedNearLimit
<1>1. Init => CreatedInv
  <2> SUFFICES ASSUME Init PROVE CreatedNearLimit
    BY TypeInit DEF CreatedInv
  <2>1. CreatedToday = {} /\ {k \in Calls : At(k, "embedding")} = {}
    BY DEF Init, NoIntent, NoCall, CreatedToday, At
  <2>2. Cardinality({}) = 0 /\ Cardinality(Calls) \in Nat /\ DayLimit \in Nat \ {0}
    BY FiniteAssumption, LimitAssumption, FS_EmptySet, FS_CardinalityType
  <2> QED  BY <2>1, <2>2 DEF CreatedNearLimit
<1>2. CreatedInv => CreatedNearLimit
  BY DEF CreatedInv
<1> QED  BY <1>1, <1>2, CreatedStep, PTL DEF Spec

BurstFits == Cardinality(CreatedToday) <= BurstLimit

\* The ban for many intents in a day is never decided unless so many creates wait
\* for the embedder: the limit of a day refuses them first (moderation.py,
\* check_and_apply_soft_ban, intent_creation_burst).
THEOREM BurstUnreached ==
    ASSUME DayLimit + Cardinality(Calls) <= BurstLimit + 1
    PROVE  Spec => []BurstFits
<1>1. CreatedNearLimit => BurstFits
  <2>1. IsFiniteSet(CreatedToday) /\ IsFiniteSet({k \in Calls : At(k, "embedding")})
    BY FiniteAssumption, FS_Subset DEF CreatedToday
  <2>2. /\ Cardinality(CreatedToday) \in Nat /\ Cardinality(Calls) \in Nat
        /\ Cardinality({k \in Calls : At(k, "embedding")}) \in Nat
        /\ DayLimit \in Nat /\ BurstLimit \in Nat
    BY <2>1, FiniteAssumption, LimitAssumption, FS_CardinalityType
  <2> QED  BY <2>2 DEF CreatedNearLimit, BurstFits
<1> QED  BY <1>1, CreatedCorrect, PTL

----------------------------------------------------------------------------
(* The limit of blocks.                                                    *)

InService == agent.status = "active" /\ ~lifted

\* The call keeps the agent's row until it commits.
Holds(k) == At(k, "decided") /\ calls[k].op = "block"

\* A block that was read while the agent was in service says so; of the calls
\* that keep the row there is one; and if it decided against a ban, there is
\* room for its block.
BlockInv ==
    /\ InService => \A k \in Calls : calls[k].op = "block" => MayBeBanned(k)
    /\ \A j, k \in Calls : Holds(j) /\ Holds(k) => j = k
    /\ InService =>
          \A k \in Calls :
             At(k, "decided") /\ calls[k].op = "block" /\ ~calls[k].ban =>
                Cardinality(Recent \cup {calls[k].by}) <= BlockLimit
    /\ BlocksWithinLimit

\* Who is in service was so before: a ban is lifted once.
LEMMA ServedBefore == TypeInv /\ [Next]_vars /\ InService' => InService
<1> SUFFICES ASSUME TypeInv, [Next]_vars, InService' PROVE InService
  OBVIOUS
<1> USE DEF InService
<1>1. CASE UNCHANGED <<agent, lifted>>
  BY <1>1
<1>2. ASSUME NEW k \in Calls, CommitPoll(k) \/ CommitDecided(k) PROVE InService
  BY <1>2 DEF CommitPoll, CommitDecided, TypeInv, TypeOK, Agent
<1>3. ASSUME NEW k \in Calls, CommitClose(k) PROVE InService
  BY <1>3 DEF CommitClose
<1>4. CASE HardBan \/ BanRunsOut \/ FallSilent
  BY <1>4 DEF HardBan, BanRunsOut, FallSilent, TypeInv, TypeOK, Agent
<1>5. CASE RunMaintenance
  BY <1>5 DEF RunMaintenance, TypeInv, TypeOK, Agent
<1>6. ASSUME NEW k \in Calls, NewCall(k) PROVE UNCHANGED <<agent, lifted>>
  BY <1>6
  DEF NewCall, CheckCreate, StartPoll, StartConnect, StartClose, Begin, ReadIntent,
      StartBlock
<1>7. ASSUME NEW k \in Calls, CallStep(k), ~CommitPoll(k), ~CommitClose(k),
             ~CommitDecided(k)
      PROVE  UNCHANGED <<agent, lifted>>
  BY <1>7
  DEF CallStep, GiveUp, CountActive, CountToday, PersistIntent, CommitDelete,
      CommitRefresh, DecideBan, CloseIntents, CloseBlocks
<1> QED
  BY <1>1, <1>2, <1>4, <1>5, <1>6, <1>7, <1>3 DEF Next, Age, Unblock, AgeBlock, vars

\* A call whose step is not the decision on a ban.
GoesOn(k) ==
    \/ calls'[k] = calls[k]
    \/ /\ calls'[k].phase # "decided"
       /\ calls'[k].op = "block" =>
             \/ calls'[k].seen = agent.status
             \/ calls[k].op = "block" /\ calls'[k].seen = calls[k].seen

\* Every call goes on, or one decides and the others do nothing.
LEMMA CallSteps ==
    ASSUME TypeInv, [Next]_vars
    PROVE  \/ \A k \in Calls : GoesOn(k)
           \/ \E k \in Calls : /\ DecideBan(k)
                               /\ \A j \in Calls \ {k} : calls'[j] = calls[j]
<1> USE DEF TypeInv, TypeOK
<1>1. CASE UNCHANGED calls
  BY <1>1 DEF GoesOn
<1>2. ASSUME NEW k \in Calls, NewCall(k) PROVE \A j \in Calls : GoesOn(j)
  <2>0. SUFFICES /\ \A j \in Calls \ {k} : calls'[j] = calls[j]
                 /\ calls'[k].phase # "decided"
                 /\ calls'[k].op = "block" => calls'[k].seen = agent.status
    BY <1>2 DEF GoesOn
  <2>1. CASE CheckCreate(k)
    BY <2>1 DEF CheckCreate, Begin, NoCall
  <2>2. CASE StartPoll(k) \/ StartConnect(k)
    BY <2>2 DEF StartPoll, StartConnect, Begin, NoCall
  <2>3. ASSUME NEW op \in {"delete", "refresh"}, NEW i \in Intents,
               ReadIntent(k, op, i)
        PROVE  /\ \A j \in Calls \ {k} : calls'[j] = calls[j]
               /\ calls'[k].phase # "decided" /\ calls'[k].op # "block"
    <3> DEFINE asleep == i \in WithStatus("dormant")
    <3>1. calls' = [calls EXCEPT
                      ![k] = [NoCall EXCEPT !.op = op, !.phase = "read",
                                            !.intent = i, !.asleep = asleep]]
      BY <2>3 DEF ReadIntent
    <3> HIDE DEF asleep
    <3> QED  BY <3>1 DEF NoCall
  <2>4. ASSUME NEW b \in Blockers, StartBlock(k, b)
        PROVE  /\ \A j \in Calls \ {k} : calls'[j] = calls[j]
               /\ calls'[k].phase # "decided" /\ calls'[k].seen = agent.status
    BY <2>4 DEF StartBlock, NoCall
  <2>5. CASE StartClose(k)
    BY <2>5 DEF StartClose, NoCall
  <2> QED  BY <1>2, <2>1, <2>2, <2>3, <2>4, <2>5 DEF NewCall
<1>3. ASSUME NEW k \in Calls, calls' = Done(k) PROVE \A j \in Calls : GoesOn(j)
  BY <1>3 DEF Done, NoCall, GoesOn
<1>4. ASSUME NEW k \in Calls, CountActive(k) \/ CountToday(k) \/ PersistIntent(k)
      PROVE  \A j \in Calls : GoesOn(j)
  BY <1>4 DEF CountActive, CountToday, PersistIntent, Call, GoesOn
<1>5. ASSUME NEW k \in Calls, DecideBan(k)
      PROVE  \A j \in Calls \ {k} : calls'[j] = calls[j]
  BY <1>5 DEF DecideBan
<1>6. ASSUME NEW k \in Calls,
             \/ GiveUp(k) \/ CommitDelete(k) \/ CommitRefresh(k) \/ CommitPoll(k)
             \/ CommitClose(k) \/ CommitDecided(k)
      PROVE  \A j \in Calls : GoesOn(j)
  BY <1>3, <1>6
  DEF GiveUp, CommitDelete, CommitRefresh, CommitPoll, CommitClose, CommitDecided
<1>7. CASE \/ \E i \in Intents : Age(i)
           \/ \E b \in Blockers : Unblock(b) \/ AgeBlock(b)
           \/ HardBan \/ BanRunsOut \/ FallSilent \/ RunMaintenance
           \/ UNCHANGED vars
  BY <1>1, <1>7
  DEF Age, Unblock, AgeBlock, HardBan, BanRunsOut, FallSilent,
      RunMaintenance, vars
<1>8. ASSUME NEW k \in Calls, CloseIntents(k) \/ CloseBlocks(k)
      PROVE  \A j \in Calls : GoesOn(j)
  BY <1>8 DEF CloseIntents, CloseBlocks, Call, GoesOn
<1> QED  BY <1>2, <1>4, <1>5, <1>6, <1>7, <1>8 DEF Next, CallStep

\* No block is added but that of a call that keeps the row and commits, and if
\* the call decided for a ban, the agent is banned with it.
LEMMA BlockSteps ==
    ASSUME TypeInv, [Next]_vars
    PROVE  \/ Recent' \subseteq Recent
           \/ \E k \in Calls :
                 /\ Holds(k) /\ calls[k].op = "block"
                 /\ Recent' \subseteq Recent \cup {calls[k].by}
                 /\ calls' = Done(k)
                 /\ calls[k].ban => agent'.status = "soft_banned"
<1> USE DEF TypeInv, TypeOK, Recent
<1>1. CASE UNCHANGED blocked
  BY <1>1
<1>2. ASSUME NEW k \in Calls, CommitDecided(k), calls[k].op = "block"
      PROVE  /\ Holds(k)
             /\ Recent' \subseteq Recent \cup {calls[k].by}
             /\ calls' = Done(k)
             /\ calls[k].ban => agent'.status = "soft_banned"
  BY <1>2 DEF CommitDecided, Holds, Agent
<1>3. ASSUME NEW k \in Calls, CommitDecided(k), calls[k].op # "block"
      PROVE  UNCHANGED blocked
  BY <1>3 DEF CommitDecided
<1>4. ASSUME NEW b \in Blockers, Unblock(b) \/ AgeBlock(b)
      PROVE  Recent' \subseteq Recent
  BY <1>4 DEF Unblock, AgeBlock
<1>5. ASSUME NEW k \in Calls, CommitClose(k) PROVE Recent' \subseteq Recent
  BY <1>5 DEF CommitClose
<1>6. ASSUME NEW k \in Calls, NewCall(k) PROVE UNCHANGED blocked
  BY <1>6
  DEF NewCall, CheckCreate, StartPoll, StartConnect, StartClose, Begin, ReadIntent,
      StartBlock
<1>7. ASSUME NEW k \in Calls, CallStep(k), ~CommitClose(k), ~CommitDecided(k)
      PROVE  UNCHANGED blocked
  BY <1>7
  DEF CallStep, GiveUp, CountActive, CountToday, PersistIntent, CommitDelete,
      CommitRefresh, CommitPoll, DecideBan, CloseIntents, CloseBlocks
<1>8. CASE \/ \E i \in Intents : Age(i)
           \/ HardBan \/ BanRunsOut \/ FallSilent \/ RunMaintenance
           \/ UNCHANGED vars
  BY <1>8 DEF Age, HardBan, BanRunsOut, FallSilent, RunMaintenance, vars
<1> QED  BY <1>1, <1>2, <1>3, <1>4, <1>5, <1>6, <1>7, <1>8 DEF Next

\* Fewer blocks count less.
LEMMA RecentFits ==
    ASSUME NEW b \in Blockers
    PROVE  /\ Cardinality(Recent \cup {b}) \in Nat
           /\ Cardinality(Recent' \cup {b}) \in Nat
           /\ Cardinality(Recent') \in Nat
           /\ BlockLimit \in Nat
           /\ Recent' \subseteq Recent =>
                 Cardinality(Recent' \cup {b}) <= Cardinality(Recent \cup {b})
           /\ Recent' \subseteq Recent \cup {b} =>
                 Cardinality(Recent') <= Cardinality(Recent \cup {b})
<1> DEFINE S == Recent \cup {b}  U == Recent' \cup {b}  V == Recent'
<1>1. S \subseteq Blockers /\ U \subseteq Blockers /\ V \subseteq U
  BY DEF Recent
<1>2. IsFiniteSet(S) /\ IsFiniteSet(U) /\ IsFiniteSet(V)
  BY <1>1, FiniteAssumption, FS_Subset
<1>3. Recent' \subseteq Recent => U \subseteq S
  OBVIOUS
<1>4. BlockLimit \in Nat
  BY LimitAssumption
<1> HIDE DEF S, U, V
<1>5. Cardinality(S) \in Nat /\ Cardinality(U) \in Nat /\ Cardinality(V) \in Nat
  BY <1>2, FS_CardinalityType
<1>6. /\ U \subseteq S => Cardinality(U) <= Cardinality(S)
      /\ V \subseteq S => Cardinality(V) <= Cardinality(S)
  BY <1>2, FS_Subset
<1> QED  BY <1>3, <1>4, <1>5, <1>6 DEF S, U, V

\* What BlockInv says of one call.
Sees(k) == calls[k].op = "block" => MayBeBanned(k)

HasRoom(k) ==
    At(k, "decided") /\ calls[k].op = "block" /\ ~calls[k].ban =>
        Cardinality(Recent \cup {calls[k].by}) <= BlockLimit

LEMMA Sightings ==
    ASSUME TypeInv, BlockInv, [Next]_vars, InService', NEW k \in Calls
    PROVE  Sees(k)'
<1>0. InService /\ Sees(k)
  BY ServedBefore DEF BlockInv, Sees
<1>1. CASE GoesOn(k)
  BY <1>0, <1>1 DEF GoesOn, Sees, MayBeBanned, InService
<1>2. ASSUME NEW j \in Calls, DecideBan(j) PROVE Sees(k)'
  BY <1>0, <1>2 DEF DecideBan, Sees, MayBeBanned, TypeInv, TypeOK, Call
<1> QED  BY <1>1, <1>2, CallSteps

LEMMA OneHolder ==
    ASSUME TypeInv, BlockInv, [Next]_vars,
           NEW j \in Calls, NEW k \in Calls, Holds(j)', Holds(k)'
    PROVE  j = k
<1>1. ASSUME NEW i \in Calls, GoesOn(i), Holds(i)' PROVE Holds(i)
  BY <1>1 DEF GoesOn, Holds, At
<1>2. ASSUME NEW i \in Calls, DecideBan(i),
             \A h \in Calls \ {i} : calls'[h] = calls[h]
      PROVE  j = k
  <2>1. \A h \in Calls : calls'[h].op = calls[h].op
    BY <1>2 DEF DecideBan, TypeInv, TypeOK, Call
  <2>2. \A h \in Calls \ {i} : Holds(h)' => Holds(h)
    BY <1>2 DEF Holds, At
  <2>3. Holds(i)' => \A h \in Calls : ~Holds(h)
    BY <1>2, <2>1 DEF DecideBan, RowFree, Holds
  <2> QED  BY <2>2, <2>3 DEF BlockInv
<1> QED  BY <1>1, <1>2, CallSteps DEF BlockInv

LEMMA Decisions ==
    ASSUME TypeInv, BlockInv, [Next]_vars, InService', NEW k \in Calls
    PROVE  HasRoom(k)'
<1>0. InService /\ Sees(k) /\ HasRoom(k)
  BY ServedBefore DEF BlockInv, Sees, HasRoom
<1> SUFFICES ASSUME At(k, "decided")', calls'[k].op = "block", ~calls'[k].ban
             PROVE  Cardinality(Recent' \cup {calls'[k].by}) <= BlockLimit
  BY DEF HasRoom
<1>1. CASE calls'[k] = calls[k]
  <2>1. Holds(k)
    BY <1>1 DEF Holds, At
  <2>5. calls[k].by \in Blockers
    BY <2>1 DEF Holds, TypeInv, TypeOK
  <2>2. \A j \in Calls : calls' = Done(j) => ~Holds(j)
    <3> SUFFICES ASSUME NEW j \in Calls, calls' = Done(j), Holds(j) PROVE FALSE
      OBVIOUS
    <3>1. j = k
      BY <2>1 DEF BlockInv
    <3> QED  BY <1>1, <2>1, <3>1 DEF Done, NoCall, Holds, At, TypeInv, TypeOK
  <2>3. Recent' \subseteq Recent
    BY <2>2, BlockSteps
  <2>4. Cardinality(Recent \cup {calls[k].by}) <= BlockLimit
    BY <1>0, <1>1 DEF HasRoom, At
  <2>6. Cardinality(Recent' \cup {calls[k].by})
          <= Cardinality(Recent \cup {calls[k].by})
    BY <2>3, <2>5, RecentFits
  <2>7. /\ Cardinality(Recent \cup {calls[k].by}) \in Nat
        /\ Cardinality(Recent' \cup {calls[k].by}) \in Nat
        /\ BlockLimit \in Nat
    BY <2>5, RecentFits
  <2> QED  BY <1>1, <2>4, <2>6, <2>7
<1>2. CASE DecideBan(k)
  <2>1. calls'[k].by = calls[k].by /\ calls'[k].op = calls[k].op /\ Recent' = Recent
    BY <1>2 DEF DecideBan, TypeInv, TypeOK, Call, Recent
  <2>2. ~BlockedTooOften(k)
    BY <1>0, <1>2, <2>1 DEF DecideBan, TypeInv, TypeOK, Call, Sees
  <2>3. calls[k].by \in Blockers /\ {calls[k].by} \ {None} = {calls[k].by}
    BY <2>1, NoneAssumption DEF TypeInv, TypeOK
  <2> QED  BY <2>1, <2>2, <2>3, RecentFits DEF BlockedTooOften
<1> QED  BY <1>1, <1>2, CallSteps DEF GoesOn, At

LEMMA BlockStep == TypeInv /\ BlockInv /\ [Next]_vars => BlockInv'
<1> SUFFICES ASSUME TypeInv, BlockInv, [Next]_vars PROVE BlockInv'
  OBVIOUS
<1>1. InService' => \A k \in Calls : Sees(k)' /\ HasRoom(k)'
  BY Sightings, Decisions
<1>2. \A j, k \in Calls : Holds(j)' /\ Holds(k)' => j = k
  BY OneHolder
<1>3. ASSUME InService' PROVE Cardinality(Recent') <= BlockLimit
  <2>1. InService /\ Cardinality(Recent) <= BlockLimit
    BY <1>3, ServedBefore DEF BlockInv, BlocksWithinLimit, InService
  <2>2. CASE Recent' \subseteq Recent
    <3> DEFINE U == Recent'
    <3>1. IsFiniteSet(Recent) /\ U \subseteq Recent
      BY <2>2, FiniteAssumption, FS_Subset DEF Recent
    <3> HIDE DEF U
    <3>2. Cardinality(U) <= Cardinality(Recent) /\ Cardinality(U) \in Nat
          /\ Cardinality(Recent) \in Nat
      BY <3>1, FS_Subset, FS_CardinalityType
    <3> QED  BY <2>1, <3>2, LimitAssumption DEF U
  <2>3. ASSUME NEW k \in Calls, Holds(k), calls[k].op = "block",
               Recent' \subseteq Recent \cup {calls[k].by},
               calls[k].ban => agent'.status = "soft_banned"
        PROVE  Cardinality(Recent') <= BlockLimit
    <3>1. calls[k].by \in Blockers
      BY <2>3 DEF TypeInv, TypeOK
    <3>2. ~calls[k].ban
      BY <1>3, <2>3 DEF InService
    <3>3. Cardinality(Recent \cup {calls[k].by}) <= BlockLimit
      BY <2>1, <2>3, <3>2 DEF BlockInv, Holds
    <3> DEFINE b == calls[k].by  n == Cardinality(Recent')
    <3>4. /\ n <= Cardinality(Recent \cup {b}) /\ n \in Nat /\ BlockLimit \in Nat
          /\ Cardinality(Recent \cup {b}) \in Nat
      BY <2>3, <3>1, RecentFits
    <3> HIDE DEF n
    <3>5. n <= BlockLimit
      BY <3>3, <3>4
    <3> QED  BY <3>5 DEF n
  <2> QED  BY <2>2, <2>3, BlockSteps
<1> QED
  BY <1>1, <1>2, <1>3
  DEF BlockInv, BlocksWithinLimit, InService, Sees, HasRoom

LEMMA BlockInit == Init => BlockInv
<1> SUFFICES ASSUME Init PROVE BlockInv
  OBVIOUS
<1>1. Recent = {} /\ \A k \in Calls : calls[k].op = "none"
  BY DEF Init, Recent, NoCall
<1>2. Cardinality({}) <= BlockLimit
  BY FS_EmptySet, LimitAssumption
<1> QED  BY <1>1, <1>2 DEF BlockInv, Holds, BlocksWithinLimit

\* However blocks of an agent overlap, one of them bans it when it has too many
\* (moderation.py, check_and_apply_soft_ban; routes/blocks.py, block_agent).
THEOREM BlocksCorrect == Spec => []BlocksWithinLimit
<1>1. BlockInv => BlocksWithinLimit
  BY DEF BlockInv
<1> QED
  BY <1>1, TypeInit, TypeStep, BlockInit, BlockStep, PTL DEF Spec

----------------------------------------------------------------------------
(* What a deleted account leaves.                                          *)

Leftover == Live \cap swept

\* Nothing that was swept comes back to life, or all of it is deleted, or the
\* agent is not, or a refresh wakes an intent.
Revives ==
    \/ agent'.status # "deleted"
    \/ Leftover' = {} /\ \E k \in Calls : Refreshing' \subseteq Calls \ {k}
    \/ /\ agent.status = "deleted"
       /\ Leftover' \subseteq Leftover /\ Refreshing' \subseteq Refreshing
    \/ /\ agent.status = "deleted"
       /\ \E k \in Refreshing, i \in Intents :
             /\ Leftover' \subseteq Leftover \cup {i}
             /\ Refreshing' \subseteq Refreshing \ {k}

LEMMA StopsRefreshing ==
    ASSUME NEW k \in Calls, \A j \in Calls \ {k} : calls'[j] = calls[j],
           k \notin Refreshing'
    PROVE  Refreshing' \subseteq Refreshing \ {k}
BY DEF Refreshing, Ready, At

LEMMA ReviveStep == TypeInv /\ [Next]_vars => Revives
<1> SUFFICES ASSUME TypeInv, [Next]_vars PROVE Revives
  OBVIOUS
<1> USE DEF TypeInv, TypeOK
<1>0. ASSUME UNCHANGED <<intents, swept>> PROVE Leftover' = Leftover
  BY <1>0 DEF Leftover, Live, Found, WithStatus
<1>1. ASSUME UNCHANGED agent, Leftover' \subseteq Leftover,
             Refreshing' \subseteq Refreshing
      PROVE  Revives
  BY <1>1 DEF Revives
<1>2. ASSUME NEW k \in Calls, calls' = Done(k)
      PROVE  Refreshing' \subseteq Refreshing \ {k}
  <2>1. k \notin Refreshing'
    BY <1>2 DEF Done, NoCall, Refreshing, Ready, At
  <2> QED  BY <1>2, <2>1, StopsRefreshing DEF Done
<1>3. ASSUME UNCHANGED calls PROVE Refreshing' = Refreshing
  BY <1>3 DEF Refreshing, Ready, At
<1>4. ASSUME NEW k \in Calls, NewCall(k) PROVE Revives
  <2>1. CASE CheckCreate(k) \/ StartPoll(k) \/ StartConnect(k)
    BY <2>1
    DEF CheckCreate, StartPoll, StartConnect, Begin, CanMutate, Signed, Revives
  <2>2. ASSUME NEW op, NEW i, ReadIntent(k, op, i) PROVE Revives
    BY <2>2 DEF ReadIntent, CanMutate, Signed, Revives
  <2>3. ASSUME NEW b \in Blockers, StartBlock(k, b) PROVE Revives
    <3>1. k \notin Refreshing'
      BY <2>3 DEF StartBlock, NoCall, Refreshing, Ready, At
    <3>2. Refreshing' \subseteq Refreshing
      BY <2>3, <3>1, StopsRefreshing DEF StartBlock
    <3> QED  BY <1>0, <1>1, <2>3, <3>2 DEF StartBlock
  <2>4. CASE StartClose(k)
    BY <2>4 DEF StartClose, Signed, Revives
  <2> QED  BY <1>4, <2>1, <2>2, <2>3, <2>4 DEF NewCall
<1>5. ASSUME NEW k \in Calls, GiveUp(k) PROVE Revives
  BY <1>0, <1>1, <1>2, <1>5 DEF GiveUp
<1>6. ASSUME NEW k \in Calls, CommitPoll(k) PROVE Revives
  <2>1. agent'.status = agent.status
    BY <1>6 DEF CommitPoll, Agent
  <2> QED  BY <1>0, <1>2, <1>6, <2>1 DEF CommitPoll, Revives
<1>7. ASSUME NEW k \in Calls, \A j \in Calls \ {k} : calls'[j] = calls[j],
             calls'[k].phase # "read"
      PROVE  Refreshing' \subseteq Refreshing
  BY <1>7, StopsRefreshing DEF Refreshing, Ready, At
<1>8. ASSUME NEW k \in Calls, CountActive(k) \/ CountToday(k) PROVE Revives
  <2>1. Refreshing' \subseteq Refreshing
    BY <1>7, <1>8 DEF CountActive, CountToday, Call
  <2> QED  BY <1>0, <1>1, <1>8, <2>1 DEF CountActive, CountToday
<1>9. ASSUME NEW k \in Calls, PersistIntent(k) PROVE Revives
  <2>1. PICK i \in Intents :
          /\ intents[i].status = "absent"
          /\ intents' = [intents EXCEPT ![i] = [status |-> "active", age |-> "today"]]
    BY <1>9 DEF PersistIntent, WithStatus
  <2>2. i \notin swept /\ UNCHANGED <<agent, swept>>
    BY <1>9, <2>1 DEF ReadExists, Exists, PersistIntent
  <2>3. Leftover' \subseteq Leftover
    BY <2>1, <2>2 DEF Leftover, Live, Found, WithStatus
  <2>4. Refreshing' \subseteq Refreshing
    BY <1>7, <1>9 DEF PersistIntent, Call
  <2> QED  BY <1>1, <2>2, <2>3, <2>4
<1>10. ASSUME NEW k \in Calls, CommitDelete(k) PROVE Revives
  <2>1. Leftover' \subseteq Leftover
    BY <1>10 DEF CommitDelete, Ready, Leftover, Live, Found, WithStatus, Intent
  <2> QED  BY <1>1, <1>2, <1>10, <2>1 DEF CommitDelete
<1>11. ASSUME NEW k \in Calls, CommitRefresh(k) PROVE Revives
  <2>1. calls[k].intent \in Intents /\ k \in Calls
    BY <1>11 DEF CommitRefresh, Ready
  <2>2. CASE calls[k].asleep
    <3>1. Leftover' \subseteq Leftover \cup {calls[k].intent}
      BY <1>11 DEF CommitRefresh, Leftover, Live, Found, WithStatus
    <3>2. k \in Refreshing
      BY <1>11, <2>2 DEF CommitRefresh, Refreshing
    <3> QED  BY <1>2, <1>11, <2>1, <3>1, <3>2 DEF CommitRefresh, Revives
  <2>3. CASE ~calls[k].asleep
    <3>1. \A i \in Intents : intents'[i].status = intents[i].status
      BY <1>11, <2>3 DEF CommitRefresh
    <3>2. Leftover' \subseteq Leftover
      BY <1>11, <3>1 DEF CommitRefresh, Leftover, Live, Found, WithStatus
    <3> QED  BY <1>1, <1>2, <1>11, <3>2 DEF CommitRefresh
  <2> QED  BY <2>2, <2>3
<1>12. ASSUME NEW k \in Calls, DecideBan(k) PROVE Revives
  <2>1. Refreshing' \subseteq Refreshing
    BY <1>7, <1>12 DEF DecideBan, Call
  <2> QED  BY <1>0, <1>1, <1>12, <2>1 DEF DecideBan
<1>13. ASSUME NEW k \in Calls, CommitDecided(k) PROVE Revives
  <2>1. CASE calls[k].ban
    <3>1. agent' = [agent EXCEPT !.status = "soft_banned", !.lifts = "later"]
      BY <1>13, <2>1 DEF CommitDecided
    <3>2. agent'.status = "soft_banned"
      BY <3>1 DEF Agent
    <3> QED  BY <3>2 DEF Revives
  <2>2. CASE ~calls[k].ban
    BY <1>0, <1>1, <1>2, <1>13, <2>2 DEF CommitDecided
  <2> QED  BY <2>1, <2>2
<1>14. ASSUME NEW b \in Blockers, Unblock(b) \/ AgeBlock(b) PROVE Revives
  BY <1>0, <1>1, <1>3, <1>14 DEF Unblock, AgeBlock
<1>15. ASSUME NEW k \in Calls, CloseIntents(k) \/ CloseBlocks(k) PROVE Revives
  <2>1. Refreshing' \subseteq Refreshing
    BY <1>7, <1>15 DEF CloseIntents, CloseBlocks, Call
  <2> QED  BY <1>0, <1>1, <1>15, <2>1 DEF CloseIntents, CloseBlocks
<1>16. ASSUME NEW k \in Calls, CommitClose(k) PROVE Revives
  <2>1. \A i \in swept' : intents'[i].status = "deleted"
    BY <1>16 DEF CommitClose, Erased, Intent, Call
  <2>2. Leftover' = {}
    BY <2>1 DEF Leftover, Live, Found, WithStatus
  <2>3. Refreshing' \subseteq Refreshing \ {k}
    BY <1>2, <1>16 DEF CommitClose
  <2>4. Refreshing' \subseteq Calls \ {k}
    BY <2>3 DEF Refreshing
  <2> QED  BY <2>2, <2>4 DEF Revives
<1>17. CASE HardBan
  BY <1>17 DEF HardBan, Agent, Revives
<1>18. CASE BanRunsOut \/ FallSilent
  <2>1. agent'.status = agent.status
    BY <1>18 DEF BanRunsOut, FallSilent, Agent
  <2> QED  BY <1>0, <1>3, <1>18, <2>1 DEF BanRunsOut, FallSilent, Revives
<1>19. ASSUME NEW i \in Intents, Age(i) PROVE Revives
  <2>1. \A j \in Intents : intents'[j].status = intents[j].status
    BY <1>19 DEF Age, Intent
  <2>2. Leftover' \subseteq Leftover
    BY <1>19, <2>1 DEF Age, Leftover, Live, Found, WithStatus
  <2> QED  BY <1>1, <1>3, <1>19, <2>2 DEF Age
<1>20. CASE RunMaintenance
  <2>1. \A i \in Intents : intents'[i].status = Maintained(intents[i])
    BY <1>20, MaintenanceRows
  <2>2. Leftover' \subseteq Leftover
    BY <1>20, <2>1
    DEF RunMaintenance, Maintained, Leftover, Live, Found, WithStatus
  <2>3. agent'.status # "deleted" \/ agent.status = "deleted"
    BY <1>20 DEF RunMaintenance, Agent
  <2> QED  BY <1>3, <1>20, <2>2, <2>3 DEF RunMaintenance, Revives
<1>21. CASE UNCHANGED vars
  BY <1>0, <1>1, <1>3, <1>21 DEF vars
<1> QED
  BY <1>4, <1>5, <1>6, <1>8, <1>9, <1>10, <1>11, <1>12, <1>13, <1>14,
     <1>15, <1>16, <1>17, <1>18, <1>19, <1>20, <1>21 DEF Next, CallStep

LEMMA LeftoverStep == TypeInv /\ LeftoversAreFew /\ [Next]_vars => LeftoversAreFew'
<1> SUFFICES ASSUME TypeInv, LeftoversAreFew, [Next]_vars, agent'.status = "deleted"
             PROVE  Cardinality(Leftover') + Cardinality(Refreshing')
                    < Cardinality(Calls)
  BY DEF LeftoversAreFew, Leftover
<1>1. Revives
  BY ReviveStep
<1>2. /\ IsFiniteSet(Leftover) /\ IsFiniteSet(Refreshing) /\ IsFiniteSet(Calls)
      /\ Cardinality(Calls) \in Nat
  BY FiniteAssumption, FS_Subset, FS_CardinalityType
  DEF Leftover, Live, Found, WithStatus, Refreshing
<1> DEFINE U == Leftover'  V == Refreshing'
<1>3. ASSUME U = {}, NEW k \in Calls, V \subseteq Calls \ {k}
      PROVE  Cardinality(U) + Cardinality(V) < Cardinality(Calls)
  <2> HIDE DEF U, V
  <2>1. Cardinality({}) = 0 /\ IsFiniteSet({})
    BY FS_EmptySet
  <2>2. /\ IsFiniteSet(Calls \ {k})
        /\ Cardinality(Calls \ {k}) = Cardinality(Calls) - 1
    BY <1>2, FS_RemoveElement
  <2>3. Cardinality(V) <= Cardinality(Calls \ {k}) /\ Cardinality(V) \in Nat
    BY <1>3, <2>2, FS_Subset, FS_CardinalityType
  <2> QED  BY <1>2, <1>3, <2>1, <2>2, <2>3 DEF U, V
<1>4. CASE agent.status = "deleted" /\ U \subseteq Leftover /\ V \subseteq Refreshing
  <2> HIDE DEF U, V
  <2>1. /\ Cardinality(U) + Cardinality(V)
           <= Cardinality(Leftover) + Cardinality(Refreshing)
        /\ Cardinality(U) + Cardinality(V) \in Nat
        /\ Cardinality(Leftover) + Cardinality(Refreshing) \in Nat
    BY <1>2, <1>4, Fewer
  <2> QED  BY <1>2, <1>4, <2>1 DEF LeftoversAreFew, Leftover, U, V
<1>5. ASSUME agent.status = "deleted", NEW k \in Refreshing, NEW i \in Intents,
             U \subseteq Leftover \cup {i}, V \subseteq Refreshing \ {k}
      PROVE  Cardinality(U) + Cardinality(V) < Cardinality(Calls)
  <2> HIDE DEF U, V
  <2>0. U \in SUBSET (Leftover \cup {i}) /\ V \in SUBSET (Refreshing \ {k})
    BY <1>5
  <2>1. /\ Cardinality(U) + Cardinality(V)
           <= Cardinality(Leftover) + Cardinality(Refreshing)
        /\ Cardinality(U) + Cardinality(V) \in Nat
        /\ Cardinality(Leftover) + Cardinality(Refreshing) \in Nat
    BY <1>2, <1>5, <2>0, Exchanged
  <2> QED  BY <1>2, <1>5, <2>1 DEF LeftoversAreFew, Leftover
<1> QED  BY <1>1, <1>3, <1>4, <1>5 DEF Revives

\* Of the intents that the deletion of an account found, at most one lives on for
\* every refresh that was in progress when it committed (routes/agents.py,
\* delete_agent_account; routes/intents.py, refresh_owned_intent).
THEOREM LeftoversCorrect == Spec => []LeftoversAreFew
<1>1. Init => LeftoversAreFew
  BY DEF Init, LeftoversAreFew
<1> QED  BY <1>1, TypeInit, TypeStep, LeftoverStep, PTL DEF Spec

----------------------------------------------------------------------------
(* The standing of the agent, and the calls that trust it.                 *)

\* What a call has become by the time it decides on a ban.
Judges(k) ==
    /\ calls[k].phase \in {"checked", "counted", "embedding"} =>
          calls[k].op = "create"
    /\ calls[k].phase \in {"checking", "decided"} =>
          calls[k].op \in {"create", "connect", "block"}
    /\ At(k, "decided") /\ calls[k].ban => calls[k].seen = "active"
    /\ calls[k].phase \in {"erasing", "freeing"} => calls[k].op = "close"

StandInv == \A k \in Calls : Judges(k)

\* A call that does nothing else to Trusting than join it or leave it.
LEMMA OneTurn ==
    ASSUME StandInv, NEW k \in Calls,
           \A j \in Calls \ {k} : calls'[j] = calls[j], Judges(k)'
    PROVE  /\ StandInv'
           /\ k \in Trusting' => Trusting' = Trusting \cup {k}
           /\ k \notin Trusting' => Trusting' = Trusting \ {k}
BY DEF StandInv, Judges, Trusting, At

\* A call that begins, or is over, or decides on a ban while the agent keeps its
\* standing: it is trusting from then on only if it was or the agent is active.
LEMMA Turns ==
    ASSUME TypeInv, StandInv, NEW k \in Calls,
           \A j \in Calls \ {k} : calls'[j] = calls[j], Judges(k)',
           agent'.status = agent.status,
           k \in Trusting' => k \in Trusting \/ agent.status = "active"
    PROVE  StandInv' /\ [Stand!Next]_(Stand!vars)
<1>1. /\ StandInv'
      /\ k \in Trusting' => Trusting' = Trusting \cup {k}
      /\ k \notin Trusting' => Trusting' = Trusting \ {k}
  BY OneTurn
<1> HIDE DEF StandInv
<1> DEFINE T == Trusting  U == Trusting'
<1>2. CASE k \in U /\ k \in T
  BY <1>1, <1>2 DEF Stand!vars
<1>3. CASE k \in U /\ agent.status = "active"
  BY <1>1, <1>3 DEF Stand!Next, Stand!Trust
<1>4. CASE k \notin U
  BY <1>1, <1>4 DEF Stand!Next, Stand!Acquit
<1> QED  BY <1>1, <1>2, <1>3, <1>4

\* Calls that no step touches stay as they are.
LEMMA NoTurn ==
    ASSUME StandInv, UNCHANGED calls
    PROVE  StandInv' /\ Trusting' = Trusting
BY DEF StandInv, Judges, Trusting, At

LEMMA StandStep ==
    TypeInv /\ StandInv /\ [Next]_vars => StandInv' /\ [Stand!Next]_(Stand!vars)
<1> SUFFICES ASSUME TypeInv, StandInv, [Next]_vars
             PROVE  StandInv' /\ [Stand!Next]_(Stand!vars)
  OBVIOUS
<1> USE DEF TypeInv, TypeOK
<1>0. \A k \in Calls : Judges(k)
  BY DEF StandInv
<1>1. ASSUME NEW k \in Calls, calls' = Done(k)
      PROVE  /\ \A j \in Calls \ {k} : calls'[j] = calls[j]
             /\ Judges(k)' /\ k \notin Trusting'
  BY <1>1 DEF Done, NoCall, Judges, Trusting, At
<1>2. ASSUME NEW k \in Calls, CheckCreate(k) \/ StartPoll(k) \/ StartConnect(k)
      PROVE  StandInv' /\ [Stand!Next]_(Stand!vars)
  <2>1. /\ \A j \in Calls \ {k} : calls'[j] = calls[j]
        /\ Judges(k)' /\ UNCHANGED agent
    BY <1>2 DEF CheckCreate, StartPoll, StartConnect, Begin, NoCall, Judges, At
  <2>2. k \in Trusting' => agent.status = "active"
    BY <1>2 DEF CheckCreate, StartPoll, StartConnect, CanMutate, Signed, Begin,
                NoCall, Trusting, Agent, Standings
  <2> QED  BY <2>1, <2>2, Turns
<1>3. ASSUME NEW k \in Calls, NEW op \in {"delete", "refresh"}, NEW i \in Intents,
             ReadIntent(k, op, i)
      PROVE  StandInv' /\ [Stand!Next]_(Stand!vars)
  <2> DEFINE asleep == i \in WithStatus("dormant")
  <2>1. /\ calls' = [calls EXCEPT
                       ![k] = [NoCall EXCEPT !.op = op, !.phase = "read",
                                             !.intent = i, !.asleep = asleep]]
        /\ UNCHANGED agent
    BY <1>3 DEF ReadIntent
  <2> HIDE DEF asleep
  <2>2. /\ \A j \in Calls \ {k} : calls'[j] = calls[j]
        /\ Judges(k)' /\ k \notin Trusting'
    BY <2>1 DEF NoCall, Judges, Trusting, At
  <2> QED  BY <2>1, <2>2, Turns
<1>4. ASSUME NEW k \in Calls, NEW b \in Blockers, StartBlock(k, b)
      PROVE  StandInv' /\ [Stand!Next]_(Stand!vars)
  <2>1. /\ \A j \in Calls \ {k} : calls'[j] = calls[j]
        /\ Judges(k)' /\ UNCHANGED agent
        /\ k \in Trusting' => agent.status = "active"
    BY <1>4 DEF StartBlock, NoCall, Judges, Trusting, At
  <2> QED  BY <2>1, Turns
<1>5. ASSUME NEW k \in Calls, StartClose(k)
      PROVE  StandInv' /\ [Stand!Next]_(Stand!vars)
  <2>1. /\ \A j \in Calls \ {k} : calls'[j] = calls[j]
        /\ Judges(k)' /\ UNCHANGED agent /\ k \notin Trusting'
    BY <1>5 DEF StartClose, NoCall, Judges, Trusting, At
  <2> QED  BY <2>1, Turns
<1>6. ASSUME NEW k \in Calls,
             GiveUp(k) \/ CommitDelete(k) \/ CommitRefresh(k) \/ CommitPoll(k)
      PROVE  StandInv' /\ [Stand!Next]_(Stand!vars)
  <2>1. calls' = Done(k) /\ agent'.status = agent.status
    BY <1>6 DEF GiveUp, CommitDelete, CommitRefresh, CommitPoll, Agent
  <2> QED  BY <1>1, <2>1, Turns
<1>7. ASSUME NEW k \in Calls, CountActive(k) \/ CountToday(k) \/ PersistIntent(k)
      PROVE  StandInv' /\ [Stand!Next]_(Stand!vars)
  <2>1. PICK p \in {"counted", "embedding", "checking"} :
          calls' = [calls EXCEPT ![k].phase = p]
    BY <1>7 DEF CountActive, CountToday, PersistIntent
  <2>2. /\ calls[k].phase \in {"checked", "counted", "embedding"}
        /\ UNCHANGED agent
    BY <1>7 DEF CountActive, CountToday, PersistIntent, At
  <2>3. /\ \A j \in Calls \ {k} : calls'[j] = calls[j]
        /\ calls'[k].phase = p /\ calls'[k].op = calls[k].op
        /\ calls'[k].seen = calls[k].seen
    BY <2>1 DEF Call
  <2>4. Judges(k)' /\ (k \in Trusting' => k \in Trusting)
    BY <1>0, <2>2, <2>3 DEF Judges, Trusting, At
  <2> QED  BY <2>2, <2>3, <2>4, Turns
<1>8. ASSUME NEW k \in Calls, DecideBan(k)
      PROVE  StandInv' /\ [Stand!Next]_(Stand!vars)
  <2>1. /\ \A j \in Calls \ {k} : calls'[j] = calls[j]
        /\ calls'[k].phase = "decided" /\ calls'[k].op = calls[k].op
        /\ calls'[k].seen = calls[k].seen
        /\ calls'[k].ban => calls[k].seen = "active"
        /\ At(k, "checking") /\ UNCHANGED agent
    BY <1>8 DEF DecideBan, MayBeBanned, Call
  <2>2. Judges(k)' /\ (k \in Trusting' => k \in Trusting)
    BY <1>0, <2>1 DEF Judges, Trusting, At
  <2> QED  BY <2>1, <2>2, Turns
<1>9. ASSUME NEW k \in Calls, CommitDecided(k)
      PROVE  StandInv' /\ [Stand!Next]_(Stand!vars)
  <2>0. calls' = Done(k)
    BY <1>9 DEF CommitDecided
  <2>1. CASE calls[k].ban
    <3>1. agent' = [agent EXCEPT !.status = "soft_banned", !.lifts = "later"]
      BY <1>9, <2>1 DEF CommitDecided
    <3>2. agent'.status = "soft_banned"
      BY <3>1 DEF Agent
    <3>3. k \in Trusting
      BY <1>0, <1>9, <2>1 DEF CommitDecided, Judges, Trusting, At
    <3>4. StandInv' /\ Trusting' = Trusting \ {k}
      BY <1>1, <2>0, OneTurn
    <3> QED  BY <3>2, <3>3, <3>4 DEF Stand!Next, Stand!SoftBan
  <2>2. CASE ~calls[k].ban
    <3>1. UNCHANGED agent
      BY <1>9, <2>2 DEF CommitDecided
    <3> QED  BY <1>1, <2>0, <3>1, Turns
  <2> QED  BY <2>1, <2>2
<1>10. ASSUME NEW k \in Calls, CommitClose(k)
       PROVE  StandInv' /\ [Stand!Next]_(Stand!vars)
  <2>1. calls' = Done(k) /\ k \notin Trusting
    BY <1>0, <1>10 DEF CommitClose, At, Judges, Trusting
  <2>2. StandInv' /\ Trusting' = Trusting
    BY <1>1, <2>1, OneTurn
  <2>3. agent'.status = "deleted"
    BY <1>10 DEF CommitClose
  <2> QED  BY <2>2, <2>3 DEF Stand!Next, Stand!Delete
<1>11. CASE HardBan
  <2>1. agent'.status = "hard_banned" /\ agent.status # "deleted"
    BY <1>11 DEF HardBan, Agent
  <2>2. StandInv' /\ Trusting' = Trusting
    BY <1>11, NoTurn DEF HardBan
  <2> QED  BY <2>1, <2>2 DEF Stand!Next, Stand!HardBan
<1>12. CASE RunMaintenance
  <2>1. StandInv' /\ Trusting' = Trusting
    BY <1>12, NoTurn DEF RunMaintenance
  <2>2. \/ agent.status = "soft_banned" /\ agent'.status = "active"
        \/ agent'.status = agent.status
    BY <1>12 DEF RunMaintenance, BanIsOver, Agent
  <2> QED  BY <2>1, <2>2 DEF Stand!Next, Stand!Lift, Stand!vars
<1>13. CASE \/ \E i \in Intents : Age(i)
            \/ \E b \in Blockers : Unblock(b) \/ AgeBlock(b)
            \/ BanRunsOut \/ FallSilent \/ UNCHANGED vars
  <2>1. UNCHANGED calls /\ agent'.status = agent.status
    BY <1>13 DEF Age, Unblock, AgeBlock, BanRunsOut, FallSilent, vars, Agent
  <2>2. StandInv' /\ Trusting' = Trusting
    BY <2>1, NoTurn
  <2> QED  BY <2>1, <2>2 DEF Stand!vars
<1>14. ASSUME NEW k \in Calls, NewCall(k)
       PROVE  StandInv' /\ [Stand!Next]_(Stand!vars)
  BY <1>2, <1>3, <1>4, <1>5, <1>14 DEF NewCall
<1>16. ASSUME NEW k \in Calls, CloseIntents(k) \/ CloseBlocks(k)
       PROVE  StandInv' /\ [Stand!Next]_(Stand!vars)
  <2>1. /\ \A j \in Calls \ {k} : calls'[j] = calls[j]
        /\ calls'[k].phase \in {"erasing", "freeing"}
        /\ calls'[k].op = calls[k].op
        /\ UNCHANGED agent
    BY <1>16 DEF CloseIntents, CloseBlocks, Call
  <2>2. calls[k].op = "close"
    BY <1>0, <1>16 DEF CloseIntents, CloseBlocks, Ready, At, Judges
  <2>3. Judges(k)' /\ k \notin Trusting'
    BY <2>1, <2>2 DEF Judges, Trusting, At
  <2> QED  BY <2>1, <2>3, Turns
<1>15. ASSUME NEW k \in Calls, CallStep(k)
       PROVE  StandInv' /\ [Stand!Next]_(Stand!vars)
  BY <1>6, <1>7, <1>8, <1>9, <1>10, <1>15, <1>16 DEF CallStep
<1> QED
  BY <1>11, <1>12, <1>13, <1>14, <1>15 DEF Next

LEMMA StandStart == Init => StandInv /\ Stand!Init
BY DEF Init, NoCall, StandInv, Judges, Trusting, At, Stand!Init

\* An agent is banned only by calls that began while it was active, whatever has
\* become of it since (moderation.py, check_and_apply_soft_ban; auth.py,
\* require_agent_can_mutate).
THEOREM ImplementsStanding == Spec => StandingSpec
<1> QED
  BY StandStart, StandStep, TypeInit, TypeStep, PTL
  DEF Spec, StandingSpec, Stand!Spec

\* Once no such call is left, an agent that is deleted or banned by the operator
\* stays so for good (PROTOCOL.md 8.3, 11).
THEOREM StaysGone == Spec => Stand!GoneOnceQuiet
<1>1. [Stand!Next]_(Stand!vars)
      => [Stand!Gone /\ Trusting = {} => Stand!Gone' /\ Trusting' = {}]_(Stand!vars)
  BY DEF Stand!Next, Stand!vars, Stand!Trust, Stand!Acquit, Stand!SoftBan,
         Stand!Lift, Stand!HardBan, Stand!Delete, Stand!Gone
<1> QED
  BY <1>1, ImplementsStanding, PTL
  DEF StandingSpec, Stand!Spec, Stand!GoneOnceQuiet
=============================================================================
