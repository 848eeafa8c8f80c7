--------------------------- MODULE ChannelProofs ---------------------------
(***************************************************************************)
(* The channel of Channel.tla delivers a frame at most once.               *)
(*                                                                         *)
(* AtMostOnce speaks of what was delivered only; what makes it inductive   *)
(* is that a waiting frame was never delivered before.                     *)
(***************************************************************************)
EXTENDS Channel, TLAPS

\* delivered: r; waiting: p; accepted: 1..n.
Sound(r, p, n) ==
    /\ \A i \in DOMAIN r : r[i] \in 1..n
    /\ \A i \in DOMAIN p : p[i] \in 1..n
    /\ IsInjective(r)
    /\ IsInjective(p)
    /\ \A i \in DOMAIN r, j \in DOMAIN p : r[i] # p[j]

TypeInv ==
    /\ sent \in [Members -> Nat]
    /\ pending \in [Members -> Seq(Nat)]
    /\ delivered \in [Members -> Seq(Nat)]

ChannelInv ==
    /\ TypeInv
    /\ \A m \in Members : Sound(delivered[Other(m)], pending[m], sent[m])

----------------------------------------------------------------------------
\* Whoever receives from m is sent to by m.
LEMMA OtherTwice ==
    ASSUME NEW m \in Members
    PROVE  Other(m) \in Members /\ Other(Other(m)) = m
  BY DEF Members, Other

\* What Append and Tail are, entry by entry.
LEMMA AppendEntries ==
    ASSUME NEW r \in Seq(Nat), NEW k \in Nat
    PROVE  /\ Append(r, k) \in Seq(Nat)
           /\ DOMAIN Append(r, k) = DOMAIN r \cup {Len(r) + 1}
           /\ \A i \in DOMAIN r : Append(r, k)[i] = r[i]
           /\ Append(r, k)[Len(r) + 1] = k
           /\ Len(r) + 1 \notin DOMAIN r
  OBVIOUS

\* What is left of a sequence without its first entry.
LEMMA TailEntries ==
    ASSUME NEW p \in Seq(Nat), p # <<>>
    PROVE  /\ Tail(p) \in Seq(Nat)
           /\ 1 \in DOMAIN p
           /\ Head(p) = p[1]
           /\ \A i \in DOMAIN Tail(p) :
                 /\ i \in Nat /\ i + 1 \in DOMAIN p /\ i + 1 # 1
                 /\ Tail(p)[i] = p[i + 1]
  OBVIOUS

\* A frame may be accepted and lost.
LEMMA SoundLost ==
    ASSUME NEW r \in Seq(Nat), NEW p \in Seq(Nat), NEW n \in Nat, Sound(r, p, n)
    PROVE  Sound(r, p, n + 1)
  BY DEF Sound

\* A frame that was neither delivered nor waits may be delivered.
LEMMA SoundDelivered ==
    ASSUME NEW r \in Seq(Nat), NEW p \in Seq(Nat), NEW n \in Nat, Sound(r, p, n),
           NEW k \in 1..n,
           \A i \in DOMAIN r : r[i] # k, \A i \in DOMAIN p : p[i] # k
    PROVE  Sound(Append(r, k), p, n)
<1> DEFINE a == Append(r, k)
<1>1. /\ DOMAIN a = DOMAIN r \cup {Len(r) + 1}
      /\ \A i \in DOMAIN r : a[i] = r[i]
      /\ a[Len(r) + 1] = k
  BY AppendEntries
<1> HIDE DEF a
<1>2. IsInjective(a)
  BY <1>1 DEF Sound, IsInjective
<1>3. \A i \in DOMAIN a : a[i] \in 1..n /\ \A j \in DOMAIN p : a[i] # p[j]
  BY <1>1 DEF Sound
<1> QED
  BY <1>2, <1>3 DEF Sound, a

\* A frame that was neither delivered nor waits may wait.
LEMMA SoundWaiting ==
    ASSUME NEW r \in Seq(Nat), NEW p \in Seq(Nat), NEW n \in Nat, Sound(r, p, n),
           NEW k \in 1..n,
           \A i \in DOMAIN r : r[i] # k, \A i \in DOMAIN p : p[i] # k
    PROVE  Sound(r, Append(p, k), n)
<1> DEFINE a == Append(p, k)
<1>1. /\ DOMAIN a = DOMAIN p \cup {Len(p) + 1}
      /\ \A i \in DOMAIN p : a[i] = p[i]
      /\ a[Len(p) + 1] = k
  BY AppendEntries
<1> HIDE DEF a
<1>2. IsInjective(a)
  BY <1>1 DEF Sound, IsInjective
<1>3. \A i \in DOMAIN a : a[i] \in 1..n /\ \A j \in DOMAIN r : r[j] # a[i]
  BY <1>1 DEF Sound
<1> QED
  BY <1>2, <1>3 DEF Sound, a

\* The frame that waited longest may go; it waits no more and was not delivered.
LEMMA SoundDropped ==
    ASSUME NEW r \in Seq(Nat), NEW p \in Seq(Nat), NEW n \in Nat, Sound(r, p, n),
           p # <<>>
    PROVE  /\ Sound(r, Tail(p), n)
           /\ Head(p) \in 1..n
           /\ \A i \in DOMAIN r : r[i] # Head(p)
           /\ \A i \in DOMAIN Tail(p) : Tail(p)[i] # Head(p)
<1> DEFINE t == Tail(p)
<1>1. \A i \in DOMAIN t :
         i \in Nat /\ i + 1 \in DOMAIN p /\ i + 1 # 1 /\ t[i] = p[i + 1]
  BY TailEntries
<1>2. 1 \in DOMAIN p /\ Head(p) = p[1]
  BY TailEntries
<1> HIDE DEF t
<1>3. IsInjective(t)
  <2>1. ASSUME NEW i \in DOMAIN t, NEW j \in DOMAIN t, t[i] = t[j]
        PROVE  i = j
    <3>1. i + 1 = j + 1
      BY <1>1, <2>1 DEF Sound, IsInjective
    <3> QED
      BY <1>1, <3>1
  <2> QED
    BY <2>1 DEF IsInjective
<1>4. \A i \in DOMAIN t :
         t[i] \in 1..n /\ t[i] # p[1] /\ \A j \in DOMAIN r : r[j] # t[i]
  BY <1>1, <1>2 DEF Sound, IsInjective
<1>5. Sound(r, t, n)
  BY <1>3, <1>4 DEF Sound
<1> QED
  BY <1>2, <1>4, <1>5 DEF Sound, t

\* All that waits may be forgotten.
LEMMA SoundForgotten ==
    ASSUME NEW r \in Seq(Nat), NEW p \in Seq(Nat), NEW n \in Nat, Sound(r, p, n)
    PROVE  Sound(r, <<>>, n)
  BY DEF Sound, IsInjective

----------------------------------------------------------------------------
\* sent[m] + 1 is new to the channel.
LEMMA AcceptStep ==
    ASSUME ChannelInv, NEW m \in Members, Accept(m)
    PROVE  ChannelInv'
<1> DEFINE k == sent[m] + 1
           r == delivered[Other(m)]
           p == pending[m]
<1>1. /\ r \in Seq(Nat) /\ p \in Seq(Nat) /\ sent[m] \in Nat
      /\ k \in Nat /\ k \in 1..k
      /\ Sound(r, p, sent[m])
  BY OtherTwice DEF ChannelInv, TypeInv
<1>2. \A i \in DOMAIN r : r[i] # k
  BY <1>1 DEF Sound
<1>3. \A i \in DOMAIN p : p[i] # k
  BY <1>1 DEF Sound
<1>4. Sound(r, p, k)
  BY <1>1, SoundLost
<1>5. Sound(Append(r, k), p, k) /\ Sound(r, Append(p, k), k)
  BY <1>1, <1>2, <1>3, <1>4, SoundDelivered, SoundWaiting
<1>6. /\ sent' = [sent EXCEPT ![m] = k]
      /\ \/ pending' = [pending EXCEPT ![m] = Append(p, k)] /\ UNCHANGED delivered
         \/ /\ delivered' = [delivered EXCEPT ![Other(m)] = Append(r, k)]
            /\ UNCHANGED pending
         \/ UNCHANGED <<pending, delivered>>
  BY DEF Accept, DeliverTo
<1>7. Append(p, k) \in Seq(Nat) /\ Append(r, k) \in Seq(Nat)
  BY <1>1, AppendEntries
<1>8. TypeInv'
  BY <1>1, <1>6, <1>7 DEF ChannelInv, TypeInv
<1>9. ASSUME NEW x \in Members
      PROVE  Sound(delivered'[Other(x)], pending'[x], sent'[x])
  <2>1. CASE x = m
    <3>1. Other(m) \in Members
      BY OtherTwice
    <3>2. /\ sent'[m] = k
          /\ \/ pending'[m] = Append(p, k) /\ delivered'[Other(m)] = r
             \/ pending'[m] = p /\ delivered'[Other(m)] = Append(r, k)
             \/ pending'[m] = p /\ delivered'[Other(m)] = r
      BY <1>6, <3>1 DEF ChannelInv, TypeInv
    <3> QED
      BY <1>4, <1>5, <2>1, <3>2
  <2>2. CASE x # m
    <3>1. Other(x) # Other(m) /\ Other(x) \in Members
      BY <2>2, OtherTwice
    <3>2. /\ sent'[x] = sent[x] /\ pending'[x] = pending[x]
          /\ delivered'[Other(x)] = delivered[Other(x)]
      BY <1>6, <2>2, <3>1 DEF ChannelInv, TypeInv
    <3> QED
      BY <3>2 DEF ChannelInv
  <2> QED
    BY <2>1, <2>2
<1> QED
  BY <1>8, <1>9 DEF ChannelInv

\* The frame that waited longest goes to the member it waited for, or is lost.
LEMMA DrainStep ==
    ASSUME ChannelInv, NEW m \in Members, Drain(m)
    PROVE  ChannelInv'
<1> DEFINE r == delivered[Other(m)]
           p == pending[m]
           h == Head(p)
           t == Tail(p)
<1>1. /\ r \in Seq(Nat) /\ p \in Seq(Nat) /\ p # <<>> /\ sent[m] \in Nat
      /\ Sound(r, p, sent[m])
  BY OtherTwice DEF ChannelInv, TypeInv, Drain
<1>2. /\ Sound(r, t, sent[m])
      /\ h \in 1..sent[m]
      /\ \A i \in DOMAIN r : r[i] # h
      /\ \A i \in DOMAIN t : t[i] # h
  BY <1>1, SoundDropped
<1>3. t \in Seq(Nat) /\ h \in Nat
  BY <1>1, <1>2, TailEntries
<1>4. Sound(Append(r, h), t, sent[m]) /\ Append(r, h) \in Seq(Nat)
  BY <1>1, <1>2, <1>3, SoundDelivered, AppendEntries
<1>5. /\ pending' = [pending EXCEPT ![m] = t]
      /\ \/ delivered' = [delivered EXCEPT ![Other(m)] = Append(r, h)]
         \/ UNCHANGED delivered
      /\ UNCHANGED sent
  BY DEF Drain, DeliverTo
<1>6. TypeInv'
  BY <1>3, <1>4, <1>5 DEF ChannelInv, TypeInv
<1>7. ASSUME NEW x \in Members
      PROVE  Sound(delivered'[Other(x)], pending'[x], sent'[x])
  <2>1. CASE x = m
    <3>1. Other(m) \in Members
      BY OtherTwice
    <3>2. /\ sent'[m] = sent[m] /\ pending'[m] = t
          /\ delivered'[Other(m)] \in {r, Append(r, h)}
      BY <1>5, <3>1 DEF ChannelInv, TypeInv
    <3> QED
      BY <1>2, <1>4, <2>1, <3>2
  <2>2. CASE x # m
    <3>1. Other(x) # Other(m) /\ Other(x) \in Members
      BY <2>2, OtherTwice
    <3>2. /\ sent'[x] = sent[x] /\ pending'[x] = pending[x]
          /\ delivered'[Other(x)] = delivered[Other(x)]
      BY <1>5, <2>2, <3>1 DEF ChannelInv, TypeInv
    <3> QED
      BY <3>2 DEF ChannelInv
  <2> QED
    BY <2>1, <2>2
<1> QED
  BY <1>6, <1>7 DEF ChannelInv

\* A restart forgets what waits, never what was delivered.
LEMMA ForgetStep ==
    ASSUME ChannelInv, Forget
    PROVE  ChannelInv'
<1>1. TypeInv'
  BY DEF ChannelInv, TypeInv, Forget
<1>2. ASSUME NEW x \in Members
      PROVE  Sound(delivered'[Other(x)], pending'[x], sent'[x])
  <2>1. pending'[x] = <<>> /\ UNCHANGED <<sent, delivered>>
    BY DEF Forget
  <2>2. /\ delivered[Other(x)] \in Seq(Nat) /\ pending[x] \in Seq(Nat)
        /\ sent[x] \in Nat
        /\ Sound(delivered[Other(x)], pending[x], sent[x])
    BY OtherTwice DEF ChannelInv, TypeInv
  <2> QED
    BY <2>1, <2>2, SoundForgotten
<1> QED
  BY <1>1, <1>2 DEF ChannelInv

\* Nobody receives a frame twice, nor one that was not accepted from the
\* counterparty: what the relay promises of its frames (relay.py, _handle_frame
\* and _flush_for_joined_agent), for any number of frames.
THEOREM DeliveredAtMostOnce == Spec => []AtMostOnce
<1>1. Init => ChannelInv
  BY OtherTwice DEF Init, ChannelInv, TypeInv, Sound, IsInjective
<1>2. ChannelInv /\ [Next]_vars => ChannelInv'
  <2>1. ChannelInv /\ UNCHANGED vars => ChannelInv'
    BY DEF vars, ChannelInv, TypeInv
  <2> QED
    BY <2>1, AcceptStep, DrainStep, ForgetStep DEF Next
<1>3. ChannelInv => AtMostOnce
  <2> SUFFICES ASSUME ChannelInv, NEW m \in Members
               PROVE  /\ IsInjective(delivered[m])
                      /\ \A i \in DOMAIN delivered[m] :
                            delivered[m][i] \in 1..sent[Other(m)]
    BY DEF AtMostOnce
  <2>1. Other(m) \in Members /\ Other(Other(m)) = m
    BY OtherTwice
  <2>2. Sound(delivered[m], pending[Other(m)], sent[Other(m)])
    BY <2>1 DEF ChannelInv
  <2> QED
    BY <2>2 DEF Sound
<1> QED
  BY <1>1, <1>2, <1>3, PTL DEF Spec
=============================================================================
