----------------------------- MODULE HellbanProofs -----------------------------
(***************************************************************************)
(* Proofs about Hellban, for any number of processes, communities, users   *)
(* and checks and any length of the timeout.                               *)
(*                                                                         *)
(* What keeps OnlySpammersSilenced is that every notification, and every   *)
(* check that is about to publish one, already has a spammy event behind   *)
(* it (Grounded): a silenced event gets to publish only because a timeout  *)
(* is under way, which had one behind it in turn.  ToldSetsSilence needs   *)
(* that a set that is owed a timeout is live and that a timeout under way  *)
(* has been counted (Counted).                                             *)
(***************************************************************************)
EXTENDS Hellban, FiniteSetTheorems, SequenceTheorems, TLAPS

Guilty(c, u) ==
    \E g \in spam : stage[g] # "idle" /\ set[g][2] = c /\ sender[g] = u

Grounded ==
    /\ \A e \in Checks : stage[e] = "publish" => Guilty(set[e][2], sender[e])
    /\ \A p \in Procs : \A i \in 1 .. Len(inbox[p]) :
          Guilty(inbox[p][i][1], inbox[p][i][2])
    /\ \A s \in Sets, u \in Users : left[s][u] > 0 => Guilty(s[2], u)

Counted ==
    /\ \A o \in owed : o[1] \in loaded
    /\ \A s \in Sets, u \in Users : left[s][u] > 0 => started[s][u] > 0
    /\ ToldSetsSilence

(* What a check starts with: UseSet in each of its three outcomes.         *)
Begin(e, s, u) ==
    \/ Silence(e, s, u)
    \/ FindSpam(e, s, u)
    \/ PassOrFail(e, s, u)

(* The steps of Next, one by one.                                          *)
LEMMA Cases ==
    ASSUME Next
    PROVE  \/ \E e \in Checks, s \in Sets, u \in Users : Begin(e, s, u)
           \/ \E e \in Checks : Publish(e)
           \/ \E e \in Checks : PublishFails(e)
           \/ \E p \in Procs : Dispatch(p)
           \/ \E p \in Procs : Crash(p)
           \/ \E s \in Sets : Invalidate(s)
           \/ Tick
  BY DEF Next, Begin

(* The notification a dispatcher takes.                                    *)
LEMMA HeadOfInbox ==
    ASSUME TypeOK, NEW p \in Procs, inbox[p] # <<>>
    PROVE  /\ Head(inbox[p]) = inbox[p][1]
           /\ 1 \in 1 .. Len(inbox[p])
           /\ Tail(inbox[p]) \in Seq(Communities \X Users)
           /\ Len(Tail(inbox[p])) = Len(inbox[p]) - 1
           /\ \A i \in 1 .. Len(Tail(inbox[p])) :
                i + 1 \in 1 .. Len(inbox[p]) /\ Tail(inbox[p])[i] = inbox[p][i + 1]
           /\ <<p, inbox[p][1][1]>> \in Sets
           /\ inbox[p][1][2] \in Users
  <1>1. inbox[p] \in Seq(Communities \X Users)
    BY DEF TypeOK
  <1>2. Head(inbox[p]) = inbox[p][1] /\ inbox[p][1] \in Communities \X Users
    BY <1>1
  <1>3. inbox[p][1][1] \in Communities /\ inbox[p][1][2] \in Users
    BY <1>2
  <1> QED BY <1>1, <1>2, <1>3 DEF Sets

(* Type correctness is inductive by itself.                                *)
LEMMA TypeStep ==
    ASSUME TypeOK, [Next]_vars
    PROVE  TypeOK'
  <1> USE HellbanAssumption DEF TypeOK
  <1>1. CASE UNCHANGED vars
    BY <1>1 DEF vars
  <1>2. CASE \E e \in Checks, s \in Sets, u \in Users : Begin(e, s, u)
    <2>1. PICK e \in Checks, s \in Sets, u \in Users : Begin(e, s, u)
      BY <1>2
    <2>2. /\ UNCHANGED <<left, inbox, started, owed>>
          /\ loaded' = loaded \cup {s}
          /\ listening' = listening \cup {s[1]}
          /\ spam' \in {spam, spam \cup {e}}
          /\ set' = [set EXCEPT ![e] = s]
          /\ sender' = [sender EXCEPT ![e] = u]
          /\ \E g \in {"publish", "done"} : stage' = [stage EXCEPT ![e] = g]
      BY <2>1 DEF Begin, Silence, FindSpam, PassOrFail, UseSet
    <2>3. s[1] \in Procs
      BY DEF Sets
    <2> QED BY <2>2, <2>3
  <1>3. CASE \E e \in Checks : Publish(e)
    <2>1. PICK e \in Checks : Publish(e)
      BY <1>3
    <2>2. set[e] \in Sets /\ sender[e] \in Users
      BY <2>1 DEF Publish
    <2>3. set[e][2] \in Communities
      BY <2>2 DEF Sets
    <2>4. inbox' \in [Procs -> Seq(Communities \X Users)]
      BY <2>1, <2>2, <2>3 DEF Publish
    <2>5. owed' \in SUBSET (Sets \X Users)
      BY <2>1, <2>2 DEF Publish
    <2> QED BY <2>1, <2>4, <2>5 DEF Publish
  <1>4. CASE \E e \in Checks : PublishFails(e)
    BY <1>4 DEF PublishFails
  <1>5. CASE \E p \in Procs : Dispatch(p)
    <2>1. PICK p \in Procs : Dispatch(p)
      BY <1>5
    <2>2. inbox[p] # <<>> /\ UNCHANGED <<listening, loaded, stage, set, sender, spam, owed>>
      BY <2>1 DEF Dispatch, checks
    <2>3. inbox' \in [Procs -> Seq(Communities \X Users)]
      BY <2>1, <2>2, HeadOfInbox DEF Dispatch
    <2>4. ASSUME NEW s \in Sets, NEW u \in Users, StartTimeout(s, u)
          PROVE  /\ left' \in [Sets -> [Users -> 0 .. Minutes]]
                 /\ started' \in [Sets -> [Users -> Nat]]
      <3>1. CASE UNCHANGED <<left, started>>
        BY <3>1
      <3>2. CASE left' = [left EXCEPT ![s][u] = Minutes]
                 /\ started' = [started EXCEPT ![s][u] = @ + 1]
        <4>1. Minutes \in 0 .. Minutes /\ started[s][u] + 1 \in Nat
          OBVIOUS
        <4> QED BY <3>2, <4>1
      <3> QED BY <2>4, <3>1, <3>2 DEF StartTimeout
    <2>5. /\ left' \in [Sets -> [Users -> 0 .. Minutes]]
          /\ started' \in [Sets -> [Users -> Nat]]
      BY <2>1, <2>2, <2>4, HeadOfInbox DEF Dispatch
    <2> QED BY <2>2, <2>3, <2>5
  <1>6. ASSUME NEW S, Drop(S)
        PROVE  /\ loaded' \in SUBSET Sets
               /\ left' \in [Sets -> [Users -> 0 .. Minutes]]
               /\ owed' \in SUBSET (Sets \X Users)
    <2>1. Nobody \in [Users -> 0 .. Minutes]
      BY DEF Nobody
    <2> QED BY <1>6, <2>1 DEF Drop
  <1>7. CASE \E p \in Procs : Crash(p)
    <2>1. PICK p \in Procs : Crash(p)
      BY <1>7
    <2>2. /\ UNCHANGED <<set, sender, spam, started>>
          /\ listening' = listening \ {p}
          /\ inbox' = [inbox EXCEPT ![p] = <<>>]
          /\ stage' = [e \in Checks |-> IF stage[e] = "publish" /\ set[e][1] = p
                                        THEN "done" ELSE stage[e]]
          /\ Drop({s \in Sets : s[1] = p})
      BY <2>1 DEF Crash
    <2>3. inbox' \in [Procs -> Seq(Communities \X Users)]
      BY <2>2
    <2>4. stage' \in [Checks -> {"idle", "publish", "published", "done"}]
      BY <2>2
    <2>5. \A e \in Checks : stage'[e] # "idle" => set'[e] \in Sets /\ sender'[e] \in Users
      BY <2>2
    <2> QED BY <1>6, <2>2, <2>3, <2>4, <2>5
  <1>8. CASE \E s \in Sets : Invalidate(s)
    BY <1>6, <1>8 DEF Invalidate, checks
  <1>9. CASE Tick
    <2>1. \A s \in Sets, u \in Users :
            left[s][u] > 0 => left[s][u] - 1 \in 0 .. Minutes
      OBVIOUS
    <2>2. left' \in [Sets -> [Users -> 0 .. Minutes]]
      BY <1>9, <2>1 DEF Tick
    <2> QED BY <1>9, <2>2 DEF Tick, checks
  <1> QED BY <1>1, <1>2, <1>3, <1>4, <1>5, <1>7, <1>8, <1>9, Cases

(* A step changes the record of a check only as it begins, or as it ends   *)
(* its wait to publish.                                                    *)
LEMMA ChecksStep ==
    ASSUME TypeOK, [Next]_vars, NEW e \in Checks
    PROVE  \/ stage'[e] = stage[e] /\ set'[e] = set[e] /\ sender'[e] = sender[e]
           \/ /\ stage[e] = "publish" /\ stage'[e] \in {"published", "done"}
              /\ set'[e] = set[e] /\ sender'[e] = sender[e]
           \/ \E s \in Sets, u \in Users :
                 Begin(e, s, u) /\ stage[e] = "idle" /\ set'[e] = s /\ sender'[e] = u
  <1> USE DEF TypeOK
  <1>1. CASE \E f \in Checks, s \in Sets, u \in Users : Begin(f, s, u)
    <2>1. PICK f \in Checks, s \in Sets, u \in Users : Begin(f, s, u)
      BY <1>1
    <2>2. /\ stage[f] = "idle" /\ set'[f] = s /\ sender'[f] = u
          /\ f # e => stage'[e] = stage[e] /\ set'[e] = set[e] /\ sender'[e] = sender[e]
      BY <2>1 DEF Begin, Silence, FindSpam, PassOrFail, UseSet
    <2> QED BY <2>1, <2>2
  <1>2. CASE \E f \in Checks : Publish(f)
    BY <1>2 DEF Publish
  <1>3. CASE \E f \in Checks : PublishFails(f)
    BY <1>3 DEF PublishFails
  <1>4. CASE \E p \in Procs : Crash(p)
    BY <1>4 DEF Crash
  <1>5. CASE \/ UNCHANGED vars
             \/ \E p \in Procs : Dispatch(p)
             \/ \E s \in Sets : Invalidate(s)
             \/ Tick
    BY <1>5 DEF vars, checks, Dispatch, Invalidate, Tick
  <1> QED BY <1>1, <1>2, <1>3, <1>4, <1>5, Cases

(* A spammy event stays on the record of its sender.                       *)
LEMMA GuiltStays ==
    ASSUME TypeOK, [Next]_vars
    PROVE  \A g \in spam : stage[g] # "idle" =>
              /\ g \in spam' /\ stage'[g] # "idle"
              /\ set'[g] = set[g] /\ sender'[g] = sender[g]
  <1>1. spam \subseteq spam'
    BY Cases DEF vars, Begin, Silence, FindSpam, PassOrFail, Publish, PublishFails,
                 Dispatch, Crash, Invalidate, Tick
  <1> QED BY <1>1, ChecksStep DEF TypeOK

(* A step starts a timeout of u on s only by dispatching a notification.   *)
LEMMA TimeoutStep ==
    ASSUME TypeOK, [Next]_vars, NEW s \in Sets, NEW u \in Users
    PROVE  \/ left'[s][u] \in {0, left[s][u], left[s][u] - 1} /\ started'[s][u] = started[s][u]
           \/ /\ left[s][u] = 0 /\ started'[s][u] = started[s][u] + 1
              /\ \E p \in Procs : Dispatch(p) /\ inbox[p] # <<>>
                                  /\ s = <<p, inbox[p][1][1]>> /\ u = inbox[p][1][2]
  <1> USE DEF TypeOK
  <1>1. CASE \E p \in Procs : Dispatch(p)
    <2>1. PICK p \in Procs : Dispatch(p)
      BY <1>1
    <2>2. inbox[p] # <<>> /\ Head(inbox[p]) = inbox[p][1]
          /\ StartTimeout(<<p, inbox[p][1][1]>>, inbox[p][1][2])
      BY <2>1, HeadOfInbox DEF Dispatch
    <2>3. ASSUME NEW t \in Sets, NEW v \in Users, StartTimeout(t, v)
          PROVE  \/ left'[s][u] = left[s][u] /\ started'[s][u] = started[s][u]
                 \/ /\ s = t /\ u = v
                    /\ left[s][u] = 0 /\ started'[s][u] = started[s][u] + 1
      <3>1. CASE UNCHANGED <<left, started>>
        BY <3>1
      <3>2. CASE /\ left[t][v] = 0
                 /\ left' = [left EXCEPT ![t][v] = Minutes]
                 /\ started' = [started EXCEPT ![t][v] = @ + 1]
        <4>1. CASE s = t /\ u = v
          BY <3>2, <4>1
        <4>2. CASE ~(s = t /\ u = v)
          <5>1. left'[s][u] = left[s][u] /\ started'[s][u] = started[s][u]
            BY <3>2, <4>2
          <5> QED BY <5>1
        <4> QED BY <4>1, <4>2
      <3> QED BY <2>3, <3>1, <3>2 DEF StartTimeout
    <2>4. \/ left'[s][u] = left[s][u] /\ started'[s][u] = started[s][u]
          \/ /\ s = <<p, inbox[p][1][1]>> /\ u = inbox[p][1][2]
             /\ left[s][u] = 0 /\ started'[s][u] = started[s][u] + 1
      BY <2>2, <2>3, HeadOfInbox
    <2> QED BY <2>1, <2>2, <2>4
  <1>2. CASE \E e \in Checks, t \in Sets, v \in Users : Begin(e, t, v)
    BY <1>2 DEF Begin, Silence, FindSpam, PassOrFail, UseSet
  <1>3. CASE \E e \in Checks : Publish(e) \/ PublishFails(e)
    BY <1>3 DEF Publish, PublishFails
  <1>4. CASE \E p \in Procs : Crash(p)
    BY <1>4 DEF Crash, Drop, Nobody
  <1>5. CASE \E t \in Sets : Invalidate(t)
    BY <1>5 DEF Invalidate, Drop, Nobody
  <1>6. CASE Tick
    BY <1>6 DEF Tick
  <1>7. CASE UNCHANGED vars
    BY <1>7 DEF vars
  <1> QED BY <1>1, <1>2, <1>3, <1>4, <1>5, <1>6, <1>7, Cases

(* Every timeout, notification and check about to publish goes back to a   *)
(* spammy event.                                                           *)
LEMMA GroundedStep ==
    ASSUME TypeOK, Grounded, [Next]_vars
    PROVE  Grounded'
  <1>g. \A c, u : Guilty(c, u) =>
            \E g \in spam' : stage'[g] # "idle" /\ set'[g][2] = c /\ sender'[g] = u
    BY GuiltStays DEF Guilty
  <1>1. ASSUME NEW e \in Checks, stage'[e] = "publish"
        PROVE  Guilty(set[e][2], sender[e])'
    <2>1. CASE stage[e] = "publish" /\ set'[e] = set[e] /\ sender'[e] = sender[e]
      BY <1>g, <2>1 DEF Grounded, Guilty
    <2>2. CASE \E s \in Sets, u \in Users :
                 Begin(e, s, u) /\ stage[e] = "idle" /\ set'[e] = s /\ sender'[e] = u
      <3>1. PICK s \in Sets, u \in Users :
                 Begin(e, s, u) /\ stage[e] = "idle" /\ set'[e] = s /\ sender'[e] = u
        BY <2>2
      <3>2. CASE Silence(e, s, u)
        <4>1. Guilty(s[2], u)
          BY <3>2 DEF Silence, Grounded
        <4> QED BY <1>g, <3>1, <4>1 DEF Guilty
      <3>3. CASE FindSpam(e, s, u)
        <4>1. e \in spam'
          BY <3>3 DEF FindSpam
        <4> QED BY <1>1, <4>1 DEF Guilty
      <3>4. CASE PassOrFail(e, s, u)
        BY <1>1, <3>4 DEF PassOrFail, UseSet, TypeOK
      <3> QED BY <3>1, <3>2, <3>3, <3>4 DEF Begin
    <2> QED BY <1>1, <2>1, <2>2, ChecksStep
  <1>2. ASSUME NEW p \in Procs, NEW i \in 1 .. Len(inbox'[p])
        PROVE  Guilty(inbox[p][i][1], inbox[p][i][2])'
    <2>0. inbox[p] \in Seq(Communities \X Users)
      BY DEF TypeOK
    <2>1. CASE inbox'[p] = inbox[p]
      <3>1. i \in 1 .. Len(inbox[p]) /\ inbox'[p][i] = inbox[p][i]
        BY <1>2, <2>1
      <3>2. Guilty(inbox'[p][i][1], inbox'[p][i][2])
        BY <3>1 DEF Grounded
      <3> QED BY <1>g, <3>2 DEF Guilty
    <2>2. CASE \E e \in Checks : Publish(e)
      <3>1. PICK e \in Checks : Publish(e)
        BY <2>2
      <3>2. CASE inbox'[p] = Append(inbox[p], <<set[e][2], sender[e]>>)
        <4>1. CASE i = Len(inbox[p]) + 1
          <5>1. inbox'[p][i] = <<set[e][2], sender[e]>>
            BY <2>0, <3>2, <4>1
          <5>2. Guilty(set[e][2], sender[e])
            BY <3>1 DEF Publish, Grounded
          <5>3. Guilty(inbox'[p][i][1], inbox'[p][i][2])
            BY <5>1, <5>2
          <5> QED BY <1>g, <5>3 DEF Guilty
        <4>2. CASE i # Len(inbox[p]) + 1
          <5>1. i \in 1 .. Len(inbox[p]) /\ inbox'[p][i] = inbox[p][i]
            BY <1>2, <2>0, <3>2, <4>2
          <5>2. Guilty(inbox'[p][i][1], inbox'[p][i][2])
            BY <5>1 DEF Grounded
          <5> QED BY <1>g, <5>2 DEF Guilty
        <4> QED BY <4>1, <4>2
      <3> QED BY <2>1, <3>1, <3>2 DEF Publish, TypeOK
    <2>3. CASE inbox[p] # <<>> /\ inbox'[p] = Tail(inbox[p])
      <3>1. i + 1 \in 1 .. Len(inbox[p]) /\ inbox'[p][i] = inbox[p][i + 1]
        BY <1>2, <2>3, HeadOfInbox
      <3>2. Guilty(inbox'[p][i][1], inbox'[p][i][2])
        BY <3>1 DEF Grounded
      <3> QED BY <1>g, <3>2 DEF Guilty
    <2>4. CASE inbox'[p] = <<>>
      BY <1>2, <2>4
    <2>5. CASE ~\E e \in Checks : Publish(e)
      <3>1. inbox'[p] \in {inbox[p], <<>>} \/ (inbox[p] # <<>> /\ inbox'[p] = Tail(inbox[p]))
        <4>1. CASE \E q \in Procs : Dispatch(q) \/ Crash(q)
          BY <4>1 DEF Dispatch, Crash, TypeOK
        <4>2. CASE ~\E q \in Procs : Dispatch(q) \/ Crash(q)
          BY <2>5, <4>2, Cases
             DEF vars, Begin, Silence, FindSpam, PassOrFail, UseSet, PublishFails,
                 Invalidate, Tick
        <4> QED BY <4>1, <4>2
      <3> QED BY <2>1, <2>3, <2>4, <3>1
    <2> QED BY <2>2, <2>5
  <1>3. ASSUME NEW s \in Sets, NEW u \in Users, left'[s][u] > 0
        PROVE  Guilty(s[2], u)'
    <2>1. CASE left[s][u] > 0
      BY <1>g, <2>1 DEF Grounded, Guilty
    <2>2. CASE ~(left[s][u] > 0)
      <3>1. left[s][u] = 0
        BY <2>2 DEF TypeOK
      <3>2. PICK p \in Procs : inbox[p] # <<>> /\ s = <<p, inbox[p][1][1]>> /\ u = inbox[p][1][2]
        BY <1>3, <3>1, TimeoutStep
      <3>3. Guilty(inbox[p][1][1], inbox[p][1][2])
        BY <3>2, HeadOfInbox DEF Grounded
      <3>4. s[2] = inbox[p][1][1]
        BY <3>2
      <3> QED BY <1>g, <3>2, <3>3, <3>4 DEF Guilty
    <2> QED BY <2>1, <2>2
  <1> QED BY <1>1, <1>2, <1>3 DEF Grounded

(* A set that is owed a timeout has the notification ahead of it or has    *)
(* started one.                                                            *)
LEMMA CountedStep ==
    ASSUME TypeOK, Counted, [Next]_vars
    PROVE  Counted'
  <1>1. ASSUME NEW o \in owed'
        PROVE  o[1] \in loaded'
    <2>1. CASE \E S : Drop(S)
      BY <1>1, <2>1 DEF Drop, Counted
    <2>2. CASE \E e \in Checks : Publish(e)
      BY <1>1, <2>2 DEF Publish, Counted
    <2>3. CASE ~(\E S : Drop(S)) /\ ~\E e \in Checks : Publish(e)
      <3>1. loaded \subseteq loaded' /\ UNCHANGED owed
        BY <2>3, Cases
           DEF vars, Begin, Silence, FindSpam, PassOrFail, UseSet, PublishFails,
               Dispatch, Crash, Invalidate, Tick
      <3> QED BY <1>1, <3>1 DEF Counted
    <2> QED BY <2>1, <2>2, <2>3
  <1>2. ASSUME NEW s \in Sets, NEW u \in Users
        PROVE  /\ started[s][u] > 0 => started'[s][u] > 0
               /\ left'[s][u] > 0 => started'[s][u] > 0
    <2>1. left[s][u] \in 0 .. Minutes /\ Minutes \in Nat /\ started[s][u] \in Nat
      BY HellbanAssumption DEF TypeOK
    <2>2. left[s][u] > 0 => started[s][u] > 0
      BY DEF Counted
    <2>3. CASE left'[s][u] \in {0, left[s][u], left[s][u] - 1} /\ started'[s][u] = started[s][u]
      BY <2>1, <2>2, <2>3
    <2>4. CASE started'[s][u] = started[s][u] + 1
      BY <2>1, <2>4
    <2> QED BY <2>3, <2>4, TimeoutStep
  <1>3. ASSUME NEW o \in owed'
        PROVE  (InTransit(o[1][1], o[1][2], o[2]) # {} \/ started[o[1]][o[2]] > 0)'
    <2> DEFINE s == o[1]
               u == o[2]
               p == s[1]
               c == s[2]
    <2>0. s \in Sets /\ u \in Users /\ p \in Procs /\ s = <<p, c>>
          /\ inbox[p] \in Seq(Communities \X Users)
      <3>1. o \in Sets \X Users
        BY <1>3, TypeStep DEF TypeOK
      <3>2. s \in Procs \X Communities /\ u \in Users
        BY <3>1 DEF Sets
      <3> QED BY <3>2 DEF TypeOK, Sets
    <2>1. CASE started[s][u] > 0
      BY <1>2, <2>0, <2>1
    <2>2. ASSUME NEW i \in 1 .. Len(inbox'[p]), inbox'[p][i] = <<c, u>>
          PROVE  (InTransit(o[1][1], o[1][2], o[2]) # {})'
      BY <2>2 DEF InTransit
    <2>3. CASE o \in owed /\ started[s][u] = 0
      <3>0. InTransit(p, c, u) # {}
        BY <2>3 DEF Counted, ToldSetsSilence
      <3>1. PICK i \in 1 .. Len(inbox[p]) : inbox[p][i] = <<c, u>>
        BY <3>0 DEF InTransit
      <3>2. CASE inbox'[p] = inbox[p]
        BY <2>2, <3>1, <3>2
      <3>3. CASE \E e \in Checks : Publish(e)
        <4>1. PICK e \in Checks : Publish(e)
          BY <3>3
        <4>2. CASE inbox'[p] = Append(inbox[p], <<set[e][2], sender[e]>>)
          <5>1. i \in 1 .. Len(inbox'[p]) /\ inbox'[p][i] = inbox[p][i]
            BY <2>0, <4>2
          <5> QED BY <2>2, <3>1, <5>1
        <4> QED BY <2>0, <3>2, <4>1, <4>2 DEF Publish, TypeOK
      <3>4. CASE Dispatch(p)
        <4>1. inbox[p] # <<>> /\ inbox'[p] = Tail(inbox[p])
          BY <2>0, <3>4 DEF Dispatch, TypeOK
        <4>2. CASE i = 1
          <5>1. StartTimeout(s, u)
            <6>1. Head(inbox[p]) = <<c, u>>
              BY <2>0, <3>1, <4>1, <4>2, HeadOfInbox
            <6>2. <<p, Head(inbox[p])[1]>> = s /\ Head(inbox[p])[2] = u
              BY <2>0, <6>1
            <6>3. StartTimeout(<<p, Head(inbox[p])[1]>>, Head(inbox[p])[2])
              BY <3>4 DEF Dispatch
            <6> QED BY <6>2, <6>3
          <5>2. s \in loaded /\ left[s][u] = 0
            <6>1. s \in loaded /\ (left[s][u] > 0 => started[s][u] > 0)
              BY <2>0, <2>3 DEF Counted
            <6>2. left[s][u] \in 0 .. Minutes /\ Minutes \in Nat
              BY <2>0, HellbanAssumption DEF TypeOK
            <6> QED BY <2>3, <6>1, <6>2
          <5>3. started'[s][u] = started[s][u] + 1
            BY <2>0, <5>1, <5>2 DEF StartTimeout, TypeOK
          <5> QED BY <2>3, <5>3
        <4>3. CASE i # 1
          <5>1. i - 1 \in 1 .. Len(inbox'[p]) /\ inbox'[p][i - 1] = inbox[p][i]
            BY <2>0, <3>1, <4>1, <4>3
          <5> QED BY <2>2, <3>1, <5>1
        <4> QED BY <4>2, <4>3
      <3>5. CASE \E q \in Procs : Crash(q)
        <4>1. PICK q \in Procs : Crash(q)
          BY <3>5
        <4>2. q # p
          BY <1>3, <2>0, <4>1 DEF Crash, Drop
        <4> QED BY <2>0, <3>2, <4>1, <4>2 DEF Crash, TypeOK
      <3>6. CASE ~\E e \in Checks : Publish(e)
        <4>1. CASE \E q \in Procs : Dispatch(q)
          BY <2>0, <3>2, <3>4, <4>1 DEF Dispatch, TypeOK
        <4>2. CASE ~\E q \in Procs : Dispatch(q) \/ Crash(q)
          BY <3>2, <3>6, <4>2, Cases
             DEF vars, Begin, Silence, FindSpam, PassOrFail, UseSet, PublishFails,
                 Invalidate, Tick
        <4> QED BY <3>5, <4>1, <4>2
      <3> QED BY <3>3, <3>6
    <2>4. CASE o \notin owed
      <3>1. PICK e \in Checks : Publish(e)
        BY <1>3, <2>4, Cases
           DEF vars, Begin, Silence, FindSpam, PassOrFail, UseSet, PublishFails,
               Dispatch, Crash, Drop, Invalidate, Tick
      <3>2. u = sender[e] /\ c = set[e][2] /\ inbox'[p] = Append(inbox[p], <<c, u>>)
        <4>1. PICK reached \in SUBSET listening :
                 /\ inbox' = [q \in Procs |-> IF q \in reached
                                  THEN Append(inbox[q], <<set[e][2], sender[e]>>) ELSE inbox[q]]
                 /\ owed' = owed \cup
                      {<<t, sender[e]>> : t \in {x \in loaded : x[1] \in reached /\ x[2] = set[e][2]}}
          BY <3>1 DEF Publish
        <4>2. \E t \in {x \in loaded : x[1] \in reached /\ x[2] = set[e][2]} : o = <<t, sender[e]>>
          BY <1>3, <2>4, <4>1
        <4>3. p \in reached /\ c = set[e][2] /\ u = sender[e]
          BY <2>0, <4>2
        <4> QED BY <2>0, <4>1, <4>3
      <3>3. Len(inbox'[p]) \in 1 .. Len(inbox'[p]) /\ inbox'[p][Len(inbox'[p])] = <<c, u>>
        <4>1. inbox[p] \in Seq(Communities \X Users) /\ <<c, u>> \in Communities \X Users
          BY <2>0 DEF Sets
        <4>2. /\ Append(inbox[p], <<c, u>>)[Len(inbox[p]) + 1] = <<c, u>>
              /\ Len(Append(inbox[p], <<c, u>>)) = Len(inbox[p]) + 1 /\ Len(inbox[p]) \in Nat
          <5> HIDE DEF c, u, p
          <5> QED BY <4>1, AppendProperties
        <4>3. inbox'[p] = Append(inbox[p], <<c, u>>)
          BY <3>2
        <4>4. Len(inbox'[p]) = Len(inbox[p]) + 1 /\ inbox'[p][Len(inbox[p]) + 1] = <<c, u>>
          BY <4>2, <4>3
        <4>5. \A n \in Nat : n + 1 \in 1 .. n + 1
          OBVIOUS
        <4>6. Len(inbox[p]) \in Nat
          BY <4>2
        <4> QED BY <4>4, <4>5, <4>6
      <3> QED BY <2>2, <3>3
    <2>5. started[s][u] \in Nat
      BY <2>0 DEF TypeOK
    <2> QED BY <2>1, <2>3, <2>4, <2>5
  <1> QED BY <1>1, <1>2, <1>3 DEF Counted, ToldSetsSilence

(* All of it holds initially, where nothing has been checked.              *)
LEMMA AtInit ==
    ASSUME Init
    PROVE  TypeOK /\ Grounded /\ Counted
  <1> USE HellbanAssumption DEF Init, Nobody
  <1>1. TypeOK
    BY DEF TypeOK
  <1>2. Grounded
    BY DEF Grounded
  <1>3. Counted
    BY DEF Counted, ToldSetsSilence
  <1> QED BY <1>1, <1>2, <1>3

(* The inductive invariant.                                                *)
THEOREM Invariant == Spec => [](TypeOK /\ Grounded /\ Counted)
  <1>1. Init => TypeOK /\ Grounded /\ Counted
    BY AtInit
  <1>2. TypeOK /\ Grounded /\ Counted /\ [Next]_vars => (TypeOK /\ Grounded /\ Counted)'
    BY TypeStep, GroundedStep, CountedStep
  <1> QED BY <1>1, <1>2, PTL DEF Spec

(* The variables of the hellban keep their types.                          *)
THEOREM TypeCorrect == Spec => []TypeOK
  BY Invariant, PTL

(* Only who sent a spammy event to the community is ever in a timeout.     *)
THEOREM OnlySpammers == Spec => []OnlySpammersSilenced
  <1>1. TypeOK /\ Grounded => OnlySpammersSilenced
    <2> SUFFICES ASSUME TypeOK, Grounded, NEW s \in Sets, NEW u \in Users, left[s][u] > 0
                 PROVE  spam \cap About(s[2], u) # {}
      BY DEF OnlySpammersSilenced
    <2>1. PICK g \in spam : stage[g] # "idle" /\ set[g][2] = s[2] /\ sender[g] = u
      BY DEF Grounded, Guilty
    <2> QED BY <2>1 DEF About, TypeOK
  <1> QED BY <1>1, Invariant, PTL

(* A set that was told of a spammy sender silences it.                     *)
THEOREM ToldSets == Spec => []ToldSetsSilence
  <1>1. Counted => ToldSetsSilence
    BY DEF Counted
  <1> QED BY <1>1, Invariant, PTL

(* Neither repeated events nor anything else extends a timeout under way.  *)
THEOREM NoExtension == Spec => TimeoutsOnlyRunOut
  <1>1. TypeOK /\ [Next]_vars =>
          [\A s \in Sets, u \in Users :
              left[s][u] > 0 => left'[s][u] \in {left[s][u], left[s][u] - 1, 0}]_vars
    <2> SUFFICES ASSUME TypeOK, [Next]_vars, NEW s \in Sets, NEW u \in Users, left[s][u] > 0
                 PROVE  left'[s][u] \in {left[s][u], left[s][u] - 1, 0}
      OBVIOUS
    <2> QED BY TimeoutStep
  <1> QED BY <1>1, Invariant, PTL DEF Spec, TimeoutsOnlyRunOut
(***************************************************************************)
(* The budget of timeouts: what a publication may start on a process is    *)
(* its notification, as long as it is in transit, and then the timeout     *)
(* that the notification started.                                          *)
(***************************************************************************)

LEMMA Budget ==
    ASSUME TypeOK, NEW s \in Sets, NEW u \in Users
    PROVE  /\ IsFiniteSet(Published(s[2], u)) /\ Cardinality(Published(s[2], u)) \in Nat
           /\ IsFiniteSet(InTransit(s[1], s[2], u))
           /\ Cardinality(InTransit(s[1], s[2], u)) \in Nat
           /\ started[s][u] \in Nat /\ inbox[s[1]] \in Seq(Communities \X Users)
           /\ Len(inbox[s[1]]) \in Nat /\ s[1] \in Procs /\ s = <<s[1], s[2]>>
  <1>1. s[1] \in Procs /\ s = <<s[1], s[2]>>
    BY DEF Sets
  <1>2. Published(s[2], u) \in SUBSET Checks
    BY DEF Published, About
  <1>3. inbox[s[1]] \in Seq(Communities \X Users) /\ Len(inbox[s[1]]) \in Nat
    BY <1>1 DEF TypeOK
  <1>4. IsFiniteSet(1 .. Len(inbox[s[1]]))
    BY <1>3, FS_Interval
  <1>5. InTransit(s[1], s[2], u) \in SUBSET (1 .. Len(inbox[s[1]]))
    BY DEF InTransit
  <1>6. IsFiniteSet(Published(s[2], u)) /\ IsFiniteSet(InTransit(s[1], s[2], u))
    BY <1>2, <1>4, <1>5, FS_Subset, HellbanAssumption
  <1>7. started[s][u] \in Nat
    BY DEF TypeOK
  <1> QED BY <1>1, <1>3, <1>6, <1>7, FS_CardinalityType

(* What is published stays so, and counts for the same user and community. *)
LEMMA PublishedStays ==
    ASSUME TypeOK, [Next]_vars, NEW s \in Sets, NEW u \in Users
    PROVE  /\ IsFiniteSet(Published(s[2], u)')
           /\ Cardinality(Published(s[2], u)') \in Nat
           /\ Cardinality(Published(s[2], u)) <= Cardinality(Published(s[2], u)')
  <1>1. \A e \in Published(s[2], u) : e \in Published(s[2], u)'
    BY ChecksStep DEF Published, About
  <1>2. Published(s[2], u)' \in SUBSET Checks
    BY DEF Published, About
  <1>3. IsFiniteSet(Published(s[2], u)')
    BY <1>2, FS_Subset, HellbanAssumption
  <1>4. Published(s[2], u) \in SUBSET (Published(s[2], u)')
    BY <1>1
  <1> QED BY <1>3, <1>4, FS_Subset, FS_CardinalityType

LEMMA BudgetAfter ==
    ASSUME TypeOK, [Next]_vars, NEW s \in Sets, NEW u \in Users
    PROVE  started'[s][u] \in Nat /\ Cardinality(InTransit(s[1], s[2], u)') \in Nat
  <1>1. TypeOK'
    BY TypeStep
  <1>2. started'[s][u] \in Nat /\ inbox'[s[1]] \in Seq(Communities \X Users)
    BY <1>1 DEF TypeOK, Sets
  <1>3. IsFiniteSet(1 .. Len(inbox'[s[1]]))
    BY <1>2, FS_Interval
  <1>4. InTransit(s[1], s[2], u)' \in SUBSET (1 .. Len(inbox'[s[1]]))
    BY DEF InTransit
  <1> QED BY <1>2, <1>3, <1>4, FS_Subset, FS_CardinalityType

(* A publication adds to what is in transit no more than it adds to what   *)
(* is published.                                                           *)
LEMMA PublishBudget ==
    ASSUME TypeOK, NEW e \in Checks, Publish(e), NEW s \in Sets, NEW u \in Users
    PROVE  /\ started'[s][u] = started[s][u]
           /\ Cardinality(InTransit(s[1], s[2], u)') - Cardinality(InTransit(s[1], s[2], u))
                 <= Cardinality(Published(s[2], u)') - Cardinality(Published(s[2], u))
  <1> DEFINE P == Published(s[2], u)
             T == InTransit(s[1], s[2], u)
             q == inbox[s[1]]
             m == <<set[e][2], sender[e]>>
  <1>0. /\ IsFiniteSet(P) /\ Cardinality(P) \in Nat /\ IsFiniteSet(T) /\ Cardinality(T) \in Nat
        /\ q \in Seq(Communities \X Users) /\ Len(q) \in Nat /\ s[1] \in Procs
    BY Budget
  <1>1. /\ started' = started /\ set' = set /\ sender' = sender
        /\ stage[e] = "publish" /\ stage' = [stage EXCEPT ![e] = "published"]
        /\ m \in Communities \X Users
    BY DEF Publish, TypeOK, Sets
  <1>2. inbox'[s[1]] = q \/ inbox'[s[1]] = Append(q, m)
    BY <1>0 DEF Publish
  <1>3. ASSUME m = <<s[2], u>>
        PROVE  /\ Cardinality(P') = Cardinality(P) + 1
               /\ Cardinality(T') <= Cardinality(T) + 1
    <2>1. P' = P \cup {e} /\ e \notin P
      BY <1>1, <1>3 DEF Published, About, TypeOK
    <2>2. T' \in SUBSET (T \cup {Len(q) + 1})
      <3>1. CASE inbox'[s[1]] = q
        BY <3>1 DEF InTransit
      <3>2. CASE inbox'[s[1]] = Append(q, m)
        <4>1. /\ Len(Append(q, m)) = Len(q) + 1
              /\ \A i \in 1 .. Len(q) : Append(q, m)[i] = q[i]
          BY <1>0, <1>1, AppendProperties
        <4>2. \A i : i \in 1 .. Len(q) + 1 <=> i \in 1 .. Len(q) \/ i = Len(q) + 1
          BY <1>0
        <4> QED BY <3>2, <4>1, <4>2 DEF InTransit
      <3> QED BY <1>2, <3>1, <3>2
    <2> HIDE DEF P, T
    <2>3. /\ IsFiniteSet(T \cup {Len(q) + 1})
          /\ Cardinality(T \cup {Len(q) + 1}) \in {Cardinality(T), Cardinality(T) + 1}
      BY <1>0, FS_AddElement
    <2>4. IsFiniteSet(T') /\ Cardinality(T') <= Cardinality(T \cup {Len(q) + 1})
      BY <2>2, <2>3, FS_Subset
    <2>5. Cardinality(T') \in Nat
      BY <2>4, FS_CardinalityType
    <2>6. Cardinality(P') = Cardinality(P) + 1
      BY <1>0, <2>1, FS_AddElement
    <2> QED BY <1>0, <2>3, <2>4, <2>5, <2>6
  <1>4. ASSUME m # <<s[2], u>> PROVE P' = P /\ T' = T
    <2>1. P' = P
      BY <1>1, <1>4 DEF Published, About, TypeOK
    <2>2. CASE inbox'[s[1]] = q
      BY <2>1, <2>2 DEF InTransit
    <2>3. CASE inbox'[s[1]] = Append(q, m)
      <3>1. /\ Len(Append(q, m)) = Len(q) + 1
            /\ \A i \in 1 .. Len(q) : Append(q, m)[i] = q[i]
            /\ Append(q, m)[Len(q) + 1] = m
        BY <1>0, <1>1, AppendProperties
      <3>2. \A i : i \in 1 .. Len(q) + 1 <=> i \in 1 .. Len(q) \/ i = Len(q) + 1
        BY <1>0
      <3> QED BY <1>4, <2>1, <2>3, <3>1, <3>2 DEF InTransit
    <2> QED BY <1>2, <2>2, <2>3
  <1>5. P' = Published(s[2], u)' /\ T' = InTransit(s[1], s[2], u)'
    OBVIOUS
  <1> HIDE DEF P, T
  <1>6. Cardinality(T') - Cardinality(T) <= Cardinality(P') - Cardinality(P)
    <2>1. CASE m = <<s[2], u>>
      <3>1. Cardinality(T') \in Nat
        <4>1. Next
          BY DEF Next
        <4> QED BY <4>1, BudgetAfter DEF T
      <3> QED BY <1>0, <1>3, <2>1, <3>1
    <2>2. CASE m # <<s[2], u>>
      BY <1>0, <1>4, <2>2
    <2> QED BY <2>1, <2>2
  <1> QED BY <1>1, <1>6 DEF P, T

(* A notification that is dispatched leaves the queue, for a timeout at    *)
(* most; those behind it move up.                                          *)
LEMMA DispatchBudget ==
    ASSUME TypeOK, NEW p \in Procs, Dispatch(p), NEW s \in Sets, NEW u \in Users
    PROVE  started'[s][u] + Cardinality(InTransit(s[1], s[2], u)')
              <= started[s][u] + Cardinality(InTransit(s[1], s[2], u))
  <1> DEFINE T == InTransit(s[1], s[2], u)
             q == inbox[p]
  <1>0. /\ IsFiniteSet(T) /\ Cardinality(T) \in Nat /\ started[s][u] \in Nat
        /\ s[1] \in Procs /\ s = <<s[1], s[2]>>
    BY Budget
  <1>1. /\ q # <<>> /\ inbox' = [inbox EXCEPT ![p] = Tail(@)]
        /\ Head(q) = q[1] /\ StartTimeout(<<p, q[1][1]>>, q[1][2])
    BY HeadOfInbox DEF Dispatch
  <1>2. /\ started'[s][u] \in {started[s][u], started[s][u] + 1}
        /\ started'[s][u] # started[s][u] => s = <<p, q[1][1]>> /\ u = q[1][2]
    <2>1. ASSUME NEW t \in Sets, NEW v \in Users, StartTimeout(t, v)
          PROVE  \/ started'[s][u] = started[s][u]
                 \/ started'[s][u] = started[s][u] + 1 /\ s = t /\ u = v
      <3>1. CASE UNCHANGED <<left, started>>
        BY <3>1
      <3>2. CASE started' = [started EXCEPT ![t][v] = @ + 1]
        BY <3>2 DEF TypeOK
      <3> QED BY <2>1, <3>1, <3>2 DEF StartTimeout
    <2>2. <<p, q[1][1]>> \in Sets /\ q[1][2] \in Users
      BY <1>1, HeadOfInbox
    <2> QED BY <1>1, <2>1, <2>2
  <1>3. CASE s[1] # p
    <2>1. inbox'[s[1]] = inbox[s[1]]
      BY <1>0, <1>1, <1>3 DEF TypeOK
    <2>2. InTransit(s[1], s[2], u)' = T
      BY <2>1 DEF InTransit
    <2>3. started'[s][u] = started[s][u]
      BY <1>2, <1>3
    <2> QED BY <1>0, <2>2, <2>3
  <1>4. CASE s[1] = p
    <2> DEFINE U == InTransit(s[1], s[2], u)'
               up == [i \in U |-> i + 1]
    <2>1. /\ inbox'[p] = Tail(q) /\ 1 \in 1 .. Len(q)
          /\ \A i \in 1 .. Len(Tail(q)) : i + 1 \in 1 .. Len(q) /\ Tail(q)[i] = q[i + 1]
      BY <1>1, HeadOfInbox DEF TypeOK
    <2>2. U = {i \in 1 .. Len(Tail(q)) : Tail(q)[i] = <<s[2], u>>}
      BY <1>4, <2>1 DEF InTransit
    <2>3. T = {i \in 1 .. Len(q) : q[i] = <<s[2], u>>}
      BY <1>4 DEF InTransit
    <2>4. \A i \in U : i + 1 \in T \ {1} /\ i \in Nat
      <3>1. Len(Tail(q)) \in Nat
        BY <1>1, HeadOfInbox
      <3> QED BY <2>1, <2>2, <2>3, <3>1
    <2>5. up \in Injection(U, T \ {1})
      <3> HIDE DEF U, T
      <3>1. up \in [U -> T \ {1}]
        BY <2>4
      <3>2. IsInjective(up)
        BY <2>4 DEF IsInjective
      <3> QED BY <3>1, <3>2 DEF Injection
    <2> HIDE DEF U, T, up
    <2>6. /\ IsFiniteSet(T \ {1}) /\ Cardinality(T \ {1}) \in Nat
          /\ Cardinality(T \ {1}) = IF 1 \in T THEN Cardinality(T) - 1 ELSE Cardinality(T)
      BY <1>0, FS_RemoveElement, FS_CardinalityType
    <2>7. Cardinality(U) \in Nat /\ Cardinality(U) <= Cardinality(T \ {1})
      BY <2>5, <2>6, FS_Injection, FS_CardinalityType
    <2>8. started'[s][u] # started[s][u] => 1 \in T
      <3>1. started'[s][u] # started[s][u] => q[1] = <<s[2], u>>
        <4>1. q[1] \in Communities \X Users
          BY <1>1, HeadOfInbox DEF TypeOK
        <4> QED BY <1>2, <4>1
      <3> QED BY <2>1, <2>3, <3>1
    <2>9. U = InTransit(s[1], s[2], u)'
      BY DEF U
    <2> QED BY <1>0, <1>2, <2>6, <2>7, <2>8, <2>9 DEF T
  <1> QED BY <1>3, <1>4

(* No other step starts a timeout or sends a notification.                 *)
LEMMA OtherBudget ==
    ASSUME TypeOK, [Next]_vars, NEW s \in Sets, NEW u \in Users,
           ~\E e \in Checks : Publish(e), ~\E p \in Procs : Dispatch(p)
    PROVE  /\ started'[s][u] = started[s][u]
           /\ Cardinality(InTransit(s[1], s[2], u)') \in Nat
           /\ Cardinality(InTransit(s[1], s[2], u)') <= Cardinality(InTransit(s[1], s[2], u))
  <1>0. /\ IsFiniteSet(InTransit(s[1], s[2], u)) /\ s[1] \in Procs
    BY Budget
  <1>1. started' = started /\ (inbox'[s[1]] = inbox[s[1]] \/ inbox'[s[1]] = <<>>)
    <2>1. CASE \E p \in Procs : Crash(p)
      BY <1>0, <2>1 DEF Crash, TypeOK
    <2>2. CASE ~\E p \in Procs : Crash(p)
      BY <2>2, Cases
         DEF vars, Begin, Silence, FindSpam, PassOrFail, UseSet, PublishFails, Invalidate, Tick
    <2> QED BY <2>1, <2>2
  <1>2. InTransit(s[1], s[2], u)' \in SUBSET InTransit(s[1], s[2], u)
    <2>1. CASE inbox'[s[1]] = inbox[s[1]]
      BY <2>1 DEF InTransit
    <2>2. CASE inbox'[s[1]] = <<>>
      BY <2>2 DEF InTransit
    <2> QED BY <1>1, <2>1, <2>2
  <1> QED BY <1>0, <1>1, <1>2, FS_Subset, FS_CardinalityType

LEMMA OnePerPublicationStep ==
    ASSUME TypeOK, OneTimeoutPerPublication, [Next]_vars
    PROVE  OneTimeoutPerPublication'
  <1> SUFFICES ASSUME NEW s \in Sets, NEW u \in Users
               PROVE  started'[s][u] + Cardinality(InTransit(s[1], s[2], u)')
                         <= Cardinality(Published(s[2], u)')
    BY DEF OneTimeoutPerPublication
  <1>1. started[s][u] + Cardinality(InTransit(s[1], s[2], u)) <= Cardinality(Published(s[2], u))
    BY DEF OneTimeoutPerPublication
  <1>2. /\ started[s][u] \in Nat /\ Cardinality(Published(s[2], u)) \in Nat
        /\ Cardinality(InTransit(s[1], s[2], u)) \in Nat
    BY Budget
  <1>3. /\ Cardinality(Published(s[2], u)') \in Nat
        /\ Cardinality(Published(s[2], u)) <= Cardinality(Published(s[2], u)')
    BY PublishedStays
  <1>5. started'[s][u] \in Nat /\ Cardinality(InTransit(s[1], s[2], u)') \in Nat
    BY BudgetAfter
  <1>6. CASE \E e \in Checks : Publish(e)
    BY <1>1, <1>2, <1>3, <1>5, <1>6, PublishBudget
  <1>7. CASE \E p \in Procs : Dispatch(p)
    BY <1>1, <1>2, <1>3, <1>5, <1>7, DispatchBudget
  <1>8. CASE (~\E e \in Checks : Publish(e)) /\ ~\E p \in Procs : Dispatch(p)
    BY <1>1, <1>2, <1>3, <1>5, <1>8, OtherBudget
  <1> QED BY <1>6, <1>7, <1>8

(* However notifications and replacements of the sets interleave, a        *)
(* process starts no more timeouts for a user than there were publications.*)
THEOREM OnePerPublication == Spec => []OneTimeoutPerPublication
  <1>1. Init => OneTimeoutPerPublication
    <2> SUFFICES ASSUME Init, NEW s \in Sets, NEW u \in Users
                 PROVE  started[s][u] + Cardinality(InTransit(s[1], s[2], u))
                           <= Cardinality(Published(s[2], u))
      BY DEF OneTimeoutPerPublication
    <2>1. InTransit(s[1], s[2], u) = {} /\ started[s][u] = 0
      BY DEF Init, InTransit, Sets, Nobody
    <2>2. Published(s[2], u) = {}
      BY DEF Init, Published, About
    <2> QED BY <2>1, <2>2, FS_EmptySet
  <1>2. TypeOK /\ OneTimeoutPerPublication /\ [Next]_vars => OneTimeoutPerPublication'
    BY OnePerPublicationStep
  <1> QED BY <1>1, <1>2, TypeCorrect, PTL DEF Spec
=============================================================================
