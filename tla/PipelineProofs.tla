-------------------------- MODULE PipelineProofs ----------------------------
(***************************************************************************)
(* Proofs about the pipeline, for all tables, groups (in a circle too),    *)
(* instructions, lists, bands and numbers of packets and buffers:          *)
(*                                                                         *)
(*   AgreeHolds  the calls on the stack and the packets agree (Agree)      *)
(*   OwnedHolds  Pipeline!EachPacketIsOwned                                *)
(*   MeterHolds  Pipeline!MeterKeepsRate                                   *)
(*   SharesHold  Pipeline!SharesByWeight                                   *)
(*   SelectsABucketHolds  a group with buckets selects one                 *)
(*   OutputsHold  PipelineOutcomes!OutputsAsPromised, of groups whose      *)
(*                buckets put the packet out                               *)
(*                                                                         *)
(* EachPacketIsOwned says that the packets are those that calls work on and*)
(* those in buffers.  It is not inductive: a call that destroys its packet *)
(* must know that no other call works on the same one.  Agree adds that    *)
(* two calls share a packet only if the inner one is a list of actions and *)
(* the outer one, next to it, the call that runs the list; so the call that*)
(* destroys a packet is the last one that has it, and a packet that is     *)
(* overwritten in its buffer is one that no call works on.                 *)
(*                                                                         *)
(* MeterKeepsRate follows from what tokens pay for (MeterAgrees): packets  *)
(* that passed since the refill and the tokens left come to a bucket at    *)
(* most, and before the first loss to one refill at least.                 *)
(*                                                                         *)
(* SharesByWeight follows from WrrsAgree, which says how often each bucket *)
(* of a group was chosen in a round by the place and the weight at which   *)
(* the selection stands (Given).                                           *)
(*                                                                         *)
(* OutputsAsPromised follows from what the calls on the stack still owe    *)
(* (Promised).  Between two calls there is a set of pairs: what was put out*)
(* when the inner one returns, and the header that its packet then has.    *)
(* Each call leads from one set to the next (LeadsOver): whatever the rules*)
(* say it gives, put behind what was put out before, is in the set of the  *)
(* call below, and what is in the set of the last one is an outcome of the *)
(* walk.  A step replaces the innermost call by what it does next (StepOn),*)
(* by its return (StepPop), or by a call of its own before it goes on      *)
(* (StepCall), and one rule of PipelineOutcomes says of each step that the *)
(* new call gives nothing that the old one did not.  Of the packet that    *)
(* the calls share the sets have only the header, so this needs Agree: the *)
(* packet of an outer call is the same when the inner one is done, but for *)
(* the header, and that only if the inner one is its list.  The array that *)
(* the code keeps sorted is the set of the rules (IsSet, WriteActionsIs),  *)
(* and the outputs noted in the packet are the end of it (Left).           *)
(***************************************************************************)
EXTENDS PipelineOutcomes, ListLemmas, FiniteSetTheorems, TLAPS

-----------------------------------------------------------------------------
(* Stacks of calls *)

IsStack(w) == \E S : w \in Seq(S)

Onto(f, w) == <<f>> \o w

Calls == {"process", "table", "insts", "list", "set", "group", "all", "destroy"}

\* The calls of the stack w that work on a packet: all but the last.
Inner(w) == 1..(Len(w) - 1)

Worked(w) == {w[i].pkt : i \in Inner(w)}

\* A call of the program that works on a packet.
IsCall(f) == {"op", "pkt"} \subseteq DOMAIN f /\ f.op \in Calls

\* The last call is the handler's.  Two calls work on one packet only if the
\* inner one is a list of actions and the outer one the call that runs it.
StackAgrees(w) ==
  /\ IsStack(w)
  /\ w # <<>> => w[Len(w)] = Handler
  /\ \A i \in Inner(w) : IsCall(w[i])
  /\ \A i \in Inner(w) : w[i].op = "list" =>
       i + 1 \in Inner(w) /\ w[i + 1].op \in {"insts", "destroy"} /\ w[i + 1].pkt = w[i].pkt
  /\ \A i, j \in Inner(w) : i < j /\ w[i].pkt = w[j].pkt => w[i].op = "list" /\ j = i + 1

\* r has the fields of a packet.
IsPacket(r) == {"hdr", "in_port", "set", "out_port", "out_group", "packet_out", "saved"} \subseteq DOMAIN r

SavedIn(ps) == {p \in DOMAIN ps : ps[p].saved}

\* The packets are those that the calls work on and those in buffers.
PacketsAgree(w, ps) ==
  /\ IsFiniteSet(DOMAIN ps)
  /\ \A p \in DOMAIN ps : IsPacket(ps[p])
  /\ Worked(w) \subseteq DOMAIN ps
  /\ DOMAIN ps \subseteq Worked(w) \cup SavedIn(ps)

Agree(w, ps) == StackAgrees(w) /\ PacketsAgree(w, ps)

LEMMA PushShape ==
  ASSUME NEW w, IsStack(w), NEW f
  PROVE  /\ IsStack(Onto(f, w)) /\ Len(w) \in Nat
         /\ Onto(f, w) # <<>> /\ Len(Onto(f, w)) = Len(w) + 1 /\ Onto(f, w)[1] = f
         /\ \A i \in 1..Len(w) : Onto(f, w)[i + 1] = w[i]
         /\ Head(Onto(f, w)) = f /\ Tail(Onto(f, w)) = w
<1>1. PICK S : w \in Seq(S) BY DEF IsStack
<1>2. w \in Seq(S \cup {f}) /\ <<f>> \in Seq(S \cup {f}) BY <1>1
<1>3. Onto(f, w) \in Seq(S \cup {f}) /\ Len(Onto(f, w)) = Len(w) + 1 /\ Onto(f, w)[1] = f
  BY <1>2 DEF Onto
<1>4. \A i \in 1..Len(w) : Onto(f, w)[i + 1] = w[i] BY <1>2 DEF Onto
<1>5. Onto(f, w) # <<>> /\ Len(w) \in Nat BY <1>2, <1>3
<1>6. Tail(Onto(f, w)) = w /\ Head(Onto(f, w)) = f
  <2> DEFINE q == Onto(f, w)
  <2> HIDE DEF q
  <2>1. q \in Seq(S \cup {f}) /\ Len(q) = Len(w) + 1 /\ q[1] = f /\ q # <<>>
        /\ \A i \in 1..Len(w) : q[i + 1] = w[i]
    BY <1>3, <1>4, <1>5 DEF q
  <2>2. Tail(q) \in Seq(S \cup {f}) /\ Len(Tail(q)) = Len(w) BY <1>2, <2>1
  <2>3. \A i \in 1..Len(w) : Tail(q)[i] = w[i] BY <1>2, <2>1
  <2>4. Tail(q) = w BY <1>2, <2>2, <2>3
  <2>5. QED BY <2>1, <2>4 DEF q
<1>7. QED BY <1>3, <1>4, <1>5, <1>6 DEF IsStack

LEMMA PopShape ==
  ASSUME NEW w, IsStack(w), w # <<>>
  PROVE  /\ IsStack(Tail(w)) /\ Len(Tail(w)) \in Nat /\ Len(w) = Len(Tail(w)) + 1
         /\ Head(w) = w[1] /\ \A i \in 1..Len(Tail(w)) : Tail(w)[i] = w[i + 1]
<1>1. PICK S : w \in Seq(S) BY DEF IsStack
<1>2. Tail(w) \in Seq(S) BY <1>1
<1>3. QED BY <1>1, <1>2 DEF IsStack

LEMMA EmptyStack ==
  ASSUME NEW w, IsStack(w)
  PROVE  w = <<>> <=> Len(w) = 0
<1>1. PICK S : w \in Seq(S) BY DEF IsStack
<1>2. QED BY <1>1

\* What becomes of the calls when one is pushed and when one returns.
LEMMA CallPushed ==
  ASSUME NEW w, IsStack(w), w # <<>>, NEW f
  PROVE  /\ \A i : i \in Inner(Onto(f, w)) <=> i = 1 \/ (i - 1 \in Inner(w) /\ i \in Int)
         /\ \A i \in Inner(w) : i + 1 \in Inner(Onto(f, w)) /\ Onto(f, w)[i + 1] = w[i]
         /\ Onto(f, w)[1] = f
         /\ Worked(Onto(f, w)) = Worked(w) \cup {f.pkt}
         /\ Onto(f, w)[Len(Onto(f, w))] = w[Len(w)]
<1>1. Len(w) \in Nat \ {0}
  <2>1. PICK S : w \in Seq(S) BY DEF IsStack
  <2>2. QED BY <2>1
<1>2. \A i : i \in Inner(Onto(f, w)) <=> i = 1 \/ (i - 1 \in Inner(w) /\ i \in Int)
  BY <1>1, PushShape DEF Inner
<1>3. \A i \in Inner(w) : i + 1 \in Inner(Onto(f, w)) /\ Onto(f, w)[i + 1] = w[i]
  BY <1>1, PushShape DEF Inner
<1>4. 1 \in Inner(Onto(f, w)) /\ Onto(f, w)[1] = f BY <1>2, PushShape
<1>5. Worked(Onto(f, w)) = Worked(w) \cup {f.pkt}
  <2>1. ASSUME NEW i \in Inner(Onto(f, w)) PROVE Onto(f, w)[i].pkt \in Worked(w) \cup {f.pkt}
    <3>1. CASE i = 1 BY <1>4, <3>1
    <3>2. CASE i - 1 \in Inner(w) /\ i \in Int
      <4>1. i - 1 + 1 = i BY <3>2
      <4>2. Onto(f, w)[i] = w[i - 1] BY <1>3, <3>2, <4>1
      <4>3. QED BY <3>2, <4>2 DEF Worked
    <3>3. QED BY <1>2, <3>1, <3>2
  <2>2. ASSUME NEW i \in Inner(w) PROVE w[i].pkt \in Worked(Onto(f, w)) BY <1>3 DEF Worked
  <2>3. QED BY <1>4, <2>1, <2>2 DEF Worked
<1>6. Onto(f, w)[Len(Onto(f, w))] = w[Len(w)] BY <1>1, PushShape
<1>7. QED BY <1>2, <1>3, <1>4, <1>5, <1>6

LEMMA CallPopped ==
  ASSUME NEW w, StackAgrees(w), w # <<>>
  PROVE  /\ \A i \in Inner(Tail(w)) : i + 1 \in Inner(w) /\ Tail(w)[i] = w[i + 1]
         /\ \A i \in Inner(w) : i # 1 => i - 1 \in Inner(Tail(w)) /\ Tail(w)[i - 1] = w[i]
         /\ Head(w) = w[1]
         /\ Head(w).op # "return" => 1 \in Inner(w) /\ Tail(w) # <<>>
         /\ StackAgrees(Tail(w))
<1>1. /\ IsStack(Tail(w)) /\ Len(Tail(w)) \in Nat /\ Len(w) = Len(Tail(w)) + 1
      /\ Head(w) = w[1] /\ \A i \in 1..Len(Tail(w)) : Tail(w)[i] = w[i + 1]
  BY PopShape DEF StackAgrees
<1>2. \A i \in Inner(Tail(w)) : i + 1 \in Inner(w) /\ Tail(w)[i] = w[i + 1] BY <1>1 DEF Inner
<1>3. ASSUME NEW i \in Inner(w), i # 1 PROVE i - 1 \in Inner(Tail(w)) /\ Tail(w)[i - 1] = w[i]
  <2>1. i - 1 \in Inner(Tail(w)) /\ i - 1 + 1 = i BY <1>1, <1>3 DEF Inner
  <2>2. QED BY <1>2, <2>1
<1>4. Head(w).op # "return" => 1 \in Inner(w) /\ Tail(w) # <<>>
  <2>1. Head(w).op # "return" => Len(w) # 1 BY <1>1 DEF StackAgrees, Handler
  <2>2. Len(w) # 1 => 1 \in Inner(w) BY <1>1 DEF Inner
  <2>3. Tail(w) = <<>> => Len(Tail(w)) = 0 BY <1>1, EmptyStack
  <2>4. QED BY <1>1, <2>1, <2>2, <2>3
<1>5. StackAgrees(Tail(w))
  <2>1. Tail(w) # <<>> => Tail(w)[Len(Tail(w))] = Handler
    <3>1. Tail(w) # <<>> => Len(Tail(w)) # 0 BY <1>1, EmptyStack
    <3>2. QED BY <1>1, <3>1 DEF StackAgrees
  <2>2. ASSUME NEW i \in Inner(Tail(w)) PROVE IsCall(Tail(w)[i]) BY <1>2 DEF StackAgrees
  <2>3. ASSUME NEW i \in Inner(Tail(w)), Tail(w)[i].op = "list"
        PROVE  /\ i + 1 \in Inner(Tail(w)) /\ Tail(w)[i + 1].op \in {"insts", "destroy"}
               /\ Tail(w)[i + 1].pkt = Tail(w)[i].pkt
    <3>1. i + 1 \in Inner(w) /\ Tail(w)[i] = w[i + 1] BY <1>2
    <3>2. i + 1 + 1 \in Inner(w) /\ w[i + 1 + 1].op \in {"insts", "destroy"} /\ w[i + 1 + 1].pkt = w[i + 1].pkt
      BY <2>3, <3>1 DEF StackAgrees
    <3> DEFINE k == i + 1 + 1
    <3>3. k # 1 /\ k - 1 = i + 1 /\ k \in Inner(w) BY <3>2 DEF Inner
    <3> HIDE DEF k
    <3>6. k - 1 \in Inner(Tail(w)) /\ Tail(w)[k - 1] = w[k] BY <1>3, <3>3
    <3>4. i + 1 \in Inner(Tail(w)) /\ Tail(w)[i + 1] = w[i + 1 + 1] BY <3>3, <3>6 DEF k
    <3>5. QED BY <3>1, <3>2, <3>4
  <2>4. ASSUME NEW i \in Inner(Tail(w)), NEW j \in Inner(Tail(w)), i < j, Tail(w)[i].pkt = Tail(w)[j].pkt
        PROVE  Tail(w)[i].op = "list" /\ j = i + 1
    <3>1. /\ i + 1 \in Inner(w) /\ Tail(w)[i] = w[i + 1]
          /\ j + 1 \in Inner(w) /\ Tail(w)[j] = w[j + 1]
      BY <1>2
    <3>2. i + 1 < j + 1 /\ i \in Int /\ j \in Int BY <2>4 DEF Inner
    <3>3. w[i + 1].pkt = w[j + 1].pkt BY <2>4, <3>1
    <3>4. w[i + 1].op = "list" /\ j + 1 = (i + 1) + 1 BY <3>1, <3>2, <3>3 DEF StackAgrees
    <3>5. Tail(w)[i].op = "list" BY <3>1, <3>4
    <3>6. j = i + 1 BY <3>2, <3>4
    <3>7. QED BY <3>5, <3>6
  <2>5. QED BY <1>1, <2>1, <2>2, <2>3, <2>4 DEF StackAgrees
<1>6. QED BY <1>1, <1>2, <1>3, <1>4, <1>5

\* The innermost call goes on with its packet.
LEMMA CallGoesOn ==
  ASSUME NEW w, StackAgrees(w), w # <<>>, Head(w).op \in Calls,
         NEW f, IsCall(f), f.pkt = Head(w).pkt, f.op = "list" <=> Head(w).op = "list"
  PROVE  /\ StackAgrees(Onto(f, Tail(w))) /\ Onto(f, Tail(w)) # <<>> /\ Head(Onto(f, Tail(w))) = f
         /\ Worked(Onto(f, Tail(w))) = Worked(w)
<1> DEFINE t == Tail(w)
           v == Onto(f, t)
<1> SUFFICES StackAgrees(v) /\ v # <<>> /\ Head(v) = f /\ Worked(v) = Worked(w)
  OBVIOUS
<1>1. /\ \A i \in Inner(t) : i + 1 \in Inner(w) /\ t[i] = w[i + 1]
      /\ \A i \in Inner(w) : i # 1 => i - 1 \in Inner(t) /\ t[i - 1] = w[i]
      /\ Head(w) = w[1] /\ 1 \in Inner(w) /\ t # <<>> /\ StackAgrees(t) /\ IsStack(t)
  BY CallPopped DEF Calls, StackAgrees
<1>2. Len(w) \in Nat /\ Len(t) \in Nat /\ Len(w) = Len(t) + 1 BY PopShape DEF StackAgrees
<1> HIDE DEF t
<1>3. /\ \A i : i \in Inner(v) <=> i = 1 \/ (i - 1 \in Inner(t) /\ i \in Int)
      /\ \A i \in Inner(t) : i + 1 \in Inner(v) /\ v[i + 1] = t[i]
      /\ v[1] = f /\ Worked(v) = Worked(t) \cup {f.pkt} /\ v[Len(v)] = t[Len(t)]
  <2>1. \A i : i \in Inner(v) <=> i = 1 \/ (i - 1 \in Inner(t) /\ i \in Int)
    BY <1>1, CallPushed
  <2>2. \A i \in Inner(t) : i + 1 \in Inner(v) /\ v[i + 1] = t[i] BY <1>1, CallPushed
  <2>3. Worked(v) = Worked(t) \cup {f.pkt} BY <1>1, CallPushed
  <2>4. v[1] = f BY <1>1, PushShape
  <2>5. v[Len(v)] = t[Len(t)] BY <1>1, CallPushed
  <2>6. QED BY <2>1, <2>2, <2>3, <2>4, <2>5
<1>4. IsStack(v) /\ v # <<>> /\ Head(v) = f BY <1>1, PushShape
<1> HIDE DEF v
<1>5. \A i \in Inner(v) : i \in Inner(w) /\ (i # 1 => v[i] = w[i])
  <2>1. ASSUME NEW i \in Inner(v), i # 1 PROVE i \in Inner(w) /\ v[i] = w[i]
    <3>1. i - 1 \in Inner(t) /\ i - 1 + 1 = i BY <1>3, <2>1
    <3>2. v[i] = t[i - 1] /\ t[i - 1] = w[i] /\ i \in Inner(w) BY <1>1, <1>3, <3>1
    <3>3. QED BY <3>2
  <2>2. QED BY <1>1, <2>1
<1>6. \A i \in Inner(w) : i \in Inner(v)
  <2>1. ASSUME NEW i \in Inner(w), i # 1 PROVE i \in Inner(v)
    <3>1. i - 1 \in Inner(t) BY <1>1, <2>1
    <3>2. i \in Int BY DEF Inner
    <3>3. QED BY <1>3, <3>1, <3>2
  <2>2. 1 \in Inner(v) BY <1>3
  <2>3. QED BY <2>1, <2>2
<1>7. \A i \in Inner(v) : v[i].pkt = w[i].pkt /\ IsCall(v[i]) /\ (v[i].op = "list" <=> w[i].op = "list")
  BY <1>1, <1>3, <1>5 DEF StackAgrees
<1>8. Worked(v) = Worked(w) BY <1>5, <1>6, <1>7 DEF Worked
<1>9. v[Len(v)] = Handler BY <1>1, <1>3 DEF StackAgrees
<1>10. ASSUME NEW i \in Inner(v), v[i].op = "list"
       PROVE  i + 1 \in Inner(v) /\ v[i + 1].op \in {"insts", "destroy"} /\ v[i + 1].pkt = v[i].pkt
  <2>1. i \in Inner(w) /\ w[i].op = "list" BY <1>5, <1>7, <1>10
  <2>2. i + 1 \in Inner(w) /\ w[i + 1].op \in {"insts", "destroy"} /\ w[i + 1].pkt = w[i].pkt
    BY <2>1 DEF StackAgrees
  <2>3. i + 1 \in Inner(v) /\ i + 1 # 1 BY <1>6, <2>2 DEF Inner
  <2>4. v[i + 1] = w[i + 1] BY <1>5, <2>3
  <2>5. QED BY <1>7, <2>2, <2>3, <2>4
<1>11. ASSUME NEW i \in Inner(v), NEW j \in Inner(v), i < j, v[i].pkt = v[j].pkt
       PROVE  v[i].op = "list" /\ j = i + 1
  <2>1. i \in Inner(w) /\ j \in Inner(w) /\ w[i].pkt = w[j].pkt BY <1>5, <1>7, <1>11
  <2>2. w[i].op = "list" /\ j = i + 1 BY <1>11, <2>1 DEF StackAgrees
  <2>3. QED BY <1>7, <2>2
<1>12. StackAgrees(v) BY <1>4, <1>7, <1>9, <1>10, <1>11 DEF StackAgrees
<1>13. QED BY <1>4, <1>8, <1>12

\* A call is made: with a packet of its own, or it is a list of the caller's.
LEMMA CallMade ==
  ASSUME NEW w, StackAgrees(w), w # <<>>, NEW f, IsCall(f),
         \/ f.op # "list" /\ f.pkt \notin Worked(w)
         \/ f.op = "list" /\ f.pkt = Head(w).pkt /\ Head(w).op \in {"insts", "destroy"}
  PROVE  /\ StackAgrees(Onto(f, w)) /\ Onto(f, w) # <<>>
         /\ Worked(Onto(f, w)) = Worked(w) \cup {f.pkt}
<1> DEFINE v == Onto(f, w)
<1> SUFFICES StackAgrees(v) /\ v # <<>> /\ Worked(v) = Worked(w) \cup {f.pkt}
  OBVIOUS
<1>1. IsStack(w) /\ Len(w) \in Nat /\ w[Len(w)] = Handler /\ Head(w) = w[1]
  BY PopShape DEF StackAgrees
<1>2. /\ \A i : i \in Inner(v) <=> i = 1 \/ (i - 1 \in Inner(w) /\ i \in Int)
      /\ \A i \in Inner(w) : i + 1 \in Inner(v) /\ v[i + 1] = w[i]
      /\ v[1] = f /\ Worked(v) = Worked(w) \cup {f.pkt} /\ v[Len(v)] = w[Len(w)]
  <2>1. \A i : i \in Inner(v) <=> i = 1 \/ (i - 1 \in Inner(w) /\ i \in Int)
    BY <1>1, CallPushed
  <2>2. \A i \in Inner(w) : i + 1 \in Inner(v) /\ v[i + 1] = w[i] BY <1>1, CallPushed
  <2>3. Worked(v) = Worked(w) \cup {f.pkt} BY <1>1, CallPushed
  <2>4. v[1] = f BY <1>1, PushShape
  <2>5. v[Len(v)] = w[Len(w)] BY <1>1, CallPushed
  <2>6. QED BY <2>1, <2>2, <2>3, <2>4, <2>5
<1>3. IsStack(v) /\ v # <<>> BY <1>1, PushShape
<1>4. Head(w).op # "return" => 1 \in Inner(w) BY CallPopped
<1> HIDE DEF v
<1>5. ASSUME NEW i \in Inner(v), i # 1 PROVE i - 1 \in Inner(w) /\ v[i] = w[i - 1] /\ i \in Int
  <2>1. i - 1 \in Inner(w) /\ i \in Int BY <1>2, <1>5
  <2>2. v[(i - 1) + 1] = w[i - 1] BY <1>2, <2>1
  <2>3. (i - 1) + 1 = i BY <2>1
  <2>4. QED BY <2>1, <2>2, <2>3
<1>6. \A i \in Inner(v) : IsCall(v[i]) BY <1>2, <1>5 DEF StackAgrees
<1>7. ASSUME NEW i \in Inner(v), v[i].op = "list"
      PROVE  i + 1 \in Inner(v) /\ v[i + 1].op \in {"insts", "destroy"} /\ v[i + 1].pkt = v[i].pkt
  <2>1. CASE i = 1
    <3>1. f.op = "list" /\ f.pkt = Head(w).pkt /\ Head(w).op \in {"insts", "destroy"} BY <1>2, <1>7, <2>1
    <3>2. 1 \in Inner(w) BY <1>4, <3>1
    <3>3. 1 + 1 \in Inner(v) /\ v[1 + 1] = w[1] BY <1>2, <3>2
    <3>4. QED BY <1>1, <1>2, <2>1, <3>1, <3>3
  <2>2. CASE i # 1
    <3>1. i - 1 \in Inner(w) /\ v[i] = w[i - 1] /\ i \in Int BY <1>5, <2>2
    <3>2. (i - 1) + 1 = i BY <3>1
    <3>3. i \in Inner(w) /\ w[i].op \in {"insts", "destroy"} /\ w[i].pkt = w[i - 1].pkt
      BY <1>7, <3>1, <3>2 DEF StackAgrees
    <3>4. i + 1 \in Inner(v) /\ v[i + 1] = w[i] BY <1>2, <3>3
    <3>5. QED BY <3>1, <3>3, <3>4
  <2>3. QED BY <2>1, <2>2
<1>8. ASSUME NEW i \in Inner(v), NEW j \in Inner(v), i < j, v[i].pkt = v[j].pkt
      PROVE  v[i].op = "list" /\ j = i + 1
  <2>1. i \in Int /\ j \in Int /\ i >= 1 /\ j # 1 BY <1>8 DEF Inner
  <2>2. j - 1 \in Inner(w) /\ v[j] = w[j - 1] BY <1>5, <2>1
  <2>3. CASE i = 1
    <3>1. f.pkt = w[j - 1].pkt BY <1>2, <1>8, <2>2, <2>3
    <3>2. f.pkt \in Worked(w) BY <2>2, <3>1 DEF Worked
    <3>3. f.op = "list" /\ f.pkt = w[1].pkt /\ w[1].op \in {"insts", "destroy"} BY <1>1, <3>2
    <3>4. 1 \in Inner(w) BY <1>1, <1>4, <3>3
    <3>5. ~(1 < j - 1) BY <2>2, <3>1, <3>3, <3>4 DEF StackAgrees
    <3>6. j = 1 + 1 BY <1>8, <2>1, <2>3, <3>5
    <3>7. QED BY <1>2, <2>3, <3>3, <3>6
  <2>4. CASE i # 1
    <3>1. i - 1 \in Inner(w) /\ v[i] = w[i - 1] BY <1>5, <2>4
    <3>2. i - 1 < j - 1 /\ w[i - 1].pkt = w[j - 1].pkt BY <1>8, <2>1, <2>2, <3>1
    <3>3. w[i - 1].op = "list" /\ j - 1 = (i - 1) + 1 BY <2>2, <3>1, <3>2 DEF StackAgrees
    <3>4. j = i + 1 BY <2>1, <3>3
    <3>5. QED BY <3>1, <3>3, <3>4
  <2>5. QED BY <2>3, <2>4
<1>9. StackAgrees(v) BY <1>1, <1>2, <1>3, <1>6, <1>7, <1>8 DEF StackAgrees
<1>10. QED BY <1>2, <1>3, <1>9

\* A call returns.
LEMMA CallReturns ==
  ASSUME NEW w, StackAgrees(w), w # <<>>
  PROVE  /\ StackAgrees(Tail(w))
         /\ Head(w).op \in Calls \ {"list"} =>
              /\ Tail(w) # <<>> /\ Head(w).pkt \notin Worked(Tail(w))
              /\ Worked(w) = Worked(Tail(w)) \cup {Head(w).pkt}
         /\ Head(w).op \in {"list", "return"} => Worked(Tail(w)) = Worked(w)
<1> DEFINE t == Tail(w)
<1>1. /\ \A i \in Inner(t) : i + 1 \in Inner(w) /\ t[i] = w[i + 1]
      /\ \A i \in Inner(w) : i # 1 => i - 1 \in Inner(t) /\ t[i - 1] = w[i]
      /\ Head(w) = w[1] /\ (Head(w).op # "return" => 1 \in Inner(w) /\ t # <<>>) /\ StackAgrees(t)
  BY CallPopped
<1> DEFINE h == Head(w)
<1> HIDE DEF t, h
<1> SUFFICES /\ StackAgrees(t)
             /\ h.op \in Calls \ {"list"} => /\ t # <<>> /\ h.pkt \notin Worked(t)
                                            /\ Worked(w) = Worked(t) \cup {h.pkt}
             /\ h.op \in {"list", "return"} => Worked(t) = Worked(w)
  BY DEF t, h
<1>2. \A i \in Inner(t) : t[i].pkt \in Worked(w) BY <1>1 DEF Worked
<1>3. \A i \in Inner(w) : i # 1 => w[i].pkt \in Worked(t) BY <1>1 DEF Worked
<1>4. CASE h.op \in Calls \ {"list"}
  <2>1. 1 \in Inner(w) /\ t # <<>> /\ h = w[1] BY <1>1, <1>4 DEF Calls, h
  <2>2. Worked(w) = Worked(t) \cup {h.pkt} BY <1>2, <1>3, <2>1 DEF Worked
  <2>3. ASSUME NEW i \in Inner(t) PROVE t[i].pkt # h.pkt
    <3>1. i + 1 \in Inner(w) /\ t[i] = w[i + 1] BY <1>1
    <3>4. 1 < i + 1 BY DEF Inner
    <3>2. w[1].pkt # w[i + 1].pkt BY <1>4, <2>1, <3>1, <3>4 DEF StackAgrees
    <3>3. QED BY <2>1, <3>1, <3>2
  <2>4. h.pkt \notin Worked(t) BY <2>3 DEF Worked
  <2>6. h.op \notin {"list", "return"} BY <1>4 DEF Calls
  <2>5. QED BY <1>1, <2>1, <2>2, <2>4, <2>6
<1>5. CASE h.op = "list"
  <2>1. 1 \in Inner(w) /\ h = w[1] BY <1>1, <1>5 DEF h
  <2>2. 1 + 1 \in Inner(w) /\ w[1 + 1].pkt = w[1].pkt BY <1>5, <2>1 DEF StackAgrees
  <2>3. w[1].pkt \in Worked(t) BY <1>3, <2>2
  <2>4. Worked(w) = Worked(t) BY <1>2, <1>3, <2>3 DEF Worked
  <2>5. QED BY <1>1, <1>5, <2>4
<1>6. CASE h.op = "return"
  <2>1. 1 \notin Inner(w) BY <1>1, <1>6 DEF h, StackAgrees, IsCall, Calls
  <2>2. Worked(w) = Worked(t) BY <1>2, <1>3, <2>1 DEF Worked
  <2>3. QED BY <1>1, <1>6, <2>2 DEF Calls
<1>7. CASE h.op \notin Calls \cup {"return"} BY <1>1, <1>7 DEF Calls
<1>8. QED BY <1>4, <1>5, <1>6, <1>7

\* The stack of the handler alone.
LEMMA HandlerAlone ==
  StackAgrees(<<Handler>>) /\ <<Handler>> # <<>> /\ Worked(<<Handler>>) = {}
<1>1. <<Handler>> \in Seq({Handler}) /\ Len(<<Handler>>) = 1 /\ <<Handler>>[1] = Handler OBVIOUS
<1>2. Inner(<<Handler>>) = {} BY <1>1 DEF Inner
<1>3. QED BY <1>1, <1>2 DEF StackAgrees, IsStack, Worked

\* All calls but the handler's work.
LEMMA WorkingIsInner ==
  ASSUME StackAgrees(work)
  PROVE  {work[i].pkt : i \in Working} = Worked(work)
<1>1. PICK S : work \in Seq(S) BY DEF StackAgrees, IsStack
<1>2. DOMAIN work = 1..Len(work) /\ Len(work) \in Nat BY <1>1
<1>3. ASSUME NEW i \in Inner(work) PROVE work[i] # Handler
  <2>1. work[i].op \in Calls BY DEF StackAgrees, IsCall
  <2>2. Handler.op = "return" BY DEF Handler
  <2>3. QED BY <2>1, <2>2 DEF Calls
<1>4. work # <<>> => work[Len(work)] = Handler BY DEF StackAgrees
<1>5. \A i \in DOMAIN work : i \in Inner(work) \/ (i = Len(work) /\ work # <<>>) BY <1>1, <1>2 DEF Inner
<1>6. \A i : i \in Working <=> i \in Inner(work) BY <1>2, <1>3, <1>4, <1>5 DEF Working, Inner
<1>7. QED BY <1>6 DEF Worked

-----------------------------------------------------------------------------
(* Packets *)

\* The packets are the same and those in buffers too.
SameShape(ps2, ps) ==
  /\ DOMAIN ps2 = DOMAIN ps
  /\ \A p \in DOMAIN ps : IsPacket(ps2[p]) /\ ps2[p].saved = ps[p].saved

USE DEF IsPacket

LEMMA FreshIsNew ==
  ASSUME IsFiniteSet(DOMAIN pkts)
  PROVE  Fresh \notin DOMAIN pkts
<1> DEFINE D == DOMAIN pkts
           c == Cardinality(D)
<1>1. c \in Nat BY FS_CardinalityType
<1>2. IsFiniteSet(0..c) /\ Cardinality(0..c) = c + 1
  <2>1. 0 \in Int /\ c \in Int /\ 0 <= c BY <1>1
  <2>2. IsFiniteSet(0..c) /\ Cardinality(0..c) = IF 0 > c THEN 0 ELSE c - 0 + 1 BY <2>1, FS_Interval
  <2>3. QED BY <2>1, <2>2
<1>3. ~(0..c \subseteq D)
  <2>1. 0..c \subseteq D => Cardinality(0..c) <= c BY FS_Subset
  <2> HIDE DEF c
  <2>2. QED BY <1>1, <1>2, <2>1
<1>4. PICK n \in 0..c : n \notin D BY <1>3
<1>5. QED BY <1>4 DEF Fresh

LEMMA SameAgrees ==
  ASSUME NEW w, NEW ps, PacketsAgree(w, ps), NEW v, Worked(v) = Worked(w), NEW ps2, SameShape(ps2, ps)
  PROVE  PacketsAgree(v, ps2)
BY DEF PacketsAgree, SameShape, SavedIn

\* A call with a new packet.
LEMMA NewAgrees ==
  ASSUME NEW w, NEW ps, PacketsAgree(w, ps), NEW c, c \notin DOMAIN ps, NEW r, IsPacket(r),
         NEW v, Worked(v) = Worked(w) \cup {c}
  PROVE  PacketsAgree(v, With(ps, c, r))
<1> DEFINE qs == With(ps, c, r)
<1>1. DOMAIN qs = DOMAIN ps \cup {c} /\ qs[c] = r /\ \A p \in DOMAIN ps : qs[p] = ps[p] BY DEF With
<1>2. IsFiniteSet(DOMAIN ps \cup {c}) BY FS_AddElement DEF PacketsAgree
<1> HIDE DEF qs
<1>3. PacketsAgree(v, qs) BY <1>1, <1>2 DEF PacketsAgree, SavedIn
<1>4. QED BY <1>3 DEF qs

\* A call that destroys its packet and returns.
LEMMA DestroyedAgrees ==
  ASSUME NEW w, StackAgrees(w), w # <<>>, Head(w).op \in Calls \ {"list"},
         NEW ps, PacketsAgree(w, ps)
  PROVE  Agree(Tail(w), Destroyed(ps, Head(w).pkt))
<1> DEFINE t == Tail(w)
           p == Head(w).pkt
           qs == Destroyed(ps, p)
<1>1. StackAgrees(t) /\ p \notin Worked(t) /\ Worked(w) = Worked(t) \cup {p} BY CallReturns
<1> HIDE DEF t, p
<1>2. CASE ps[p].saved
  <2>1. qs = ps BY <1>2 DEF Destroyed
  <2>2. PacketsAgree(t, ps) BY <1>1, <1>2 DEF PacketsAgree, SavedIn
  <2>3. PacketsAgree(t, qs) BY <2>1, <2>2
  <2>4. QED BY <1>1, <2>3 DEF Agree, t, p
<1>3. CASE ~ps[p].saved
  <2>1. DOMAIN qs = DOMAIN ps \ {p} /\ \A x \in DOMAIN qs : qs[x] = ps[x] BY <1>3 DEF Destroyed, Freed
  <2>2. IsFiniteSet(DOMAIN ps \ {p}) BY FS_RemoveElement DEF PacketsAgree
  <2> HIDE DEF qs
  <2>3. PacketsAgree(t, qs) BY <1>1, <2>1, <2>2 DEF PacketsAgree, SavedIn
  <2>4. QED BY <1>1, <2>3 DEF Agree, t, p, qs
<1>4. QED BY <1>2, <1>3

\* dp_buffers_save frees no packet that a call works on.
LEMMA SavesAgrees ==
  ASSUME StackAgrees(work), NEW w, NEW ps, PacketsAgree(w, ps), Worked(w) \subseteq Worked(work),
         NEW p \in Worked(work), p \in DOMAIN ps, NEW qs \in Saves(ps, p)
  PROVE  PacketsAgree(w, qs)
<1> DEFINE saved(s) == [s EXCEPT ![p].saved = TRUE]
<1>1. \/ qs = ps
      \/ qs = saved(ps)
      \/ \E x \in Saved \ Worked(work) : qs = saved(Freed(ps, x))
  BY WorkingIsInner DEF Saves
<1>2. ASSUME NEW s, p \in DOMAIN s, DOMAIN s \subseteq DOMAIN ps, Worked(w) \subseteq DOMAIN s,
             \A x \in DOMAIN s : s[x] = ps[x], IsFiniteSet(DOMAIN s)
      PROVE  PacketsAgree(w, saved(s))
  <2>1. DOMAIN saved(s) = DOMAIN s /\ \A x \in DOMAIN s : x # p => saved(s)[x] = s[x] OBVIOUS
  <2>2. IsPacket(s[p]) BY <1>2 DEF PacketsAgree
  <2>3. IsPacket(saved(s)[p]) /\ saved(s)[p].saved = TRUE BY <1>2, <2>2
  <2> HIDE DEF saved
  <2>4. QED BY <1>2, <2>1, <2>3 DEF PacketsAgree, SavedIn
<1>3. CASE qs = ps BY <1>3
<1>4. CASE qs = saved(ps)
  <2>1. PacketsAgree(w, saved(ps)) BY <1>2 DEF PacketsAgree
  <2>2. QED BY <1>4, <2>1
<1>5. ASSUME NEW x \in Saved \ Worked(work), qs = saved(Freed(ps, x))
      PROVE  PacketsAgree(w, qs)
  <2> DEFINE s == Freed(ps, x)
  <2>1. DOMAIN s = DOMAIN ps \ {x} /\ \A y \in DOMAIN s : s[y] = ps[y] BY DEF Freed
  <2>2. IsFiniteSet(DOMAIN ps \ {x}) BY FS_RemoveElement DEF PacketsAgree
  <2>3. p # x /\ x \notin Worked(w) OBVIOUS
  <2>4. p \in DOMAIN s /\ Worked(w) \subseteq DOMAIN s BY <2>1, <2>3 DEF PacketsAgree
  <2> HIDE DEF s
  <2>5. PacketsAgree(w, saved(s)) BY <1>2, <2>1, <2>2, <2>4
  <2>6. QED BY <1>5, <2>5 DEF s
<1>6. QED BY <1>1, <1>3, <1>4, <1>5

\* dp_execute_action leaves the place of the packet in the buffers alone.
LEMMA ExecuteSaved ==
  ASSUME NEW r, IsPacket(r), NEW a
  PROVE  IsPacket(Execute(r, a)) /\ Execute(r, a).saved = r.saved
BY DEF Execute

LEMMA TopWorks ==
  ASSUME Agree(work, pkts), ~Idle, Top.op \in Calls
  PROVE  /\ IsCall(Top) /\ Top.pkt \in Worked(work) /\ Top.pkt \in DOMAIN pkts
         /\ IsPacket(pkts[Top.pkt])
<1>1. Top = work[1] /\ 1 \in Inner(work) BY CallPopped DEF Agree, Idle, Top, Calls
<1>2. QED BY <1>1 DEF Agree, StackAgrees, PacketsAgree, Worked

\* The innermost call goes on and no packet comes or goes.
LEMMA GoesOn ==
  ASSUME Agree(work, pkts), ~Idle, Top.op \in Calls,
         NEW f, IsCall(f), f.pkt = Top.pkt, f.op = "list" <=> Top.op = "list",
         NEW ps, SameShape(ps, pkts)
  PROVE  /\ StackAgrees(Onto(f, Rest)) /\ Onto(f, Rest) # <<>> /\ Head(Onto(f, Rest)) = f
         /\ Worked(Onto(f, Rest)) = Worked(work)
         /\ Agree(Onto(f, Rest), ps)
<1> DEFINE v == Onto(f, Rest)
<1>1. StackAgrees(v) /\ v # <<>> /\ Head(v) = f /\ Worked(v) = Worked(work)
  BY CallGoesOn DEF Agree, Idle, Top, Rest
<1> HIDE DEF v
<1>2. PacketsAgree(v, ps) BY <1>1, SameAgrees DEF Agree
<1>3. QED BY <1>1, <1>2 DEF Agree, v

LEMMA OneChanged ==
  ASSUME NEW w, PacketsAgree(w, pkts), NEW p \in DOMAIN pkts, NEW r, IsPacket(r), r.saved = pkts[p].saved
  PROVE  SameShape(With(pkts, p, r), pkts) /\ SameShape([pkts EXCEPT ![p] = r], pkts)
BY DEF SameShape, With, PacketsAgree

\* The packet p is put out by a call that goes on with "then".
LEMMA OutputAgrees ==
  ASSUME Agree(work, pkts), NEW ps, SameShape(ps, pkts), NEW p \in Worked(work),
         NEW then, StackAgrees(then), then # <<>>, Worked(then) = Worked(work),
         NEW port, Output(ps, p, port, then)
  PROVE  Agree(work', pkts')
<1>1. PacketsAgree(then, ps) BY SameAgrees DEF Agree
<1>2. p \in DOMAIN ps BY DEF Agree, PacketsAgree, SameShape
<1>3. CASE pkts' = ps /\ work' = then BY <1>1, <1>3 DEF Agree
<1>4. CASE pkts' \in Saves(ps, p) /\ work' = then
  <2>1. PacketsAgree(then, pkts') BY <1>1, <1>2, <1>4, SavesAgrees DEF Agree
  <2>2. QED BY <1>4, <2>1 DEF Agree
<1>5. CASE /\ pkts' = With(ps, Fresh, [Clone(ps[p]) EXCEPT !.packet_out = FALSE])
           /\ work' = <<[op |-> "process", pkt |-> Fresh]>> \o then
  <2> DEFINE c == Fresh
             r == [Clone(ps[p]) EXCEPT !.packet_out = FALSE]
             f == [op |-> "process", pkt |-> c]
  <2>1. c \notin DOMAIN ps BY FreshIsNew DEF Agree, PacketsAgree, SameShape
  <2>2. IsPacket(r) BY DEF Clone, NewPacket
  <2> HIDE DEF c, r
  <2>3. IsCall(f) /\ f.pkt = c /\ f.op # "list" BY DEF IsCall, Calls
  <2>4. f.pkt \notin Worked(then) BY <1>1, <2>1, <2>3 DEF PacketsAgree
  <2> HIDE DEF f
  <2>5. StackAgrees(Onto(f, then)) /\ Worked(Onto(f, then)) = Worked(then) \cup {c}
    BY <2>3, <2>4, CallMade
  <2>6. PacketsAgree(Onto(f, then), With(ps, c, r)) BY <1>1, <2>1, <2>2, <2>5, NewAgrees
  <2>7. work' = Onto(f, then) /\ pkts' = With(ps, c, r) BY <1>5 DEF Onto, f, c, r
  <2>8. QED BY <2>5, <2>6, <2>7 DEF Agree
<1>6. QED BY <1>3, <1>4, <1>5 DEF Output

-----------------------------------------------------------------------------
(* Steps *)

LEMMA TwoCalls ==
  ASSUME NEW f, NEW g
  PROVE  <<f>> \o <<g>> = <<f, g>>
<1> DEFINE a == <<f>> \o <<g>>
           b == <<f, g>>
<1>1. a \in Seq({f, g}) /\ Len(a) = 2 /\ a[1] = f /\ a[2] = g OBVIOUS
<1>2. b \in Seq({f, g}) /\ Len(b) = 2 /\ b[1] = f /\ b[2] = g OBVIOUS
<1> HIDE DEF a, b
<1>3. \A i \in 1..2 : a[i] = b[i] BY <1>1, <1>2
<1>4. a = b BY <1>1, <1>2, <1>3
<1>5. QED BY <1>4 DEF a, b

LEMMA ThreeCalls ==
  ASSUME NEW f, NEW g, NEW h
  PROVE  <<f>> \o <<g, h>> = <<f, g, h>>
<1> DEFINE a == <<f>> \o <<g, h>>
           b == <<f, g, h>>
<1>1. a \in Seq({f, g, h}) /\ Len(a) = 3 /\ a[1] = f /\ a[2] = g /\ a[3] = h OBVIOUS
<1>2. b \in Seq({f, g, h}) /\ Len(b) = 3 /\ b[1] = f /\ b[2] = g /\ b[3] = h OBVIOUS
<1> HIDE DEF a, b
<1>3. \A i \in 1..3 : a[i] = b[i] BY <1>1, <1>2
<1>4. a = b BY <1>1, <1>2, <1>3
<1>5. QED BY <1>4 DEF a, b

\* Two calls pushed at once.
LEMMA PushTwo ==
  ASSUME NEW w, IsStack(w), NEW f, NEW g
  PROVE  <<f, g>> \o w = Onto(f, Onto(g, w))
<1>1. PICK S : w \in Seq(S) BY DEF IsStack
<1> DEFINE T == S \cup {f, g}
<1>2. w \in Seq(T) /\ <<f>> \in Seq(T) /\ <<g>> \in Seq(T) /\ <<f, g>> \in Seq(T) BY <1>1
<1>3. <<f, g>> = <<f>> \o <<g>> BY TwoCalls
<1> HIDE DEF T
<1>4. (<<f>> \o <<g>>) \o w = <<f>> \o (<<g>> \o w) BY <1>2
<1>5. QED BY <1>3, <1>4 DEF Onto

LEMMA HandlerBelow ==
  ASSUME NEW f, NEW g
  PROVE  <<f, Handler>> = Onto(f, <<Handler>>) /\ <<f, g, Handler>> = Onto(f, Onto(g, <<Handler>>))
BY TwoCalls, ThreeCalls DEF Onto

LEMMA PopNotCall ==
  ASSUME Agree(work, pkts), ~Idle, Top.op \in {"list", "return"}
  PROVE  Agree(Rest, pkts)
<1>1. StackAgrees(Rest) /\ Worked(Rest) = Worked(work)
  BY CallReturns DEF Agree, Idle, Top, Rest
<1>2. QED BY <1>1 DEF Agree, PacketsAgree

LEMMA PopCall ==
  ASSUME Agree(work, pkts), ~Idle, Top.op \in Calls \ {"list"}, NEW ps, PacketsAgree(work, ps)
  PROVE  Agree(Rest, Destroyed(ps, Top.pkt))
BY DestroyedAgrees DEF Agree, Idle, Top, Rest

LEMMA Unchanged ==
  ASSUME Agree(work, pkts)
  PROVE  SameShape(pkts, pkts) /\ DOMAIN pkts = DOMAIN pkts
BY DEF Agree, PacketsAgree, SameShape

LEMMA ProcessKeeps ==
  ASSUME Agree(work, pkts), ~Idle, Process
  PROVE  Agree(work', pkts')
<1>1. Top.op = "process" /\ Top.op \in Calls BY DEF Process, Calls
<1>2. IsCall(Top) /\ Top.pkt \in Worked(work) /\ Top.pkt \in DOMAIN pkts BY <1>1, TopWorks
<1>3. CASE pkts[Top.pkt].hdr.ttl < 1
  <2>1. PICK ps \in Saves(pkts, Top.pkt) : pkts' = Destroyed(ps, Top.pkt) BY <1>3 DEF Process
  <2>2. PacketsAgree(work, ps) BY <1>2, SavesAgrees DEF Agree
  <2>3. Agree(Rest, Destroyed(ps, Top.pkt)) BY <1>1, <2>2, PopCall
  <2>4. work' = Rest BY <1>3 DEF Process
  <2>5. QED BY <2>1, <2>3, <2>4
<1>4. CASE ~(pkts[Top.pkt].hdr.ttl < 1)
  <2> DEFINE f == [op |-> "table", pkt |-> Top.pkt, table |-> 0]
  <2>1. IsCall(f) /\ f.pkt = Top.pkt /\ f.op # "list" BY DEF IsCall, Calls
  <2>2. work' = <<f>> \o Rest /\ pkts' = pkts BY <1>4 DEF Process
  <2> HIDE DEF f
  <2>3. Agree(Onto(f, Rest), pkts) BY <1>1, <2>1, GoesOn, Unchanged
  <2>4. QED BY <2>2, <2>3 DEF Onto
<1>5. QED BY <1>3, <1>4

LEMMA TableKeeps ==
  ASSUME Agree(work, pkts), ~Idle, Table
  PROVE  Agree(work', pkts')
<1>1. Top.op = "table" /\ Top.op \in Calls BY DEF Table, Calls
<1>2. CASE flows[Top.table] = NoEntry
  <2>1. Agree(Rest, Destroyed(pkts, Top.pkt)) BY <1>1, PopCall DEF Agree
  <2>2. QED BY <1>2, <2>1 DEF Table
<1>3. CASE flows[Top.table] # NoEntry
  <2> DEFINE f == [op |-> "insts", pkt |-> Top.pkt, table |-> Top.table,
                   insts |-> flows[Top.table], next |-> NextTable(Top.table)]
  <2>1. IsCall(f) /\ f.pkt = Top.pkt /\ f.op # "list" BY DEF IsCall, Calls
  <2>2. work' = <<f>> \o Rest /\ pkts' = pkts BY <1>3 DEF Table
  <2> HIDE DEF f
  <2>3. Agree(Onto(f, Rest), pkts) BY <1>1, <2>1, GoesOn, Unchanged
  <2>4. QED BY <2>2, <2>3 DEF Onto
<1>4. QED BY <1>2, <1>3

LEMMA InstsDoneKeeps ==
  ASSUME Agree(work, pkts), ~Idle, InstsDone
  PROVE  Agree(work', pkts')
<1>1. Top.op = "insts" /\ Top.op \in Calls BY DEF InstsDone, Calls
<1> DEFINE f == IF Top.next = NoTable THEN [op |-> "set", pkt |-> Top.pkt]
                ELSE [op |-> "table", pkt |-> Top.pkt, table |-> Top.next]
<1>2. IsCall(f) /\ f.pkt = Top.pkt /\ f.op # "list"
  <2>1. CASE Top.next = NoTable BY <2>1 DEF IsCall, Calls
  <2>2. CASE Top.next # NoTable BY <2>2 DEF IsCall, Calls
  <2>3. QED BY <2>1, <2>2
<1>3. work' = <<f>> \o Rest /\ pkts' = pkts BY DEF InstsDone
<1> HIDE DEF f
<1>4. Agree(Onto(f, Rest), pkts) BY <1>1, <1>2, GoesOn, Unchanged
<1>5. QED BY <1>3, <1>4 DEF Onto

\* The call of the instructions after one of them.
LEMMA NextInstWorks ==
  ASSUME Agree(work, pkts), ~Idle, Top.op = "insts"
  PROVE  /\ IsCall(NextInst) /\ NextInst.pkt = Top.pkt /\ NextInst.op = "insts" /\ Top.op \in Calls
         /\ Top.pkt \in DOMAIN pkts /\ IsPacket(pkts[Top.pkt])
         /\ \A ps : SameShape(ps, pkts) => Agree(Onto(NextInst, Rest), ps)
<1>1. Top.op \in Calls BY DEF Calls
<1>2. IsCall(Top) /\ Top.pkt \in DOMAIN pkts /\ IsPacket(pkts[Top.pkt]) BY <1>1, TopWorks
<1>3. IsCall(NextInst) /\ NextInst.pkt = Top.pkt /\ NextInst.op = "insts"
  BY <1>2 DEF NextInst, IsCall
<1> HIDE DEF NextInst, Top
<1>4. ASSUME NEW ps, SameShape(ps, pkts) PROVE Agree(Onto(NextInst, Rest), ps)
  BY <1>1, <1>3, <1>4, GoesOn
<1>5. QED BY <1>1, <1>2, <1>3, <1>4

LEMMA ApplyActionsKeeps ==
  ASSUME Agree(work, pkts), ~Idle, ApplyActions
  PROVE  Agree(work', pkts')
<1>1. Top.op = "insts" BY DEF ApplyActions, AtInst
<1>2. /\ IsCall(NextInst) /\ NextInst.pkt = Top.pkt /\ NextInst.op = "insts" /\ Top.op \in Calls
  BY <1>1, NextInstWorks
<1> DEFINE f == [op |-> "list", pkt |-> Top.pkt, acts |-> Inst.acts]
           v == Onto(NextInst, Rest)
<1>3. IsCall(f) /\ f.pkt = Top.pkt /\ f.op = "list" BY DEF IsCall, Calls
<1>4. work' = <<f, NextInst>> \o Rest /\ pkts' = pkts BY DEF ApplyActions
<1> HIDE DEF f
<1>5. StackAgrees(v) /\ v # <<>> /\ Head(v) = NextInst /\ Worked(v) = Worked(work)
  BY <1>1, <1>2, GoesOn, Unchanged
<1>6. IsStack(Rest) BY CallReturns DEF Agree, Idle, Rest, StackAgrees
<1>7. work' = Onto(f, v) BY <1>4, <1>6, PushTwo
<1> HIDE DEF v
<1>8. StackAgrees(Onto(f, v)) /\ Worked(Onto(f, v)) = Worked(v) \cup {f.pkt}
  BY <1>2, <1>3, <1>5, CallMade
<1>9. Worked(Onto(f, v)) = Worked(work) BY <1>2, <1>3, <1>5, <1>8, TopWorks
<1>10. QED BY <1>4, <1>7, <1>8, <1>9 DEF Agree, PacketsAgree

LEMMA InstructionKeeps ==
  ASSUME Agree(work, pkts), ~Idle, ClearActions \/ WriteActionsInst
  PROVE  Agree(work', pkts')
<1>1. Top.op = "insts" BY DEF ClearActions, WriteActionsInst, AtInst
<1>2. Top.pkt \in DOMAIN pkts /\ IsPacket(pkts[Top.pkt]) BY <1>1, NextInstWorks
<1>3. SameShape(pkts', pkts)
  <2>1. CASE ClearActions
    BY <1>2, <2>1 DEF ClearActions, SameShape, Agree, PacketsAgree
  <2>2. CASE WriteActionsInst
    BY <1>2, <2>2 DEF WriteActionsInst, SameShape, Agree, PacketsAgree
  <2>3. QED BY <2>1, <2>2
<1>4. work' = Onto(NextInst, Rest) BY DEF ClearActions, WriteActionsInst, Onto
<1>5. QED BY <1>1, <1>3, <1>4, NextInstWorks

LEMMA GotoTableKeeps ==
  ASSUME Agree(work, pkts), ~Idle, GotoTable
  PROVE  Agree(work', pkts')
<1>1. Top.op = "insts" BY DEF GotoTable, AtInst
<1>2. IsCall(NextInst) /\ NextInst.pkt = Top.pkt /\ NextInst.op = "insts" /\ Top.op \in Calls
  BY <1>1, NextInstWorks
<1> DEFINE f == [NextInst EXCEPT !.next = Inst.table]
<1>3. IsCall(f) /\ f.pkt = Top.pkt /\ f.op # "list" BY <1>2 DEF IsCall
<1>4. work' = <<f>> \o Rest /\ pkts' = pkts BY DEF GotoTable
<1> HIDE DEF f
<1>5. Agree(Onto(f, Rest), pkts) BY <1>1, <1>2, <1>3, GoesOn, Unchanged
<1>6. QED BY <1>4, <1>5 DEF Onto

LEMMA MeterKeeps ==
  ASSUME Agree(work, pkts), ~Idle, Meter
  PROVE  Agree(work', pkts')
<1>1. Top.op = "insts" /\ Top.op \in Calls BY DEF Meter, AtInst, Calls
<1>2. Top.pkt \in DOMAIN pkts /\ IsPacket(pkts[Top.pkt]) BY <1>1, NextInstWorks
<1>3. CASE Dropped
  <2>1. Agree(Rest, Destroyed(pkts, Top.pkt)) BY <1>1, PopCall DEF Agree
  <2>2. pkts' = Destroyed(pkts, Top.pkt) /\ work' = Rest BY <1>3 DEF Meter
  <2>3. QED BY <2>1, <2>2
<1>4. CASE ~Dropped
  <2>1. pkts' = pkts \/ pkts' = [pkts EXCEPT ![Top.pkt].hdr = Modify(@, Remark)] BY <1>4 DEF Meter
  <2>2. SameShape(pkts', pkts)
    BY <1>2, <2>1 DEF SameShape, Agree, PacketsAgree
  <2>3. work' = Onto(NextInst, Rest) BY <1>4 DEF Meter, Onto
  <2>4. QED BY <1>1, <2>2, <2>3, NextInstWorks
<1>5. QED BY <1>3, <1>4

LEMMA ListActionKeeps ==
  ASSUME Agree(work, pkts), ~Idle, ListAction
  PROVE  Agree(work', pkts')
<1> DEFINE p == Top.pkt
           r == Execute(pkts[p], Head(Top.acts))
           f == [Top EXCEPT !.acts = Tail(@)]
           then == <<f>> \o Rest
<1>1. Top.op = "list" /\ Top.op \in Calls BY DEF ListAction, Calls
<1>2. IsCall(Top) /\ p \in Worked(work) /\ p \in DOMAIN pkts /\ IsPacket(pkts[p])
  BY <1>1, TopWorks
<1>3. IsPacket(r) /\ r.saved = pkts[p].saved BY <1>2, ExecuteSaved
<1>4. IsCall(f) /\ f.pkt = p /\ f.op = "list" BY <1>1, <1>2 DEF IsCall
<1>5. then = Onto(f, Rest) BY DEF Onto
<1> USE DEF ListAction
<1>6. \/ /\ r.out_group # OFPG_ANY
         /\ pkts' = With(With(pkts, p, [r EXCEPT !.out_group = OFPG_ANY]), Fresh, CopyForGroup(r))
         /\ work' = <<[op |-> "group", pkt |-> Fresh, group |-> r.out_group]>> \o then
      \/ Output(With(pkts, p, [r EXCEPT !.out_port = OFPP_ANY]), p, r.out_port, then)
      \/ pkts' = With(pkts, p, r) /\ work' = then
  OBVIOUS
<1> USE ONLY Agree(work, pkts), ~Idle, <1>1, <1>2, <1>3, <1>4, <1>5, <1>6
<1> HIDE DEF r, f, then
<1>7. /\ StackAgrees(then) /\ then # <<>> /\ Worked(then) = Worked(work)
      /\ \A ps : SameShape(ps, pkts) => Agree(then, ps)
  <2>1. StackAgrees(then) /\ then # <<>> /\ Worked(then) = Worked(work)
    BY GoesOn, Unchanged
  <2>2. ASSUME NEW ps, SameShape(ps, pkts) PROVE Agree(then, ps)
    BY <2>2, GoesOn
  <2>3. QED BY <2>1, <2>2
<1>8. CASE pkts' = With(pkts, p, r) /\ work' = then
  <2>1. SameShape(With(pkts, p, r), pkts) BY OneChanged DEF Agree
  <2>2. QED BY <1>7, <1>8, <2>1
<1>9. CASE Output(With(pkts, p, [r EXCEPT !.out_port = OFPP_ANY]), p, r.out_port, then)
  <2> DEFINE r2 == [r EXCEPT !.out_port = OFPP_ANY]
  <2>1. IsPacket(r2) /\ r2.saved = pkts[p].saved OBVIOUS
  <2> HIDE DEF r2
  <2>2. SameShape(With(pkts, p, r2), pkts) BY <2>1, OneChanged DEF Agree
  <2>3. Output(With(pkts, p, r2), p, r.out_port, then) BY <1>9 DEF r2
  <2>4. QED BY <1>7, <2>2, <2>3, OutputAgrees
<1>10. CASE /\ pkts' = With(With(pkts, p, [r EXCEPT !.out_group = OFPG_ANY]), Fresh, CopyForGroup(r))
            /\ work' = <<[op |-> "group", pkt |-> Fresh, group |-> r.out_group]>> \o then
  <2> DEFINE r2 == [r EXCEPT !.out_group = OFPG_ANY]
             ps == With(pkts, p, r2)
             c == Fresh
             g == [op |-> "group", pkt |-> c, group |-> r.out_group]
  <2>1. IsPacket(r2) /\ r2.saved = pkts[p].saved OBVIOUS
  <2>2. IsPacket(CopyForGroup(r)) BY DEF CopyForGroup, Clone, NewPacket
  <2>3. IsCall(g) /\ g.pkt = c /\ g.op # "list" BY DEF IsCall, Calls
  <2>4. work' = Onto(g, then) /\ pkts' = With(ps, c, CopyForGroup(r)) BY <1>10 DEF Onto
  <2> HIDE DEF r2, g, c
  <2>5. SameShape(ps, pkts) BY <2>1, OneChanged DEF Agree
  <2> HIDE DEF ps
  <2>6. PacketsAgree(then, ps) BY <1>7, <2>5 DEF Agree
  <2>7. c \notin DOMAIN ps BY <2>5, FreshIsNew DEF Agree, PacketsAgree, SameShape, c
  <2>8. g.pkt \notin Worked(then) BY <2>3, <2>6, <2>7 DEF PacketsAgree
  <2>9. StackAgrees(Onto(g, then)) /\ Worked(Onto(g, then)) = Worked(then) \cup {c}
    BY <1>7, <2>3, <2>8, CallMade
  <2>10. PacketsAgree(Onto(g, then), With(ps, c, CopyForGroup(r))) BY <2>2, <2>6, <2>7, <2>9, NewAgrees
  <2>11. QED BY <2>4, <2>9, <2>10 DEF Agree
<1>11. QED BY <1>6, <1>8, <1>9, <1>10

LEMMA SetActionKeeps ==
  ASSUME Agree(work, pkts), ~Idle, SetAction
  PROVE  Agree(work', pkts')
<1> DEFINE p == Top.pkt
           r == [pkts[p] EXCEPT !.set = Tail(@)]
           e == Execute(r, Head(pkts[p].set))
<1>1. Top.op \in Calls BY DEF SetAction, Calls
<1>2. p \in DOMAIN pkts /\ IsPacket(pkts[p]) BY <1>1, TopWorks
<1>3. IsPacket(r) /\ r.saved = pkts[p].saved BY <1>2
<1>4. work' = work /\ pkts' = [pkts EXCEPT ![p] = e] BY DEF SetAction
<1> HIDE DEF r
<1>5. IsPacket(e) /\ e.saved = pkts[p].saved BY <1>3, ExecuteSaved
<1> HIDE DEF e
<1>6. SameShape(pkts', pkts) BY <1>2, <1>4, <1>5, OneChanged DEF Agree
<1>7. PacketsAgree(work, pkts') BY <1>6, SameAgrees DEF Agree
<1>8. QED BY <1>4, <1>7 DEF Agree

LEMMA SetDoneKeeps ==
  ASSUME Agree(work, pkts), ~Idle, SetDone
  PROVE  Agree(work', pkts')
<1> DEFINE p == Top.pkt
           r == pkts[p]
<1>1. Top.op = "set" /\ Top.op \in Calls BY DEF SetDone, Calls
<1>2. IsCall(Top) /\ p \in Worked(work) /\ p \in DOMAIN pkts /\ IsPacket(r)
  BY <1>1, TopWorks
<1>3. \/ /\ pkts' = With(pkts, p, [r EXCEPT !.out_group = OFPG_ANY])
         /\ work' = <<[op |-> "group", pkt |-> p, group |-> r.out_group]>> \o Rest
      \/ Output(With(pkts, p, [r EXCEPT !.out_port = OFPP_ANY]), p, r.out_port, AfterOutput(p) \o Rest)
      \/ pkts' = Destroyed(pkts, p) /\ work' = Rest
  BY DEF SetDone
<1>4. CASE pkts' = Destroyed(pkts, p) /\ work' = Rest
  BY <1>1, <1>4, PopCall DEF Agree
<1>5. CASE /\ pkts' = With(pkts, p, [r EXCEPT !.out_group = OFPG_ANY])
           /\ work' = <<[op |-> "group", pkt |-> p, group |-> r.out_group]>> \o Rest
  <2> DEFINE f == [op |-> "group", pkt |-> p, group |-> r.out_group]
             r2 == [r EXCEPT !.out_group = OFPG_ANY]
  <2>1. IsCall(f) /\ f.pkt = Top.pkt /\ f.op # "list" BY DEF IsCall, Calls
  <2>2. IsPacket(r2) /\ r2.saved = pkts[p].saved BY <1>2
  <2>3. work' = Onto(f, Rest) /\ pkts' = With(pkts, p, r2) BY <1>5 DEF Onto
  <2> HIDE DEF f, r2
  <2>4. SameShape(With(pkts, p, r2), pkts) BY <1>2, <2>2, OneChanged DEF Agree
  <2>5. QED BY <1>1, <2>1, <2>3, <2>4, GoesOn
<1>6. CASE Output(With(pkts, p, [r EXCEPT !.out_port = OFPP_ANY]), p, r.out_port, AfterOutput(p) \o Rest)
  <2> DEFINE f == [op |-> "destroy", pkt |-> p]
             r2 == [r EXCEPT !.out_port = OFPP_ANY]
  <2>1. IsCall(f) /\ f.pkt = Top.pkt /\ f.op # "list" BY DEF IsCall, Calls
  <2>2. IsPacket(r2) /\ r2.saved = pkts[p].saved BY <1>2
  <2>3. AfterOutput(p) \o Rest = Onto(f, Rest) BY DEF Onto, AfterOutput
  <2>4. Output(With(pkts, p, r2), p, r.out_port, Onto(f, Rest)) BY <1>6, <2>3
  <2> HIDE DEF f, r2
  <2>5. SameShape(With(pkts, p, r2), pkts) BY <1>2, <2>2, OneChanged DEF Agree
  <2>6. StackAgrees(Onto(f, Rest)) /\ Onto(f, Rest) # <<>> /\ Worked(Onto(f, Rest)) = Worked(work)
    BY <1>1, <2>1, GoesOn, Unchanged
  <2>7. QED BY <1>2, <2>4, <2>5, <2>6, OutputAgrees
<1>7. QED BY <1>3, <1>4, <1>5, <1>6

LEMMA ListDoneKeeps ==
  ASSUME Agree(work, pkts), ~Idle, ListDone \/ Return
  PROVE  Agree(work', pkts')
BY PopNotCall DEF ListDone, Return

LEMMA DestroyKeeps ==
  ASSUME Agree(work, pkts), ~Idle, Destroy
  PROVE  Agree(work', pkts')
BY PopCall DEF Destroy, Agree, Calls

\* The ways out of a group.
LEMMA NoBucketKeeps ==
  ASSUME Agree(work, pkts), ~Idle, Top.op \in Calls \ {"list"}, NoBucket
  PROVE  Agree(work', pkts')
BY PopCall DEF NoBucket, Agree

LEMMA ToBucketKeeps ==
  ASSUME Agree(work, pkts), ~Idle, Top.op = "group", NEW b, ToBucket(b)
  PROVE  Agree(work', pkts')
<1> DEFINE f == [op |-> "set", pkt |-> Top.pkt]
<1>1. Top.op \in Calls BY DEF Calls
<1>2. Top.pkt \in DOMAIN pkts /\ IsPacket(pkts[Top.pkt]) BY <1>1, TopWorks
<1>3. IsCall(f) /\ f.pkt = Top.pkt /\ f.op # "list" BY DEF IsCall, Calls
<1>4. work' = Onto(f, Rest) BY DEF ToBucket, Onto
<1>5. SameShape(pkts', pkts) BY <1>2 DEF ToBucket, SameShape, Agree, PacketsAgree
<1> HIDE DEF f
<1>6. QED BY <1>1, <1>3, <1>4, <1>5, GoesOn

LEMMA GroupKeeps ==
  ASSUME Agree(work, pkts), ~Idle, ExecuteSelect \/ ExecuteIndirect \/ ExecuteFf
  PROVE  Agree(work', pkts')
<1>1. Top.op = "group" /\ Top.op \in Calls \ {"list"}
  BY DEF ExecuteSelect, ExecuteIndirect, ExecuteFf, AtGroup, Calls
<1>2. NoBucket \/ \E b : ToBucket(b)
  <2>1. CASE ExecuteSelect BY <2>1 DEF ExecuteSelect
  <2>2. CASE ExecuteIndirect BY <2>2 DEF ExecuteIndirect
  <2>3. CASE ExecuteFf BY <2>3 DEF ExecuteFf
  <2>4. QED BY <2>1, <2>2, <2>3
<1>3. QED BY <1>1, <1>2, NoBucketKeeps, ToBucketKeeps

LEMMA ExecuteAllKeeps ==
  ASSUME Agree(work, pkts), ~Idle, ExecuteAll
  PROVE  Agree(work', pkts')
<1> DEFINE f == [op |-> "all", pkt |-> Top.pkt, buckets |-> Buckets(Top.group)]
<1>1. Top.op = "group" /\ Top.op \in Calls BY DEF ExecuteAll, AtGroup, Calls
<1>2. IsCall(f) /\ f.pkt = Top.pkt /\ f.op # "list" BY DEF IsCall, Calls
<1>3. work' = Onto(f, Rest) /\ pkts' = pkts BY DEF ExecuteAll, Onto
<1> HIDE DEF f
<1>4. QED BY <1>1, <1>2, <1>3, GoesOn, Unchanged

LEMMA NextOfAllKeeps ==
  ASSUME Agree(work, pkts), ~Idle, NextOfAll
  PROVE  Agree(work', pkts')
<1>1. Top.op = "all" /\ Top.op \in Calls \ {"list"} BY DEF NextOfAll, Calls
<1>2. IsCall(Top) BY <1>1, TopWorks
<1>3. CASE NoBucket BY <1>1, <1>3, NoBucketKeeps
<1>4. CASE Top.buckets # <<>>
  <2> DEFINE c == Fresh
             r == [Clone(pkts[Top.pkt]) EXCEPT !.set = WriteActions(@, Head(Top.buckets).actions, -1)]
             f == [op |-> "set", pkt |-> c]
             g == [Top EXCEPT !.buckets = Tail(@)]
             v == Onto(g, Rest)
  <2>1. work' = <<f, g>> \o Rest /\ pkts' = With(pkts, c, r) BY <1>4 DEF NextOfAll
  <2>2. IsPacket(r) BY DEF Clone, NewPacket
  <2>3. IsCall(f) /\ f.pkt = c /\ f.op # "list" BY DEF IsCall, Calls
  <2>4. IsCall(g) /\ g.pkt = Top.pkt /\ g.op = Top.op BY <1>2 DEF IsCall
  <2>5. IsStack(Rest) BY CallReturns DEF Agree, Idle, Rest, StackAgrees
  <2>6. c \notin DOMAIN pkts BY FreshIsNew DEF Agree, PacketsAgree
  <2> HIDE DEF f, g, c, r
  <2>7. work' = Onto(f, v) BY <2>1, <2>5, PushTwo
  <2>8. StackAgrees(v) /\ v # <<>> /\ Agree(v, pkts) BY <1>1, <2>4, GoesOn, Unchanged
  <2> HIDE DEF v
  <2>9. f.pkt \notin Worked(v) BY <2>3, <2>6, <2>8 DEF Agree, PacketsAgree
  <2>10. StackAgrees(Onto(f, v)) /\ Worked(Onto(f, v)) = Worked(v) \cup {c} BY <2>3, <2>8, <2>9, CallMade
  <2>11. PacketsAgree(Onto(f, v), With(pkts, c, r)) BY <2>2, <2>6, <2>8, <2>10, NewAgrees DEF Agree
  <2>12. QED BY <2>1, <2>7, <2>10, <2>11 DEF Agree
<1>5. QED BY <1>3, <1>4 DEF NextOfAll

LEMMA WalkKeeps ==
  ASSUME Agree(work, pkts), ~Idle, Walk
  PROVE  Agree(work', pkts')
BY ProcessKeeps, TableKeeps, InstsDoneKeeps, ApplyActionsKeeps, InstructionKeeps, GotoTableKeeps,
   MeterKeeps, ListActionKeeps, ListDoneKeeps, SetActionKeeps, SetDoneKeeps, DestroyKeeps,
   GroupKeeps, ExecuteAllKeeps, NextOfAllKeeps
   DEF Walk

-----------------------------------------------------------------------------
(* What comes from outside *)

LEMMA NoCalls == Worked(<<>>) = {} /\ StackAgrees(<<>>)
<1>1. Inner(<<>>) = {} BY DEF Inner
<1>2. <<>> \in Seq({}) OBVIOUS
<1>3. QED BY <1>1, <1>2 DEF Worked, StackAgrees, IsStack

\* A walk begins with one call, or with a list and the call that runs it.
LEMMA Begun ==
  ASSUME NEW f, IsCall(f), f.op # "list"
  PROVE  /\ StackAgrees(<<f, Handler>>) /\ Worked(<<f, Handler>>) = {f.pkt}
         /\ \A g : IsCall(g) /\ g.op = "list" /\ g.pkt = f.pkt /\ f.op = "destroy" =>
              StackAgrees(<<g, f, Handler>>) /\ Worked(<<g, f, Handler>>) = {f.pkt}
<1> DEFINE v == Onto(f, <<Handler>>)
<1>1. StackAgrees(v) /\ v # <<>> /\ Worked(v) = {f.pkt} BY HandlerAlone, CallMade
<1>2. v = <<f, Handler>> BY HandlerBelow
<1>3. Head(v) = f BY HandlerAlone, PushShape DEF StackAgrees
<1>4. \A g : <<g, f, Handler>> = Onto(g, v) BY HandlerBelow
<1> HIDE DEF v
<1>5. ASSUME NEW g, IsCall(g), g.op = "list", g.pkt = f.pkt, f.op = "destroy"
      PROVE  StackAgrees(Onto(g, v)) /\ Worked(Onto(g, v)) = {f.pkt}
  BY <1>1, <1>3, <1>5, CallMade
<1>6. QED BY <1>1, <1>2, <1>4, <1>5

\* A saved packet is taken out of its buffer, or a new one comes.
LEMMA TakenAgrees ==
  ASSUME PacketsAgree(<<>>, pkts), NEW ps, SameShape(ps, pkts), NEW p \in DOMAIN pkts,
         NEW v, Worked(v) = {p}
  PROVE  PacketsAgree(v, [ps EXCEPT ![p] = Retrieved(@)])
<1> DEFINE qs == [ps EXCEPT ![p] = Retrieved(@)]
<1>1. DOMAIN qs = DOMAIN pkts /\ \A x \in DOMAIN pkts : x # p => qs[x] = ps[x] BY DEF SameShape
<1>2. IsPacket(ps[p]) BY DEF SameShape
<1>3. IsPacket(Retrieved(ps[p])) BY <1>2 DEF Retrieved
<1>4. qs[p] = Retrieved(ps[p]) BY DEF SameShape
<1> HIDE DEF qs
<1>5. PacketsAgree(v, qs) BY <1>1, <1>3, <1>4, NoCalls DEF PacketsAgree, SavedIn, SameShape
<1>6. QED BY <1>5 DEF qs

LEMMA EntryFreedShape ==
  ASSUME Agree(work, pkts), NEW t
  PROVE  SameShape(EntryFreed(pkts, t), pkts)
BY DEF EntryFreed, SameShape, Agree, PacketsAgree

LEMMA EventKeeps ==
  ASSUME Agree(work, pkts), Idle, Event
  PROVE  Agree(work', pkts')
<1> USE DEF Idle
<1>1. PacketsAgree(<<>>, pkts) /\ Fresh \notin DOMAIN pkts BY FreshIsNew DEF Agree, PacketsAgree
<1>2. CASE Arrive
  <2> DEFINE f == [op |-> "process", pkt |-> Fresh]
  <2>1. PICK port, ttl : LET r == NewPacket(NewHeader(ttl), port, FALSE) IN
                           pkts' = With(pkts, Fresh, r) /\ work' = <<f, Handler>>
    BY <1>2 DEF Arrive
  <2> DEFINE r == NewPacket(NewHeader(ttl), port, FALSE)
  <2>2. IsCall(f) /\ f.op # "list" /\ f.pkt = Fresh BY DEF IsCall, Calls
  <2>3. IsPacket(r) BY DEF NewPacket
  <2>4. pkts' = With(pkts, Fresh, r) /\ work' = <<f, Handler>> BY <2>1
  <2> HIDE DEF f, r
  <2>5. StackAgrees(<<f, Handler>>) /\ Worked(<<f, Handler>>) = {Fresh} BY <2>2, Begun
  <2>6. PacketsAgree(<<f, Handler>>, With(pkts, Fresh, r)) BY <1>1, <2>3, <2>5, NewAgrees, NoCalls
  <2>7. QED BY <2>4, <2>5, <2>6 DEF Agree
<1>3. CASE PacketOut
  <2>1. PICK acts, in_port, ttl :
          LET r == NewPacket(NewHeader(ttl), in_port, TRUE) IN
          /\ pkts' = With(pkts, Fresh, r)
          /\ work' = <<[op |-> "list", pkt |-> Fresh, acts |-> acts], [op |-> "destroy", pkt |-> Fresh], Handler>>
    BY <1>3 DEF PacketOut
  <2> DEFINE r == NewPacket(NewHeader(ttl), in_port, TRUE)
             g == [op |-> "list", pkt |-> Fresh, acts |-> acts]
             f == [op |-> "destroy", pkt |-> Fresh]
  <2>2. IsCall(f) /\ f.op = "destroy" /\ f.pkt = Fresh BY DEF IsCall, Calls
  <2>3. IsCall(g) /\ g.op = "list" /\ g.pkt = Fresh BY DEF IsCall, Calls
  <2>4. IsPacket(r) BY DEF NewPacket
  <2>5. pkts' = With(pkts, Fresh, r) /\ work' = <<g, f, Handler>> BY <2>1
  <2> HIDE DEF f, g, r
  <2>6. StackAgrees(<<g, f, Handler>>) /\ Worked(<<g, f, Handler>>) = {Fresh} BY <2>2, <2>3, Begun
  <2>7. PacketsAgree(<<g, f, Handler>>, With(pkts, Fresh, r)) BY <1>1, <2>4, <2>6, NewAgrees, NoCalls
  <2>8. QED BY <2>5, <2>6, <2>7 DEF Agree
<1>4. CASE PacketOutBuffered
  <2>1. PICK acts \in Lists, p \in Saved :
          /\ pkts' = [pkts EXCEPT ![p] = Retrieved(@)]
          /\ work' = <<[op |-> "list", pkt |-> p, acts |-> acts], [op |-> "destroy", pkt |-> p], Handler>>
    BY <1>4 DEF PacketOutBuffered
  <2> DEFINE g == [op |-> "list", pkt |-> p, acts |-> acts]
             f == [op |-> "destroy", pkt |-> p]
  <2>2. IsCall(f) /\ f.op = "destroy" /\ f.pkt = p BY DEF IsCall, Calls
  <2>3. IsCall(g) /\ g.op = "list" /\ g.pkt = p BY DEF IsCall, Calls
  <2>4. work' = <<g, f, Handler>> BY <2>1
  <2>5. p \in DOMAIN pkts BY DEF Saved
  <2> HIDE DEF f, g
  <2>6. StackAgrees(<<g, f, Handler>>) /\ Worked(<<g, f, Handler>>) = {p} BY <2>2, <2>3, Begun
  <2>7. PacketsAgree(<<g, f, Handler>>, [pkts EXCEPT ![p] = Retrieved(@)])
    BY <1>1, <2>5, <2>6, Unchanged, TakenAgrees
  <2>8. QED BY <2>1, <2>4, <2>6, <2>7 DEF Agree
<1>5. CASE FlowModBuffered
  <2>1. PICK t \in Tables, p \in Saved :
          /\ pkts' = [EntryFreed(pkts, t) EXCEPT ![p] = Retrieved(@)]
          /\ work' = <<[op |-> "process", pkt |-> p], Handler>>
    BY <1>5 DEF FlowModBuffered
  <2> DEFINE f == [op |-> "process", pkt |-> p]
  <2>2. IsCall(f) /\ f.op # "list" /\ f.pkt = p BY DEF IsCall, Calls
  <2>3. work' = <<f, Handler>> BY <2>1
  <2>4. p \in DOMAIN pkts BY DEF Saved
  <2> HIDE DEF f
  <2>5. StackAgrees(<<f, Handler>>) /\ Worked(<<f, Handler>>) = {p} BY <2>2, Begun
  <2>6. PacketsAgree(<<f, Handler>>, [EntryFreed(pkts, t) EXCEPT ![p] = Retrieved(@)])
    BY <1>1, <2>4, <2>5, EntryFreedShape, TakenAgrees
  <2>7. QED BY <2>1, <2>3, <2>5, <2>6 DEF Agree
<1>6. CASE FlowMod \/ FlowRemoved
  <2>1. PICK t : pkts' = EntryFreed(pkts, t) /\ work' = work BY <1>6 DEF FlowMod, FlowRemoved
  <2>2. PacketsAgree(work, pkts') BY <2>1, EntryFreedShape, SameAgrees DEF Agree
  <2>3. QED BY <2>1, <2>2 DEF Agree
<1>7. CASE PortMod \/ Refill BY <1>7 DEF PortMod, Refill
<1>8. QED BY <1>2, <1>3, <1>4, <1>5, <1>6, <1>7 DEF Event

\* The calls and the packets agree at all times.
THEOREM AgreeHolds == Spec => []Agree(work, pkts)
<1>1. Init => Agree(work, pkts)
  <2> SUFFICES ASSUME Init PROVE Agree(work, pkts) OBVIOUS
  <2>1. work = <<>> /\ pkts = <<>> BY DEF Init
  <2>2. DOMAIN <<>> = {} OBVIOUS
  <2>3. IsFiniteSet({}) BY FS_EmptySet
  <2>4. QED BY <2>1, <2>2, <2>3, NoCalls DEF Agree, PacketsAgree
<1>2. Agree(work, pkts) /\ [Next]_vars => Agree(work, pkts)'
  <2>1. CASE Next BY <2>1, WalkKeeps, EventKeeps DEF Next
  <2>2. CASE UNCHANGED vars BY <2>2 DEF vars, Agree, StackAgrees, PacketsAgree
  <2>3. QED BY <2>1, <2>2
<1>3. QED BY <1>1, <1>2, PTL DEF Spec

\* No packet is used after it was freed, freed while a call works on it, or
\* forgotten: EachPacketIsOwned.
THEOREM OwnedHolds == Spec => []EachPacketIsOwned
<1>1. Agree(work, pkts) => EachPacketIsOwned
  BY WorkingIsInner DEF Agree, PacketsAgree, EachPacketIsOwned, Saved, SavedIn
<1>2. QED BY <1>1, AgreeHolds, PTL

-----------------------------------------------------------------------------
(* The meter *)

\* The tokens are between zero and the size of the bucket; what has passed since
\* a refill was paid from each band that limits it; and until one packet is
\* lost, a band has lost no more tokens than packets have passed.
MeterAgrees ==
  /\ meter \in [tokens : [DOMAIN Bands -> Nat], passed : Nat, lost : BOOLEAN, filled : BOOLEAN]
  /\ \A i \in DOMAIN Bands : meter.tokens[i] <= Bands[i].rate * RefillsPerSec
  /\ \A i \in DOMAIN Bands : Limits(i) =>
       meter.passed * RefillsPerSec + meter.tokens[i] <= Bands[i].rate * RefillsPerSec
  /\ meter.filled /\ ~meter.lost => \A i \in DOMAIN Bands : Bands[i].rate >= RefillsPerSec =>
       Bands[i].rate <= meter.tokens[i] + meter.passed * RefillsPerSec
  /\ meter.filled /\ meter.lost =>
       \E i \in DOMAIN Bands : Bands[i].type = "drop" /\ meter.passed >= Bands[i].rate \div RefillsPerSec

LEMMA BandTypes ==
  /\ RefillsPerSec \in Nat \ {0}
  /\ \E n \in Nat : DOMAIN Bands = 1..n
  /\ \A i \in DOMAIN Bands : Bands[i].rate \in Nat \ {0} /\ Bands[i].type \in {"drop", "remark"}
<1> DEFINE S == [type : {"drop", "remark"}, rate : Nat \ {0}]
<1>1. RefillsPerSec \in Nat \ {0} /\ Bands \in Seq(S) BY BandsAssumption
<1>2. \A s \in S : s.rate \in Nat \ {0} /\ s.type \in {"drop", "remark"} OBVIOUS
<1> HIDE DEF S
<1>3. DOMAIN Bands = 1..Len(Bands) /\ Len(Bands) \in Nat BY <1>1
<1>4. \A i \in DOMAIN Bands : Bands[i] \in S BY <1>1
<1>5. QED BY <1>1, <1>2, <1>3, <1>4

\* choose_band finds a band.
LEMMA ChosenExists ==
  ASSUME Exceeded # {}
  PROVE  /\ Chosen \in Exceeded
         /\ \A j \in Exceeded : Bands[Chosen].rate >= Bands[j].rate
<1> DEFINE Better(i) == {j \in Exceeded : Bands[j].rate > Bands[i].rate \/ (Bands[j].rate = Bands[i].rate /\ j < i)}
           K == {Cardinality(Better(i)) : i \in Exceeded}
<1>1. PICK n \in Nat : DOMAIN Bands = 1..n BY BandTypes
<1>2. /\ Exceeded \subseteq 1..n
      /\ \A i \in Exceeded : i \in Int /\ Bands[i].rate \in Int
  BY <1>1, BandTypes DEF Exceeded
<1>3. IsFiniteSet(Exceeded)
  <2>1. IsFiniteSet(1..n) BY <1>1, FS_Interval
  <2>2. QED BY <1>2, <2>1, FS_Subset
<1> HIDE DEF Exceeded
<1>4. \A i \in Exceeded : IsFiniteSet(Better(i)) /\ Cardinality(Better(i)) \in Nat
  BY <1>3, FS_Subset, FS_CardinalityType
<1>5. PICK i \in Exceeded : \A k \in Exceeded : Cardinality(Better(i)) <= Cardinality(Better(k))
  <2>1. PICK x : x \in Exceeded OBVIOUS
  <2>2. K \in SUBSET Nat /\ Cardinality(Better(x)) \in K BY <1>4, <2>1
  <2>3. PICK m \in K : \A k \in K : m <= k
    <3> HIDE DEF K
    <3>1. QED BY <2>2, LeastExists
  <2> HIDE DEF Better
  <2>4. PICK i \in Exceeded : m = Cardinality(Better(i)) BY <2>3
  <2>5. QED BY <2>3, <2>4
<1>6. Better(i) = {}
  <2>1. SUFFICES ASSUME NEW j \in Better(i) PROVE FALSE OBVIOUS
  <2>2. j \in Exceeded /\ j \in Better(i) /\ j \notin Better(j) BY <1>2
  <2>3. Better(j) \subseteq Better(i)
    <3>1. SUFFICES ASSUME NEW k \in Better(j) PROVE k \in Better(i) OBVIOUS
    <3>2. i \in Int /\ j \in Int /\ k \in Int /\ Bands[i].rate \in Int /\ Bands[j].rate \in Int /\ Bands[k].rate \in Int
      BY <1>2
    <3>3. QED BY <3>2
  <2> HIDE DEF Better
  <2>4. Cardinality(Better(j)) <= Cardinality(Better(i)) BY <1>4, <2>3, FS_Subset
  <2>5. Cardinality(Better(j)) # Cardinality(Better(i)) BY <1>4, <2>2, <2>3, FS_Subset
  <2>6. QED BY <1>4, <1>5, <2>2, <2>4, <2>5
<1>7. \A j \in Exceeded : Bands[i].rate > Bands[j].rate \/ (Bands[i].rate = Bands[j].rate /\ i <= j)
  BY <1>2, <1>6
<1>8. /\ Chosen \in Exceeded
      /\ \A j \in Exceeded : Bands[Chosen].rate > Bands[j].rate \/ (Bands[Chosen].rate = Bands[j].rate /\ Chosen <= j)
  BY <1>7 DEF Chosen
<1>9. QED BY <1>2, <1>8

\* Arithmetic of packets and tokens.
LEMMA PaidFor ==
  ASSUME NEW a \in Nat, NEW b \in Nat, NEW R \in Nat \ {0}, NEW x \in Nat, a * R + x <= b * R
  PROVE  a <= b
<1>1. CASE a <= b BY <1>1
<1>2. CASE b + 1 <= a
  <2>1. (b + 1) * R = b * R + R OBVIOUS
  <2>2. PICK d \in Nat : a = (b + 1) + d
    <3>1. a - (b + 1) \in Nat /\ a = (b + 1) + (a - (b + 1)) BY <1>2
    <3>2. QED BY <3>1
  <2>3. a * R = (b + 1) * R + d * R BY <2>2
  <2>4. d * R \in Nat /\ b * R \in Nat OBVIOUS
  <2>5. QED BY <2>1, <2>3, <2>4
<1>3. QED BY <1>1, <1>2

LEMMA NotLess ==
  ASSUME NEW b \in Nat, NEW R \in Nat \ {0}
  PROVE  b <= b * R
<1>1. PICK d \in Nat : R = 1 + d
  <2>1. R - 1 \in Nat /\ R = 1 + (R - 1) OBVIOUS
  <2>2. QED BY <2>1
<1>2. b * R = b + b * d /\ b * d \in Nat BY <1>1
<1>3. QED BY <1>2

LEMMA Quotient ==
  ASSUME NEW r \in Nat, NEW R \in Nat \ {0}
  PROVE  r \div R \in Nat /\ (r \div R) * R <= r
OBVIOUS

LEMMA OneRefillPassed ==
  ASSUME NEW r \in Nat, NEW R \in Nat \ {0}, NEW a \in Nat, NEW t \in Nat, t < R,
         r >= R => r <= t + a * R
  PROVE  a >= r \div R
<1> DEFINE q == r \div R
<1>1. q \in Nat /\ q * R <= r BY Quotient
<1> HIDE DEF q
<1>2. CASE r >= R
  <2>1. q * R <= t + a * R BY <1>1, <1>2
  <2>2. SUFFICES ASSUME a + 1 <= q PROVE FALSE BY <1>1 DEF q
  <2>3. PICK d \in Nat : q = (a + 1) + d
    <3>1. q - (a + 1) \in Nat /\ q = (a + 1) + (q - (a + 1)) BY <1>1, <2>2
    <3>2. QED BY <3>1
  <2>4. q * R = a * R + R + d * R BY <2>3
  <2>5. d * R \in Nat /\ a * R \in Nat OBVIOUS
  <2>6. QED BY <2>1, <2>4, <2>5
<1>3. CASE r < R
  <2>1. CASE q = 0 BY <2>1 DEF q
  <2>2. CASE q >= 1
    <3>1. PICK d \in Nat : q = 1 + d
      <4>1. q - 1 \in Nat /\ q = 1 + (q - 1) BY <1>1, <2>2
      <4>2. QED BY <4>1
    <3>2. q * R = R + d * R /\ d * R \in Nat BY <3>1
    <3>3. QED BY <1>1, <1>3, <3>2
  <2>3. QED BY <1>1, <2>1, <2>2
<1>4. QED BY <1>2, <1>3

LEMMA MeterStep ==
  ASSUME MeterAgrees, Meter
  PROVE  MeterAgrees'
<1> DEFINE R == RefillsPerSec
           tokens == meter.tokens
           passed == meter.passed
           spent == [i \in DOMAIN Bands |-> IF tokens[i] < R THEN tokens[i] ELSE tokens[i] - R]
<1>1. /\ R \in Nat \ {0}
      /\ \A i \in DOMAIN Bands : Bands[i].rate \in Nat \ {0} /\ Bands[i].type \in {"drop", "remark"}
  BY BandTypes
<1>2. /\ meter \in [tokens : [DOMAIN Bands -> Nat], passed : Nat, lost : BOOLEAN, filled : BOOLEAN]
      /\ tokens \in [DOMAIN Bands -> Nat] /\ passed \in Nat
  BY DEF MeterAgrees
<1>3. Consumed = spent /\ Exceeded = {i \in DOMAIN Bands : tokens[i] < R}
  BY DEF Consumed, Exceeded, Cost
<1>4. spent \in [DOMAIN Bands -> Nat] /\ \A i \in DOMAIN Bands : spent[i] <= tokens[i] /\ tokens[i] <= spent[i] + R
  BY <1>1, <1>2
<1>5. \A i \in DOMAIN Bands : i \notin Exceeded => spent[i] + R = tokens[i] BY <1>1, <1>2, <1>3
<1>6. /\ \A i \in DOMAIN Bands : tokens[i] <= Bands[i].rate * R
      /\ \A i \in DOMAIN Bands : Limits(i) => passed * R + tokens[i] <= Bands[i].rate * R
      /\ meter.filled /\ ~meter.lost => \A i \in DOMAIN Bands : Bands[i].rate >= R =>
           Bands[i].rate <= tokens[i] + passed * R
      /\ meter.filled /\ meter.lost =>
           \E i \in DOMAIN Bands : Bands[i].type = "drop" /\ passed >= Bands[i].rate \div R
  BY DEF MeterAgrees
<1>7. \A i \in DOMAIN Bands : Bands[i].rate * R \in Nat /\ Bands[i].rate \div R \in Nat BY <1>1, Quotient
<1>8. passed * R \in Nat /\ (passed + 1) * R = passed * R + R /\ R \in Nat BY <1>1, <1>2
<1>9. CASE Dropped
  <2>1. meter' = [meter EXCEPT !.tokens = spent, !.lost = TRUE] BY <1>3, <1>9 DEF Meter
  <2> HIDE DEF spent
  <2>2. /\ meter'.tokens = spent /\ meter'.passed = passed /\ meter'.lost = TRUE /\ meter'.filled = meter.filled
        /\ meter' \in [tokens : [DOMAIN Bands -> Nat], passed : Nat, lost : BOOLEAN, filled : BOOLEAN]
    BY <1>2, <1>4, <2>1
  <2>3. ASSUME meter.filled
        PROVE  \E i \in DOMAIN Bands : Bands[i].type = "drop" /\ passed >= Bands[i].rate \div R
    <3>1. CASE meter.lost BY <1>6, <2>3, <3>1
    <3>2. CASE ~meter.lost
      <4> DEFINE c == Chosen
      <4>1. c \in Exceeded /\ Bands[c].type = "drop" BY <1>9, ChosenExists DEF Dropped
      <4>2. c \in DOMAIN Bands /\ tokens[c] < R BY <1>3, <4>1
      <4> HIDE DEF c
      <4>3. Bands[c].rate >= R => Bands[c].rate <= tokens[c] + passed * R BY <1>6, <2>3, <3>2, <4>2
      <4>4. Bands[c].rate \in Nat /\ tokens[c] \in Nat BY <1>1, <1>2, <4>2
      <4> HIDE DEF R, tokens, passed
      <4>5. passed >= Bands[c].rate \div R BY <1>1, <1>2, <4>2, <4>3, <4>4, OneRefillPassed
      <4>6. QED BY <4>1, <4>2, <4>5
    <3>3. QED BY <3>1, <3>2
  <2> HIDE DEF tokens, passed
  <2>4. \A i \in DOMAIN Bands : spent[i] <= Bands[i].rate * R BY <1>2, <1>4, <1>6, <1>7
  <2>5. \A i \in DOMAIN Bands : Limits(i) => passed * R + spent[i] <= Bands[i].rate * R
    BY <1>2, <1>4, <1>6, <1>7, <1>8
  <2>6. QED BY <2>2, <2>3, <2>4, <2>5 DEF MeterAgrees
<1>10. CASE ~Dropped
  <2>1. meter' = [meter EXCEPT !.tokens = spent, !.passed = @ + 1] BY <1>3, <1>10 DEF Meter
  <2> HIDE DEF spent
  <2>2. /\ meter'.tokens = spent /\ meter'.passed = passed + 1 /\ meter'.lost = meter.lost /\ meter'.filled = meter.filled
        /\ meter' \in [tokens : [DOMAIN Bands -> Nat], passed : Nat, lost : BOOLEAN, filled : BOOLEAN]
    <3>1. /\ meter.lost \in BOOLEAN /\ meter.filled \in BOOLEAN
          /\ meter' = [tokens |-> spent, passed |-> passed + 1, lost |-> meter.lost, filled |-> meter.filled]
      BY <1>2, <2>1
    <3>2. passed + 1 \in Nat BY <1>2
    <3> HIDE DEF passed
    <3>3. meter' \in [tokens : [DOMAIN Bands -> Nat], passed : Nat, lost : BOOLEAN, filled : BOOLEAN]
      BY <1>4, <3>1, <3>2
    <3>4. meter'.tokens = spent /\ meter'.passed = passed + 1 BY <3>1
    <3>5. meter'.lost = meter.lost BY <3>1
    <3>6. meter'.filled = meter.filled BY <3>1
    <3>7. QED BY <3>3, <3>4, <3>5, <3>6
  <2> HIDE DEF tokens, passed
  <2>3. \A i \in DOMAIN Bands : spent[i] <= Bands[i].rate * R BY <1>2, <1>4, <1>6, <1>7
  <2>4. ASSUME NEW i \in DOMAIN Bands, Limits(i)
        PROVE  (passed + 1) * R + spent[i] <= Bands[i].rate * R
    <3>1. i \notin Exceeded
      <4>1. SUFFICES ASSUME i \in Exceeded PROVE FALSE OBVIOUS
      <4>2. Chosen \in Exceeded /\ Bands[Chosen].rate >= Bands[i].rate BY <4>1, ChosenExists
      <4>3. Bands[Chosen].type = "drop" BY <2>4, <4>2, <1>3 DEF Limits
      <4>4. QED BY <1>10, <4>1, <4>3 DEF Dropped
    <3>2. spent[i] + R = tokens[i] BY <1>5, <3>1
    <3>3. passed * R + tokens[i] <= Bands[i].rate * R BY <1>6, <2>4
    <3>4. spent[i] \in Nat /\ tokens[i] \in Nat BY <1>2, <1>4
    <3>5. QED BY <1>7, <1>8, <3>2, <3>3, <3>4
  <2>5. ASSUME meter.filled, ~meter.lost, NEW i \in DOMAIN Bands, Bands[i].rate >= R
        PROVE  Bands[i].rate <= spent[i] + (passed + 1) * R
    <3>1. Bands[i].rate <= tokens[i] + passed * R BY <1>6, <2>5
    <3>2. tokens[i] <= spent[i] + R /\ spent[i] \in Nat /\ tokens[i] \in Nat /\ Bands[i].rate \in Nat
      BY <1>1, <1>2, <1>4
    <3>3. QED BY <1>8, <3>1, <3>2
  <2>6. ASSUME meter.filled, meter.lost
        PROVE  \E i \in DOMAIN Bands : Bands[i].type = "drop" /\ passed + 1 >= Bands[i].rate \div R
    <3>1. PICK i \in DOMAIN Bands : Bands[i].type = "drop" /\ passed >= Bands[i].rate \div R BY <1>6, <2>6
    <3>2. passed + 1 >= Bands[i].rate \div R BY <1>2, <1>7, <3>1
    <3>3. QED BY <3>1, <3>2
  <2>7. QED BY <2>2, <2>3, <2>4, <2>5, <2>6 DEF MeterAgrees
<1>11. QED BY <1>9, <1>10

LEMMA RefillStep ==
  ASSUME MeterAgrees, Refill
  PROVE  MeterAgrees'
<1> DEFINE R == RefillsPerSec
           tokens == meter.tokens
           full == [i \in DOMAIN Bands |-> Refilled(i)]
<1>1. /\ R \in Nat \ {0}
      /\ \A i \in DOMAIN Bands : Bands[i].rate \in Nat \ {0} /\ Bands[i].type \in {"drop", "remark"}
  BY BandTypes
<1>2. tokens \in [DOMAIN Bands -> Nat] /\ \A i \in DOMAIN Bands : tokens[i] <= Bands[i].rate * R
  BY DEF MeterAgrees
<1>3. ASSUME NEW i \in DOMAIN Bands
      PROVE  /\ full[i] \in Nat /\ full[i] <= Bands[i].rate * R
             /\ Bands[i].rate >= R => Bands[i].rate <= full[i]
  <2> DEFINE t == tokens[i]
             b == Bands[i].rate
             cap == b * R
  <2>1. t \in Nat /\ b \in Nat \ {0} /\ cap \in Nat /\ t <= cap BY <1>1, <1>2
  <2>2. b <= cap
    <3> HIDE DEF b, R
    <3>1. b \in Nat /\ R \in Nat \ {0} BY <1>1, <2>1
    <3>2. QED BY <3>1, NotLess
  <2>3. full[i] = IF t + b < R THEN t ELSE IF t + b < cap THEN t + b ELSE cap BY DEF Refilled, Cost
  <2> HIDE DEF t, b, cap, full
  <2>4. full[i] \in Nat /\ full[i] <= cap /\ (b >= R => b <= full[i]) BY <1>1, <2>1, <2>2, <2>3
  <2>5. QED BY <2>4 DEF b, cap
<1>4. meter' = [tokens |-> full, passed |-> 0, lost |-> FALSE, filled |-> TRUE] BY DEF Refill
<1>5. full \in [DOMAIN Bands -> Nat] BY <1>3
<1> HIDE DEF full
<1>6. /\ meter'.tokens = full /\ meter'.passed = 0 /\ meter'.lost = FALSE /\ meter'.filled = TRUE
      /\ meter' \in [tokens : [DOMAIN Bands -> Nat], passed : Nat, lost : BOOLEAN, filled : BOOLEAN]
  BY <1>4, <1>5
<1>7. 0 * R = 0 BY <1>1
<1>8. \A i \in DOMAIN Bands : 0 * R + full[i] <= Bands[i].rate * R BY <1>3, <1>7
<1>9. \A i \in DOMAIN Bands : Bands[i].rate >= R => Bands[i].rate <= full[i] + 0 * R BY <1>3, <1>7
<1>10. QED BY <1>3, <1>6, <1>8, <1>9 DEF MeterAgrees

\* What the meter has let through was paid for, and it has dropped nothing before.
THEOREM MeterHolds == Spec => []MeterKeepsRate
<1>1. Init => MeterAgrees
  <2> SUFFICES ASSUME Init PROVE MeterAgrees OBVIOUS
  <2> DEFINE none == [i \in DOMAIN Bands |-> 0]
  <2>1. meter = [tokens |-> none, passed |-> 0, lost |-> FALSE, filled |-> FALSE] BY DEF Init
  <2>2. none \in [DOMAIN Bands -> Nat] /\ \A i \in DOMAIN Bands : none[i] = 0 OBVIOUS
  <2> HIDE DEF none
  <2>3. /\ meter.tokens = none /\ meter.passed = 0 /\ meter.filled = FALSE
        /\ meter \in [tokens : [DOMAIN Bands -> Nat], passed : Nat, lost : BOOLEAN, filled : BOOLEAN]
    BY <2>1, <2>2
  <2>4. /\ RefillsPerSec \in Nat /\ 0 * RefillsPerSec = 0
        /\ \A i \in DOMAIN Bands : Bands[i].rate * RefillsPerSec \in Nat
    BY BandTypes
  <2>5. \A i \in DOMAIN Bands : none[i] <= Bands[i].rate * RefillsPerSec
                               /\ 0 * RefillsPerSec + none[i] <= Bands[i].rate * RefillsPerSec
    <3> TAKE i \in DOMAIN Bands
    <3> DEFINE cap == Bands[i].rate * RefillsPerSec
               nothing == 0 * RefillsPerSec
    <3>1. cap \in Nat /\ nothing = 0 /\ none[i] = 0 BY <2>2, <2>4
    <3> HIDE DEF cap, nothing
    <3>2. none[i] <= cap /\ nothing + none[i] <= cap BY <3>1
    <3>3. QED BY <3>2 DEF cap, nothing
  <2>6. QED BY <2>3, <2>5 DEF MeterAgrees
<1>2. MeterAgrees /\ [Next]_vars => MeterAgrees'
  <2> SUFFICES ASSUME MeterAgrees, [Next]_vars PROVE MeterAgrees' OBVIOUS
  <2>1. meter' = meter \/ Meter \/ Refill
    BY DEF Next, Walk, Event, vars, Process, Table, InstsDone, ApplyActions, ClearActions, WriteActionsInst,
           GotoTable, ListAction, ListDone, SetAction, SetDone, Destroy, Return, ExecuteAll, NextOfAll,
           ExecuteSelect, ExecuteIndirect, ExecuteFf, Arrive, PacketOut, PacketOutBuffered, FlowMod,
           FlowModBuffered, FlowRemoved, PortMod
  <2>2. CASE meter' = meter BY <2>2 DEF MeterAgrees, Limits
  <2>3. QED BY <2>1, <2>2, MeterStep, RefillStep
<1>3. MeterAgrees => MeterKeepsRate
  <2> SUFFICES ASSUME MeterAgrees PROVE MeterKeepsRate OBVIOUS
  <2>1. ASSUME NEW i \in DOMAIN Bands, Limits(i) PROVE meter.passed <= Bands[i].rate
    <3>1. /\ RefillsPerSec \in Nat \ {0} /\ Bands[i].rate \in Nat /\ meter.passed \in Nat /\ meter.tokens[i] \in Nat
          /\ meter.passed * RefillsPerSec + meter.tokens[i] <= Bands[i].rate * RefillsPerSec
      BY <2>1, BandTypes DEF MeterAgrees
    <3>2. QED BY <3>1, PaidFor
  <2>2. QED BY <2>1 DEF MeterAgrees, MeterKeepsRate
<1>4. QED BY <1>1, <1>2, <1>3, PTL DEF Spec

-----------------------------------------------------------------------------
(* Weighted round robin *)

LEMMA Remainder ==
  ASSUME NEW n \in Nat \ {0}, NEW x \in Nat
  PROVE  x \div n \in Nat /\ x % n \in 0..(n - 1) /\ x = n * (x \div n) + (x % n)
<1>1. x \div n \in Nat OBVIOUS
<1>2. x % n \in 0..(n - 1) OBVIOUS
<1>3. x = n * (x \div n) + (x % n) OBVIOUS
<1>4. QED BY <1>1, <1>2, <1>3

LEMMA RemainderIs ==
  ASSUME NEW n \in Nat \ {0}, NEW x \in 0..(2 * n - 1)
  PROVE  x % n = IF x < n THEN x ELSE x - n
<1>0. x \in Nat OBVIOUS
<1>1. x \div n \in Nat /\ x % n \in 0..(n - 1) /\ x = n * (x \div n) + (x % n) BY <1>0, Remainder
<1> DEFINE q == x \div n
           m == x % n
<1>2. q \in Nat /\ m \in 0..(n - 1) /\ x = n * q + m BY <1>1
<1> HIDE DEF q, m
<1>3. CASE q = 0 BY <1>2, <1>3 DEF m
<1>4. CASE q = 1 BY <1>2, <1>4 DEF m
<1>5. CASE q >= 2
  <2>1. PICK e \in Nat : q = 2 + e
    <3>1. q - 2 \in Nat /\ q = 2 + (q - 2) BY <1>2, <1>5
    <3>2. QED BY <3>1
  <2>2. n * q = 2 * n + n * e /\ n * e \in Nat BY <2>1
  <2>3. QED BY <1>2, <2>2
<1>6. QED BY <1>2, <1>3, <1>4, <1>5

\* A number that a divisor divides is so many times it.
LEMMA DividedBy ==
  ASSUME NEW w \in Nat, NEW d \in Nat \ {0}, w % d = 0
  PROVE  \E p \in Nat : w = d * p
<1>1. w \div d \in Nat /\ w = d * (w \div d) + (w % d) BY Remainder
<1>2. QED BY <1>1

LEMMA TimesKeepsOrder ==
  ASSUME NEW d \in Nat \ {0}, NEW a \in Nat, NEW b \in Nat
  PROVE  (d * a <= d * b <=> a <= b) /\ (d * a = d * b <=> a = b)
<1>1. CASE a <= b
  <2>1. PICK e \in Nat : b = a + e
    <3>1. b - a \in Nat /\ b = a + (b - a) BY <1>1
    <3>2. QED BY <3>1
  <2>2. d * b = d * a + d * e /\ d * e \in Nat /\ d * a \in Nat BY <2>1
  <2>3. d * e = 0 <=> e = 0 OBVIOUS
  <2>4. QED BY <2>1, <2>2, <2>3
<1>2. CASE b < a
  <2>1. PICK e \in Nat : a = b + e /\ e # 0
    <3>1. a - b \in Nat /\ a = b + (a - b) BY <1>2
    <3>2. QED BY <3>1, <1>2
  <2>2. d * a = d * b + d * e /\ d * e \in Nat /\ d * b \in Nat BY <2>1
  <2>3. d * e = 0 <=> e = 0 OBVIOUS
  <2>4. QED BY <2>1, <2>2, <2>3
<1>3. QED BY <1>1, <1>2

LEMMA Uint16 == UINT16_MAX \in Nat
BY DEF UINT16_MAX

\* The number of buckets, their weights, the greatest one and the divisor.
LEMMA GroupShape ==
  ASSUME NEW g \in Selecting
  PROVE  /\ Len(Buckets(g)) \in Nat /\ DOMAIN Buckets(g) = 1..Len(Buckets(g))
         /\ Weights(g) \in [1..Len(Buckets(g)) -> 0..UINT16_MAX]
<1>1. g \in DOMAIN Groups BY DEF Selecting
<1>2. PICK S : Buckets(g) \in Seq(S) BY <1>1, GroupsAssumption DEF Buckets
<1>3. \A b \in DOMAIN Buckets(g) : Buckets(g)[b].weight \in 0..UINT16_MAX BY <1>1, GroupsAssumption DEF Buckets, IsBucket
<1>4. Len(Buckets(g)) \in Nat /\ DOMAIN Buckets(g) = 1..Len(Buckets(g)) BY <1>2
<1>5. QED BY <1>3, <1>4 DEF Weights

LEMMA MaxExists ==
  ASSUME NEW S \in SUBSET (0..UINT16_MAX), NEW x \in S
  PROVE  Max(S) \in S /\ \A y \in S : y <= Max(S)
<1> DEFINE R == {UINT16_MAX - y : y \in S}
<1>1. R \in SUBSET Nat /\ UINT16_MAX - x \in R BY Uint16
<1>2. PICK m \in R : \A k \in R : m <= k
  <2> HIDE DEF R
  <2>1. QED BY <1>1, LeastExists
<1>3. PICK z \in S : m = UINT16_MAX - z BY <1>2
<1>4. \A y \in S : z >= y
  <2> TAKE y \in S
  <2>1. UINT16_MAX - y \in R OBVIOUS
  <2>2. m <= UINT16_MAX - y BY <1>2, <2>1
  <2>3. y \in 0..UINT16_MAX /\ z \in 0..UINT16_MAX OBVIOUS
  <2>4. QED BY <1>3, <2>2, <2>3, Uint16
<1>5. \A y \in S : Max(S) >= y /\ Max(S) \in S
  <2>1. Max(S) \in S /\ \A y \in S : Max(S) >= y BY <1>4 DEF Max
  <2>2. QED BY <2>1
<1>6. QED BY <1>5

LEMMA MaxWeightIs ==
  ASSUME NEW g \in Selecting
  PROVE  /\ MaxWeight[g] \in 0..UINT16_MAX
         /\ \A b \in 1..Len(Buckets(g)) : Weights(g)[b] <= MaxWeight[g]
         /\ MaxWeight[g] # 0 => \E b \in 1..Len(Buckets(g)) : Weights(g)[b] = MaxWeight[g]
<1> DEFINE S == {0} \cup Range(Weights(g))
<1>1. MaxWeight[g] = Max(S) BY DEF MaxWeight
<1>2. Range(Weights(g)) = {Weights(g)[b] : b \in 1..Len(Buckets(g))} BY GroupShape DEF Range
<1>3. S \in SUBSET (0..UINT16_MAX) /\ 0 \in S BY <1>2, GroupShape, Uint16
<1>4. \A b \in 1..Len(Buckets(g)) : Weights(g)[b] \in S BY <1>2
<1>5. \A y \in S : y # 0 => \E b \in 1..Len(Buckets(g)) : Weights(g)[b] = y BY <1>2
<1> HIDE DEF S
<1>6. Max(S) \in S /\ \A y \in S : y <= Max(S) BY <1>3, MaxExists
<1>7. QED BY <1>1, <1>3, <1>4, <1>5, <1>6

LEMMA GcdWeightIs ==
  ASSUME NEW g \in Selecting
  PROVE  /\ MaxWeight[g] = 0 => GcdWeight[g] = 0
         /\ MaxWeight[g] # 0 => GcdWeight[g] \in 1..MaxWeight[g] /\ IsDivisor(GcdWeight[g], g)
<1>1. MaxWeight[g] = 0 => GcdWeight[g] = 0 BY DEF GcdWeight
<1>2. ASSUME MaxWeight[g] # 0 PROVE GcdWeight[g] \in 1..MaxWeight[g] /\ IsDivisor(GcdWeight[g], g)
  <2> DEFINE M == MaxWeight[g]
             S == {e \in 1..M : IsDivisor(e, g)}
  <2>1. M \in 1..UINT16_MAX BY <1>2, MaxWeightIs, Uint16
  <2>2. IsDivisor(1, g)
    <3>1. \A b \in DOMAIN Weights(g) : Weights(g)[b] % 1 = 0
      <4> TAKE b \in DOMAIN Weights(g)
      <4>1. Weights(g)[b] \in Int BY GroupShape
      <4>2. QED BY <4>1
    <3>2. QED BY <3>1 DEF IsDivisor
  <2>3. 1 \in S /\ S \in SUBSET (0..UINT16_MAX) BY <2>1, <2>2, Uint16
  <2> DEFINE z == Max(S)
  <2>4. z \in S /\ \A y \in S : y <= z
    <3> HIDE DEF S
    <3>1. QED BY <2>3, MaxExists
  <2>5. \E d \in 1..M : IsDivisor(d, g) /\ \A e \in 1..M : IsDivisor(e, g) => e <= d
    <3>1. z \in 1..M /\ IsDivisor(z, g) BY <2>4
    <3>2. \A e \in 1..M : IsDivisor(e, g) => e <= z BY <2>4
    <3>3. QED BY <3>1, <3>2
  <2>6. GcdWeight[g] = CHOOSE d \in 1..M : IsDivisor(d, g) /\ \A e \in 1..M : IsDivisor(e, g) => e <= d
    BY <1>2 DEF GcdWeight
  <2> HIDE DEF M
  <2>7. GcdWeight[g] \in 1..M /\ IsDivisor(GcdWeight[g], g) BY <2>5, <2>6
  <2>8. QED BY <2>7 DEF M
<1>3. QED BY <1>1, <1>2

\* The weights counted in divisors: K[b] for the bucket b, T for the greatest.
IsParts(g, K, T) ==
  /\ T \in Nat \ {0} /\ MaxWeight[g] = GcdWeight[g] * T /\ MaxWeight[g] # 0
  /\ K \in [1..Len(Buckets(g)) -> 0..T]
  /\ \A b \in 1..Len(Buckets(g)) : Weights(g)[b] = GcdWeight[g] * K[b]
  /\ \E b \in 1..Len(Buckets(g)) : K[b] = T

LEMMA PartsExist ==
  ASSUME NEW g \in Selecting, MaxWeight[g] # 0
  PROVE  \E K, T : IsParts(g, K, T)
<1> DEFINE n == Len(Buckets(g))
           W == Weights(g)
           d == GcdWeight[g]
           M == MaxWeight[g]
           K == [b \in 1..n |-> CHOOSE p \in Nat : W[b] = d * p]
<1>1. n \in Nat /\ W \in [1..n -> Nat] /\ M \in Nat BY GroupShape, MaxWeightIs, Uint16
<1>2. d \in Nat \ {0} BY <1>1, GcdWeightIs
<1>3. \A b \in 1..n : W[b] % d = 0
  <2>1. DOMAIN W = 1..n BY <1>1
  <2>2. \A b \in DOMAIN W : W[b] % d = 0 BY GcdWeightIs DEF IsDivisor
  <2>3. QED BY <2>1, <2>2
<1>4. \A b \in 1..n : W[b] <= M BY MaxWeightIs
<1>5. PICK x \in 1..n : W[x] = M BY MaxWeightIs
<1>6. M # 0 OBVIOUS
<1> HIDE DEF n, W, d, M
<1>7. \A b \in 1..n : K[b] \in Nat /\ W[b] = d * K[b]
  <2> TAKE b \in 1..n
  <2>1. W[b] \in Nat /\ W[b] % d = 0 BY <1>1, <1>3
  <2>2. \E p \in Nat : W[b] = d * p BY <1>2, <2>1, DividedBy
  <2>3. QED BY <2>2
<1> DEFINE T == K[x]
<1>8. T \in Nat /\ M = d * T BY <1>5, <1>7
<1>9. K \in [1..n -> Nat] BY <1>7
<1> HIDE DEF K
<1>10. \A b \in 1..n : K[b] <= T
  <2> TAKE b \in 1..n
  <2>1. d * K[b] <= d * T BY <1>4, <1>7, <1>8
  <2>2. QED BY <1>2, <1>7, <1>8, <2>1, TimesKeepsOrder
<1>11. T # 0
  <2>1. SUFFICES ASSUME T = 0 PROVE FALSE OBVIOUS
  <2>2. d * T = 0 BY <1>2, <2>1
  <2>3. QED BY <1>6, <1>8, <2>2
<1>12. K \in [1..n -> 0..T] BY <1>8, <1>9, <1>10
<1>13. \E b \in 1..n : K[b] = T BY <1>5
<1>14. QED BY <1>6, <1>7, <1>8, <1>11, <1>12, <1>13 DEF IsParts, n, W, d, M

\* In the place cb of the round of the level L, the bucket b was chosen in the
\* rounds of the levels above and, up to this place, in that of the level L.
Given(K, cb, L, b) ==
  LET level == IF b <= cb THEN L - 1 ELSE L
  IN  IF K[b] > level THEN K[b] - level ELSE 0

\* A round of a group begins, or is at the level L.
AtStart(g, s) ==
  /\ s.curr_bucket = Len(Buckets(g)) /\ s.curr_weight = 0
  /\ \A b \in 1..Len(Buckets(g)) : s.chosen[b] = 0

InRound(g, s, K, T) ==
  \E L \in 1..T :
    /\ s.curr_weight = GcdWeight[g] * L
    /\ \A b \in 1..Len(Buckets(g)) : s.chosen[b] = Given(K, s.curr_bucket, L, b)

WrrAgrees(g, s) ==
  /\ s \in [curr_bucket : Nat, curr_weight : Nat, chosen : [1..Len(Buckets(g)) -> Nat]]
  /\ Buckets(g) # <<>> => s.curr_bucket \in 1..Len(Buckets(g))
  /\ MaxWeight[g] = 0 => s.curr_weight = 0
  /\ MaxWeight[g] # 0 => \E K, T : IsParts(g, K, T) /\ (AtStart(g, s) \/ InRound(g, s, K, T))

\* The bucket and the level that the k-th turn from a place looks at.
Place(n, cb, k) == IF cb + k > n THEN cb + k - n ELSE cb + k
Level(n, cb, k, L, T) == IF cb + k > n THEN (IF L <= 1 THEN T ELSE L - 1) ELSE L

IsTurn(n, K, cb, k, L, T) ==
  /\ K[Place(n, cb, k)] >= Level(n, cb, k, L, T)
  /\ \A j \in 1..(k - 1) : K[Place(n, cb, j)] < Level(n, cb, j, L, T)

\* The turn from the place cb, level L, to c, level M, chooses the bucket c, which
\* has not had its share.
MovesTo(n, K, cb, L, c, M) ==
  /\ Given(K, cb, L, c) < K[c]
  /\ \A b \in 1..n : Given(K, c, M, b) = Given(K, cb, L, b) + (IF b = c THEN 1 ELSE 0)

\* The turn chooses the bucket c as the first one after all have had their shares.
StartsOver(n, K, T, cb, L, c) ==
  /\ L = 1 => \A b \in 1..n : Given(K, cb, L, b) = K[b]
  /\ \A b \in 1..n : Given(K, c, T, b) = (IF b = c THEN 1 ELSE 0)

\* Within a round: no bucket between the places is chosen.
LEMMA TurnInRound ==
  ASSUME NEW n \in Nat, NEW T \in Nat \ {0}, NEW K \in [1..n -> 0..T],
         NEW cb \in 1..n, NEW L \in 1..T, NEW k \in 1..n, IsTurn(n, K, cb, k, L, T), cb + k <= n
  PROVE  MovesTo(n, K, cb, L, cb + k, L)
<1>1. K[cb + k] \in 0..T /\ K[cb + k] >= L BY DEF IsTurn, Place, Level
<1>2. ASSUME NEW b \in 1..n, b > cb, b < cb + k PROVE K[b] < L
  <2>1. b - cb \in 1..(k - 1) /\ cb + (b - cb) = b /\ ~(b > n) BY <1>2
  <2>2. QED BY <2>1 DEF IsTurn, Place, Level
<1>3. Given(K, cb, L, cb + k) < K[cb + k] BY <1>1 DEF Given
<1>4. ASSUME NEW b \in 1..n
      PROVE  Given(K, cb + k, L, b) = Given(K, cb, L, b) + (IF b = cb + k THEN 1 ELSE 0)
  <2>1. K[b] \in Int /\ cb \in Int /\ k \in Int /\ L \in Int /\ b \in Int OBVIOUS
  <2>2. CASE b > cb /\ b < cb + k
    <3>1. K[b] < L BY <1>2, <2>2
    <3>2. QED BY <2>1, <2>2, <3>1 DEF Given
  <2>3. CASE b = cb + k BY <1>1, <2>1, <2>3 DEF Given
  <2>4. CASE b <= cb \/ b > cb + k BY <2>1, <2>4 DEF Given
  <2>5. QED BY <2>1, <2>2, <2>3, <2>4
<1>5. QED BY <1>3, <1>4 DEF MovesTo

\* The bucket that a turn after the last place of a round chooses.
LEMMA TurnsPassed ==
  ASSUME NEW n \in Nat, NEW T \in Nat \ {0}, NEW K \in [1..n -> 0..T],
         NEW cb \in 1..n, NEW L \in 0..T, NEW k \in 1..n, IsTurn(n, K, cb, k, L, T), cb + k > n
  PROVE  /\ \A b \in 1..n : b > cb => K[b] < L
         /\ \A b \in 1..n : b < cb + k - n => K[b] < (IF L <= 1 THEN T ELSE L - 1)
         /\ K[cb + k - n] >= (IF L <= 1 THEN T ELSE L - 1)
         /\ cb + k - n \in 1..cb
<1>1. ASSUME NEW b \in 1..n, b > cb PROVE K[b] < L
  <2>1. b - cb \in 1..(k - 1) /\ cb + (b - cb) = b /\ ~(b > n) BY <1>1
  <2>2. QED BY <2>1 DEF IsTurn, Place, Level
<1>2. ASSUME NEW b \in 1..n, b < cb + k - n PROVE K[b] < (IF L <= 1 THEN T ELSE L - 1)
  <2> DEFINE j == n + b - cb
  <2>1. j \in 1..(k - 1) /\ cb + j > n /\ cb + j - n = b BY <1>2
  <2> HIDE DEF j
  <2>2. Place(n, cb, j) = b /\ Level(n, cb, j, L, T) = (IF L <= 1 THEN T ELSE L - 1) BY <2>1 DEF Place, Level
  <2>3. QED BY <2>1, <2>2 DEF IsTurn
<1>3. K[cb + k - n] >= (IF L <= 1 THEN T ELSE L - 1) BY DEF IsTurn, Place, Level
<1>4. QED BY <1>1, <1>2, <1>3

LEMMA TurnToNextRound ==
  ASSUME NEW n \in Nat, NEW T \in Nat \ {0}, NEW K \in [1..n -> 0..T],
         NEW cb \in 1..n, NEW L \in 2..T, NEW k \in 1..n, IsTurn(n, K, cb, k, L, T), cb + k > n,
         NEW c, c = cb + k - n
  PROVE  MovesTo(n, K, cb, L, c, L - 1)
<1>1. L \in 0..T /\ ~(L <= 1) OBVIOUS
<1>2. /\ \A b \in 1..n : b > cb => K[b] < L
      /\ \A b \in 1..n : b < c => K[b] < L - 1
      /\ K[c] >= L - 1 /\ c \in 1..cb
  BY <1>1, TurnsPassed
<1>3. K[c] \in 0..T BY <1>2
<1>4. Given(K, cb, L, c) < K[c] BY <1>2, <1>3 DEF Given
<1>5. ASSUME NEW b \in 1..n
      PROVE  Given(K, c, L - 1, b) = Given(K, cb, L, b) + (IF b = c THEN 1 ELSE 0)
  <2>1. K[b] \in Int /\ cb \in Int /\ c \in Int /\ L \in Int /\ b \in Int BY <1>2
  <2>2. CASE b < c
    <3>1. K[b] < L - 1 BY <1>2, <2>2
    <3>2. QED BY <1>2, <2>1, <2>2, <3>1 DEF Given
  <2>3. CASE b = c BY <1>2, <2>1, <2>3 DEF Given
  <2>4. CASE b > c /\ b <= cb BY <2>1, <2>4 DEF Given
  <2>5. CASE b > cb
    <3>1. K[b] < L BY <1>2, <2>5
    <3>2. QED BY <1>2, <2>1, <2>5, <3>1 DEF Given
  <2>6. QED BY <2>1, <2>2, <2>3, <2>4, <2>5
<1>6. QED BY <1>4, <1>5 DEF MovesTo

\* The last round is over: all have their shares, and the first round follows.
LEMMA TurnToFirstRound ==
  ASSUME NEW n \in Nat, NEW T \in Nat \ {0}, NEW K \in [1..n -> 0..T],
         NEW cb \in 1..n, NEW L \in 0..1, NEW k \in 1..n, IsTurn(n, K, cb, k, L, T), cb + k > n,
         NEW c, c = cb + k - n
  PROVE  StartsOver(n, K, T, cb, L, c)
<1>1. L \in 0..T /\ L <= 1 OBVIOUS
<1>2. /\ \A b \in 1..n : b > cb => K[b] < L
      /\ \A b \in 1..n : b < c => K[b] < T
      /\ K[c] >= T /\ c \in 1..cb
  BY <1>1, TurnsPassed
<1>3. ASSUME L = 1, NEW b \in 1..n PROVE Given(K, cb, L, b) = K[b]
  <2>1. K[b] \in 0..T /\ (b > cb => K[b] < 1) BY <1>2, <1>3
  <2>2. QED BY <1>3, <2>1 DEF Given
<1>4. ASSUME NEW b \in 1..n PROVE Given(K, c, T, b) = (IF b = c THEN 1 ELSE 0)
  <2>1. K[b] \in 0..T /\ (b < c => K[b] < T) /\ (b = c => K[b] >= T) /\ c \in Int BY <1>2
  <2>2. QED BY <2>1 DEF Given
<1>5. QED BY <1>3, <1>4 DEF StartsOver

\* Some bucket is chosen, for one has the greatest weight.
LEMMA TurnExists ==
  ASSUME NEW n \in Nat, NEW T \in Nat \ {0}, NEW K \in [1..n -> 0..T], \E b \in 1..n : K[b] = T,
         NEW cb \in 1..n, NEW L \in 0..T, L = 0 => cb = n
  PROVE  \E k \in 1..n : K[Place(n, cb, k)] >= Level(n, cb, k, L, T)
<1>1. PICK b \in 1..n : K[b] = T OBVIOUS
<1>2. CASE b > cb
  <2>1. b - cb \in 1..n /\ cb + (b - cb) = b /\ ~(b > n) BY <1>2
  <2>2. K[Place(n, cb, b - cb)] >= Level(n, cb, b - cb, L, T) BY <1>1, <2>1 DEF Place, Level
  <2>3. QED BY <2>1, <2>2
<1>3. CASE b <= cb
  <2>1. n + b - cb \in 1..n /\ cb + (n + b - cb) = n + b /\ n + b > n /\ n + b - n = b BY <1>3
  <2>2. K[Place(n, cb, n + b - cb)] >= Level(n, cb, n + b - cb, L, T) BY <1>1, <2>1 DEF Place, Level
  <2>3. QED BY <2>1, <2>2
<1>4. QED BY <1>2, <1>3

\* The state of the selection of the group g: so many parts of the divisor.
AtLevel(g, K, T, L) ==
  /\ IsParts(g, K, T) /\ L \in 0..T
  /\ wrr[g].curr_bucket \in 1..Len(Buckets(g)) /\ wrr[g].curr_weight = GcdWeight[g] * L

LEMMA LookedIs ==
  ASSUME NEW g \in Selecting, NEW K, NEW T, NEW L, AtLevel(g, K, T, L), NEW k \in 1..Len(Buckets(g))
  PROVE  /\ Looked(g, k).curr_bucket = Place(Len(Buckets(g)), wrr[g].curr_bucket, k)
         /\ Looked(g, k).curr_weight
              = GcdWeight[g] * Level(Len(Buckets(g)), wrr[g].curr_bucket, k, L, T)
         /\ Place(Len(Buckets(g)), wrr[g].curr_bucket, k) \in 1..Len(Buckets(g))
         /\ Level(Len(Buckets(g)), wrr[g].curr_bucket, k, L, T) \in 0..T
         /\ Weights(g)[Looked(g, k).curr_bucket] >= Looked(g, k).curr_weight <=>
              K[Place(Len(Buckets(g)), wrr[g].curr_bucket, k)]
                >= Level(Len(Buckets(g)), wrr[g].curr_bucket, k, L, T)
<1> DEFINE n == Len(Buckets(g))
           d == GcdWeight[g]
           M == MaxWeight[g]
           cb == wrr[g].curr_bucket
           cw == wrr[g].curr_weight
           p == Place(n, cb, k)
           l == Level(n, cb, k, L, T)
<1>1. /\ T \in Nat \ {0} /\ M = d * T /\ K \in [1..n -> 0..T]
      /\ \A b \in 1..n : Weights(g)[b] = d * K[b]
      /\ L \in 0..T /\ cb \in 1..n /\ cw = d * L
  BY DEF AtLevel, IsParts
<1>2. n \in Nat BY GroupShape
<1>3. d \in Nat \ {0}
  <2>1. M \in Nat BY MaxWeightIs, Uint16
  <2>2. M # 0 BY DEF AtLevel, IsParts
  <2>3. QED BY <2>1, <2>2, GcdWeightIs
<1>4. NextWeight(g, cw) = d * (IF L <= 1 THEN T ELSE L - 1)
  <2>1. NextWeight(g, cw) = IF cw <= d THEN M ELSE cw - d BY DEF NextWeight
  <2> HIDE DEF d, M, cw
  <2>2. d * 1 = d /\ (d * L <= d * 1 <=> L <= 1)
    <3>1. L \in Nat /\ 1 \in Nat BY <1>1
    <3>2. d * L <= d * 1 <=> L <= 1 BY <1>3, <3>1, TimesKeepsOrder
    <3>3. d * 1 = d BY <1>3
    <3>4. QED BY <3>2, <3>3
  <2>3. d * (L - 1) = d * L - d BY <1>1, <1>3
  <2>4. CASE L <= 1 BY <1>1, <2>1, <2>2, <2>4
  <2>5. CASE ~(L <= 1) BY <1>1, <2>1, <2>2, <2>3, <2>5
  <2>6. QED BY <2>4, <2>5
<1>5. /\ Looked(g, k).curr_bucket = (((cb + k) - 1) % n) + 1
      /\ Looked(g, k).curr_weight = IF cb + k > n THEN NextWeight(g, cw) ELSE cw
  BY DEF Looked
<1> HIDE DEF n, d, M, cb, cw
<1>6. (((cb + k) - 1) % n) + 1 = p /\ p \in 1..n
  <2> DEFINE x == (cb + k) - 1
  <2>1. k \in 1..n BY DEF n
  <2>2. x \in 0..(2 * n - 1) /\ n \in Nat \ {0} BY <1>1, <1>2, <2>1
  <2> HIDE DEF x
  <2>3. x % n = IF x < n THEN x ELSE x - n BY <2>2, RemainderIs
  <2> DEFINE m == x % n
  <2>4. m = IF x < n THEN x ELSE x - n BY <2>3
  <2> HIDE DEF m
  <2>5. m + 1 = IF cb + k > n THEN cb + k - n ELSE cb + k BY <1>1, <1>2, <2>1, <2>4 DEF x
  <2>6. (x % n) + 1 = IF cb + k > n THEN cb + k - n ELSE cb + k BY <2>5 DEF m
  <2>7. p = IF cb + k > n THEN cb + k - n ELSE cb + k BY DEF Place
  <2>8. p \in 1..n BY <1>1, <1>2, <2>1, <2>7
  <2>9. QED BY <2>6, <2>7, <2>8 DEF x
<1>7. l \in 0..T BY <1>1 DEF Level
<1>8. (IF cb + k > n THEN NextWeight(g, cw) ELSE cw) = d * l
  <2>1. CASE cb + k > n BY <1>4, <2>1 DEF Level
  <2>2. CASE ~(cb + k > n) BY <1>1, <2>2 DEF Level
  <2>3. QED BY <2>1, <2>2
<1> HIDE DEF p, l
<1>9. Looked(g, k).curr_bucket = p /\ Looked(g, k).curr_weight = d * l BY <1>5, <1>6, <1>8
<1>10. d * K[p] >= d * l <=> K[p] >= l
  <2>1. K[p] \in Nat /\ l \in Nat BY <1>1, <1>6, <1>7
  <2>2. d * l <= d * K[p] <=> l <= K[p] BY <1>3, <2>1, TimesKeepsOrder
  <2>3. d * l \in Nat /\ d * K[p] \in Nat BY <1>3, <2>1
  <2>4. QED BY <2>1, <2>2, <2>3
<1>11. Weights(g)[p] = d * K[p] BY <1>1, <1>6
<1>12. QED BY <1>6, <1>7, <1>9, <1>10, <1>11 DEF p, l, n, d, cb

\* The least of a set of turns.
LEMMA FirstHit ==
  ASSUME NEW n \in Nat, NEW H \in SUBSET (1..n), H # {},
         NEW t, t = CHOOSE k \in H : \A j \in H : k <= j
  PROVE  t \in H /\ \A j \in 1..(t - 1) : j \notin H
<1>1. PICK x \in H : TRUE OBVIOUS
<1>2. H \in SUBSET Nat OBVIOUS
<1>3. \E k \in H : \A j \in H : k <= j BY <1>1, <1>2, LeastExists
<1>4. t \in H /\ \A j \in H : t <= j BY <1>3
<1>5. t \in Nat BY <1>2, <1>4
<1>6. \A j \in 1..(t - 1) : j \notin H BY <1>4, <1>5
<1>7. QED BY <1>4, <1>6

LEMMA TurnsIs ==
  ASSUME NEW g \in Selecting, NEW K, NEW T, NEW L, AtLevel(g, K, T, L),
         L = 0 => wrr[g].curr_bucket = Len(Buckets(g))
  PROVE  /\ Turns(g) \in 1..Len(Buckets(g))
         /\ IsTurn(Len(Buckets(g)), K, wrr[g].curr_bucket, Turns(g), L, T)
<1> DEFINE n == Len(Buckets(g))
           cb == wrr[g].curr_bucket
           H == {k \in 1..n : Weights(g)[Looked(g, k).curr_bucket] >= Looked(g, k).curr_weight}
<1>1. /\ n \in Nat /\ T \in Nat \ {0} /\ K \in [1..n -> 0..T] /\ (\E b \in 1..n : K[b] = T)
      /\ L \in 0..T /\ cb \in 1..n
  BY GroupShape DEF AtLevel, IsParts
<1>2. \A k \in 1..n : k \in H <=> K[Place(n, cb, k)] >= Level(n, cb, k, L, T)
  BY LookedIs
<1>3. \E k \in 1..n : K[Place(n, cb, k)] >= Level(n, cb, k, L, T)
  <2> HIDE DEF n, cb, H
  <2>1. L = 0 => cb = n BY DEF n, cb
  <2>2. QED BY <1>1, <2>1, TurnExists
<1>4. H \in SUBSET (1..n) OBVIOUS
<1>5. Turns(g) = IF H = {} THEN 0 ELSE CHOOSE k \in H : \A j \in H : k <= j BY DEF Turns
<1> HIDE DEF n, H, cb
<1>6. H # {} BY <1>2, <1>3
<1>7. Turns(g) \in H /\ \A j \in 1..(Turns(g) - 1) : j \notin H
  <2>1. Turns(g) = CHOOSE k \in H : \A j \in H : k <= j BY <1>5, <1>6
  <2>2. QED BY <1>1, <1>4, <1>6, <2>1, FirstHit
<1>8. Turns(g) \in 1..n BY <1>4, <1>7
<1>9. \A j \in 1..(Turns(g) - 1) : j \in 1..n /\ Place(n, cb, j) \in 1..n /\ Level(n, cb, j, L, T) \in 0..T
  <2> TAKE j \in 1..(Turns(g) - 1)
  <2>1. j \in 1..n BY <1>1, <1>8
  <2>2. QED BY <2>1, LookedIs DEF n, cb
<1>10. \A j \in 1..(Turns(g) - 1) : K[Place(n, cb, j)] < Level(n, cb, j, L, T)
  <2> TAKE j \in 1..(Turns(g) - 1)
  <2>1. ~(K[Place(n, cb, j)] >= Level(n, cb, j, L, T)) BY <1>2, <1>7, <1>9
  <2>2. K[Place(n, cb, j)] \in 0..T /\ Level(n, cb, j, L, T) \in 0..T BY <1>1, <1>9
  <2>3. QED BY <1>1, <2>1, <2>2
<1>11. K[Place(n, cb, Turns(g))] >= Level(n, cb, Turns(g), L, T) BY <1>2, <1>7, <1>8
<1>12. QED BY <1>8, <1>10, <1>11 DEF IsTurn, n, cb

\* Whether all buckets of the group g have had their shares.
IsOver(g) == \A c \in DOMAIN wrr[g].chosen : wrr[g].chosen[c] * GcdWeight[g] = Weights(g)[c]

LEMMA CountedIs ==
  ASSUME NEW g \in Selecting, wrr[g].chosen \in [1..Len(Buckets(g)) -> Nat], NEW b
  PROVE  /\ Counted(g, b) \in [1..Len(Buckets(g)) -> Nat]
         /\ \A c \in 1..Len(Buckets(g)) :
              Counted(g, b)[c] = (IF IsOver(g) THEN 0 ELSE wrr[g].chosen[c]) + (IF c = b THEN 1 ELSE 0)
<1> DEFINE n == Len(Buckets(g))
           chosen == wrr[g].chosen
           over == IsOver(g)
           new == [c \in DOMAIN chosen |-> (IF over THEN 0 ELSE chosen[c]) + (IF c = b THEN 1 ELSE 0)]
<1>1. Counted(g, b) = new BY DEF Counted, IsOver
<1>2. chosen \in [1..n -> Nat] OBVIOUS
<1> HIDE DEF chosen, n, over
<1>3. new \in [1..n -> Nat] BY <1>2
<1>4. \A c \in 1..n : new[c] = (IF over THEN 0 ELSE chosen[c]) + (IF c = b THEN 1 ELSE 0) BY <1>2
<1> HIDE DEF new
<1>5. QED BY <1>1, <1>3, <1>4 DEF n, chosen, over

\* In a round all have their shares when each was chosen as often as it has parts.
LEMMA OverIs ==
  ASSUME NEW g \in Selecting, NEW K, NEW T, NEW L, AtLevel(g, K, T, L),
         wrr[g].chosen \in [1..Len(Buckets(g)) -> Nat]
  PROVE  IsOver(g) <=> \A c \in 1..Len(Buckets(g)) : wrr[g].chosen[c] = K[c]
<1> DEFINE n == Len(Buckets(g))
           d == GcdWeight[g]
           chosen == wrr[g].chosen
<1>1. /\ T \in Nat /\ K \in [1..n -> 0..T] /\ chosen \in [1..n -> Nat]
      /\ \A c \in 1..n : Weights(g)[c] = d * K[c]
  BY DEF AtLevel, IsParts
<1>2. d \in Nat \ {0}
  <2>1. MaxWeight[g] \in Nat /\ MaxWeight[g] # 0 BY MaxWeightIs, Uint16 DEF AtLevel, IsParts
  <2>2. QED BY <2>1, GcdWeightIs
<1>3. IsOver(g) <=> \A c \in 1..n : chosen[c] * d = Weights(g)[c] BY <1>1 DEF IsOver
<1> HIDE DEF n, d, chosen
<1>4. ASSUME NEW c \in 1..n PROVE chosen[c] * d = Weights(g)[c] <=> chosen[c] = K[c]
  <2>1. chosen[c] \in Nat /\ K[c] \in Nat BY <1>1
  <2>2. d * chosen[c] = d * K[c] <=> chosen[c] = K[c] BY <1>2, <2>1, TimesKeepsOrder
  <2>3. chosen[c] * d = d * chosen[c] BY <1>2, <2>1
  <2>4. QED BY <1>1, <2>2, <2>3
<1>5. QED BY <1>3, <1>4 DEF n, d, chosen

\* The state of a group after a bucket was selected.
Selected(g) ==
  [curr_bucket |-> Looked(g, Turns(g)).curr_bucket, curr_weight |-> Looked(g, Turns(g)).curr_weight,
   chosen |-> Counted(g, Looked(g, Turns(g)).curr_bucket)]

LEMMA SelectedInRound ==
  ASSUME NEW g \in Selecting, NEW K, NEW T, NEW L, AtLevel(g, K, T, L),
         wrr[g].chosen \in [1..Len(Buckets(g)) -> Nat],
         \/ AtStart(g, wrr[g]) /\ L = 0
         \/ L # 0 /\ \A b \in 1..Len(Buckets(g)) : wrr[g].chosen[b] = Given(K, wrr[g].curr_bucket, L, b)
  PROVE  /\ Looked(g, Turns(g)).curr_bucket \in 1..Len(Buckets(g))
         /\ \E M \in 1..T :
              /\ Looked(g, Turns(g)).curr_weight = GcdWeight[g] * M
              /\ \A b \in 1..Len(Buckets(g)) :
                   Counted(g, Looked(g, Turns(g)).curr_bucket)[b] = Given(K, Looked(g, Turns(g)).curr_bucket, M, b)
<1> DEFINE n == Len(Buckets(g))
           cb == wrr[g].curr_bucket
           k == Turns(g)
           chosen == wrr[g].chosen
           c == Place(n, cb, k)
           M == Level(n, cb, k, L, T)
<1>1. /\ n \in Nat /\ T \in Nat \ {0} /\ K \in [1..n -> 0..T] /\ L \in 0..T /\ cb \in 1..n
  BY GroupShape DEF AtLevel, IsParts
<1>2. k \in 1..n /\ IsTurn(n, K, cb, k, L, T)
  <2>1. L = 0 => cb = n BY DEF AtStart
  <2>2. QED BY <2>1, TurnsIs
<1>3. /\ Looked(g, k).curr_bucket = c /\ Looked(g, k).curr_weight = GcdWeight[g] * M /\ c \in 1..n
  BY <1>2, LookedIs
<1>4. \A b \in 1..n : Counted(g, c)[b] = (IF IsOver(g) THEN 0 ELSE chosen[b]) + (IF b = c THEN 1 ELSE 0)
  BY CountedIs
<1>5. chosen \in [1..n -> Nat] OBVIOUS
<1>6. IsOver(g) <=> \A b \in 1..n : chosen[b] = K[b] BY OverIs
<1>7. L = 0 => cb = n /\ \A b \in 1..n : chosen[b] = 0 BY DEF AtStart
<1>8. L # 0 => \A b \in 1..n : chosen[b] = Given(K, cb, L, b) OBVIOUS
<1> DEFINE Kept == M \in 1..T /\ \A b \in 1..n : Counted(g, c)[b] = Given(K, c, M, b)
<1> HIDE DEF n, cb, k, chosen, c, M
<1>9. SUFFICES Kept
  BY <1>3 DEF n, k
<1>10. CASE cb + k <= n
  <2>1. c = cb + k /\ M = L BY <1>1, <1>2, <1>10 DEF c, M, Place, Level
  <2>2. L \in 1..T BY <1>1, <1>2, <1>7, <1>10
  <2>3. /\ Given(K, cb, L, c) < K[c]
        /\ \A b \in 1..n : Given(K, c, L, b) = Given(K, cb, L, b) + (IF b = c THEN 1 ELSE 0)
    <3>1. MovesTo(n, K, cb, L, c, L) BY <1>1, <1>2, <1>10, <2>1, <2>2, TurnInRound
    <3>2. QED BY <3>1 DEF MovesTo
  <2>4. chosen[c] # K[c]
    <3>1. chosen[c] = Given(K, cb, L, c) /\ chosen[c] \in Nat /\ K[c] \in Nat BY <1>1, <1>3, <1>5, <1>8, <2>2
    <3>2. QED BY <2>3, <3>1
  <2>5. ~IsOver(g) BY <1>3, <1>6, <2>4
  <2>6. ASSUME NEW b \in 1..n PROVE Counted(g, c)[b] = Given(K, c, M, b)
    <3>1. Counted(g, c)[b] = chosen[b] + (IF b = c THEN 1 ELSE 0) BY <1>4, <2>5
    <3>2. chosen[b] = Given(K, cb, L, b) BY <1>8, <2>2
    <3>3. QED BY <2>1, <2>3, <3>1, <3>2
  <2>7. QED BY <2>1, <2>2, <2>6
<1>11. CASE cb + k > n /\ L >= 2
  <2>1. c = cb + k - n /\ M = L - 1 BY <1>1, <1>2, <1>11 DEF c, M, Place, Level
  <2>2. L \in 2..T BY <1>1, <1>11
  <2>3. /\ Given(K, cb, L, c) < K[c]
        /\ \A b \in 1..n : Given(K, c, L - 1, b) = Given(K, cb, L, b) + (IF b = c THEN 1 ELSE 0)
    <3>1. MovesTo(n, K, cb, L, c, L - 1) BY <1>1, <1>2, <1>11, <2>1, <2>2, TurnToNextRound
    <3>2. QED BY <3>1 DEF MovesTo
  <2>4. chosen[c] # K[c]
    <3>1. chosen[c] = Given(K, cb, L, c) /\ chosen[c] \in Nat /\ K[c] \in Nat BY <1>1, <1>3, <1>5, <1>8, <2>2
    <3>2. QED BY <2>3, <3>1
  <2>5. ~IsOver(g) BY <1>3, <1>6, <2>4
  <2>6. ASSUME NEW b \in 1..n PROVE Counted(g, c)[b] = Given(K, c, M, b)
    <3>1. Counted(g, c)[b] = chosen[b] + (IF b = c THEN 1 ELSE 0) BY <1>4, <2>5
    <3>2. chosen[b] = Given(K, cb, L, b) BY <1>8, <2>2
    <3>3. QED BY <2>1, <2>3, <3>1, <3>2
  <2>7. M \in 1..T BY <2>1, <2>2, <1>1
  <2>8. QED BY <2>6, <2>7
<1>12. CASE cb + k > n /\ L <= 1
  <2>1. c = cb + k - n /\ M = T BY <1>1, <1>2, <1>12 DEF c, M, Place, Level
  <2>2. L \in 0..1 BY <1>1, <1>12
  <2>3. /\ L = 1 => \A b \in 1..n : Given(K, cb, L, b) = K[b]
        /\ \A b \in 1..n : Given(K, c, T, b) = (IF b = c THEN 1 ELSE 0)
    <3>1. StartsOver(n, K, T, cb, L, c) BY <1>1, <1>2, <1>12, <2>1, <2>2, TurnToFirstRound
    <3>2. QED BY <3>1 DEF StartsOver
  <2>4. \A b \in 1..n : (IF IsOver(g) THEN 0 ELSE chosen[b]) = 0
    <3>1. CASE L = 0 BY <1>7, <3>1
    <3>2. CASE L = 1
      <4>1. \A b \in 1..n : chosen[b] = K[b] BY <1>8, <2>3, <3>2
      <4>2. QED BY <1>6, <4>1
    <3>3. QED BY <2>2, <3>1, <3>2
  <2>5. ASSUME NEW b \in 1..n PROVE Counted(g, c)[b] = Given(K, c, M, b)
    <3>1. Counted(g, c)[b] = 0 + (IF b = c THEN 1 ELSE 0) BY <1>4, <2>4
    <3>2. QED BY <2>1, <2>3, <3>1
  <2>6. QED BY <1>1, <2>1, <2>5
<1>13. QED BY <1>1, <1>2, <1>10, <1>11, <1>12

\* A weight of zero is taken at once.
LEMMA SelectedOfNoWeight ==
  ASSUME NEW g \in Selecting, WrrAgrees(g, wrr[g]), MaxWeight[g] = 0, Buckets(g) # <<>>
  PROVE  /\ Turns(g) \in 1..Len(Buckets(g))
         /\ Looked(g, Turns(g)).curr_bucket \in 1..Len(Buckets(g))
         /\ Looked(g, Turns(g)).curr_weight = 0
<1> DEFINE n == Len(Buckets(g))
           cb == wrr[g].curr_bucket
           H == {k \in 1..n : Weights(g)[Looked(g, k).curr_bucket] >= Looked(g, k).curr_weight}
<1>1. n \in Nat /\ wrr[g].curr_weight = 0 /\ GcdWeight[g] = 0 /\ cb \in 1..n
  BY GroupShape, GcdWeightIs DEF WrrAgrees
<1>2. \A b \in 1..n : Weights(g)[b] = 0
  <2> TAKE b \in 1..n
  <2>1. Weights(g)[b] \in 0..UINT16_MAX /\ Weights(g)[b] <= 0 BY GroupShape, MaxWeightIs
  <2>2. QED BY <2>1, Uint16
<1>3. ASSUME NEW k \in 1..n
      PROVE  Looked(g, k).curr_bucket \in 1..n /\ Looked(g, k).curr_weight = 0
  <2>1. NextWeight(g, 0) = 0 BY <1>1 DEF NextWeight
  <2>2. /\ Looked(g, k).curr_bucket = (((cb + k) - 1) % n) + 1
        /\ Looked(g, k).curr_weight = IF cb + k > n THEN NextWeight(g, wrr[g].curr_weight) ELSE wrr[g].curr_weight
    BY DEF Looked
  <2> DEFINE x == (cb + k) - 1
             m == x % n
  <2> HIDE DEF n, cb
  <2>3. x \in Nat /\ n \in Nat \ {0} BY <1>1
  <2> HIDE DEF x
  <2>4. m \in 0..(n - 1) BY <2>3, Remainder
  <2>5. Looked(g, k).curr_bucket = m + 1 BY <2>2 DEF x
  <2> HIDE DEF m
  <2>6. m + 1 \in 1..n BY <1>1, <2>4
  <2>7. Looked(g, k).curr_weight = 0 BY <1>1, <2>1, <2>2
  <2>8. QED BY <2>5, <2>6, <2>7
<1>4. H \in SUBSET (1..n) /\ 1 \in 1..n BY <1>1
<1>5. 1 \in H BY <1>2, <1>3, <1>4
<1>6. Turns(g) = IF H = {} THEN 0 ELSE CHOOSE k \in H : \A j \in H : k <= j BY DEF Turns
<1> HIDE DEF H, n
<1>7. Turns(g) \in H
  <2>1. H # {} /\ Turns(g) = CHOOSE k \in H : \A j \in H : k <= j BY <1>5, <1>6
  <2>2. QED BY <1>1, <1>4, <2>1, FirstHit
<1>8. Turns(g) \in 1..n BY <1>4, <1>7
<1>9. QED BY <1>3, <1>8 DEF n

\* The level of a group that agrees.
LEMMA LevelIs ==
  ASSUME NEW g \in Selecting, WrrAgrees(g, wrr[g]), MaxWeight[g] # 0
  PROVE  \E K, T, L :
           /\ AtLevel(g, K, T, L)
           /\ \/ AtStart(g, wrr[g]) /\ L = 0
              \/ L # 0 /\ \A b \in 1..Len(Buckets(g)) : wrr[g].chosen[b] = Given(K, wrr[g].curr_bucket, L, b)
<1>1. PICK K, T : IsParts(g, K, T) /\ (AtStart(g, wrr[g]) \/ InRound(g, wrr[g], K, T)) BY DEF WrrAgrees
<1>2. wrr[g].curr_bucket \in 1..Len(Buckets(g))
  <2>1. PICK b \in 1..Len(Buckets(g)) : K[b] = T BY <1>1 DEF IsParts
  <2>2. Buckets(g) # <<>>
    <3>1. SUFFICES ASSUME Buckets(g) = <<>> PROVE FALSE OBVIOUS
    <3>2. Len(Buckets(g)) = 0 BY <3>1
    <3>3. QED BY <2>1, <3>2
  <2>3. QED BY <2>2 DEF WrrAgrees
<1>3. GcdWeight[g] \in Nat /\ T \in Nat
  <2>1. MaxWeight[g] \in Nat BY MaxWeightIs, Uint16
  <2>2. QED BY <1>1, <2>1, GcdWeightIs DEF IsParts
<1>4. CASE AtStart(g, wrr[g])
  <2>1. wrr[g].curr_weight = GcdWeight[g] * 0 BY <1>3, <1>4 DEF AtStart
  <2>2. 0 \in 0..T BY <1>3
  <2>3. AtLevel(g, K, T, 0) BY <1>1, <1>2, <2>1, <2>2 DEF AtLevel
  <2>4. QED BY <1>4, <2>3
<1>5. CASE InRound(g, wrr[g], K, T)
  <2>1. PICK L \in 1..T :
          /\ wrr[g].curr_weight = GcdWeight[g] * L
          /\ \A b \in 1..Len(Buckets(g)) : wrr[g].chosen[b] = Given(K, wrr[g].curr_bucket, L, b)
    BY <1>5 DEF InRound
  <2>2. L \in 0..T /\ L # 0 BY <1>3
  <2>3. AtLevel(g, K, T, L) BY <1>1, <1>2, <2>1, <2>2 DEF AtLevel
  <2>4. QED BY <2>1, <2>2, <2>3
<1>6. QED BY <1>1, <1>4, <1>5

LEMMA SelectedAgrees ==
  ASSUME NEW g \in Selecting, WrrAgrees(g, wrr[g]), Buckets(g) # <<>>
  PROVE  WrrAgrees(g, Selected(g))
<1> DEFINE n == Len(Buckets(g))
           c == Looked(g, Turns(g)).curr_bucket
           w == Looked(g, Turns(g)).curr_weight
           new == Counted(g, c)
           s == Selected(g)
<1>1. s.curr_bucket = c /\ s.curr_weight = w /\ s.chosen = new BY DEF Selected
<1>2. wrr[g].chosen \in [1..n -> Nat] BY DEF WrrAgrees
<1>3. new \in [1..n -> Nat] BY <1>2, CountedIs
<1>4. ASSUME c \in 1..n, w \in Nat
      PROVE  s \in [curr_bucket : Nat, curr_weight : Nat, chosen : [1..n -> Nat]]
  <2>1. n \in Nat BY GroupShape
  <2>2. c \in Nat BY <1>4, <2>1
  <2>3. s = [curr_bucket |-> c, curr_weight |-> w, chosen |-> new] BY DEF Selected
  <2> HIDE DEF c, w, new, s, n
  <2>4. QED BY <1>3, <1>4, <2>2, <2>3
<1>5. CASE MaxWeight[g] = 0
  <2>1. c \in 1..n /\ w = 0 BY <1>5, SelectedOfNoWeight
  <2> HIDE DEF c, w, s, n, new
  <2>2. s \in [curr_bucket : Nat, curr_weight : Nat, chosen : [1..n -> Nat]] BY <1>4, <2>1
  <2>3. QED BY <1>1, <1>5, <2>1, <2>2 DEF WrrAgrees, n, s
<1>6. CASE MaxWeight[g] # 0
  <2>1. PICK K, T, L :
          /\ AtLevel(g, K, T, L)
          /\ \/ AtStart(g, wrr[g]) /\ L = 0
             \/ L # 0 /\ \A b \in 1..n : wrr[g].chosen[b] = Given(K, wrr[g].curr_bucket, L, b)
    BY <1>6, LevelIs
  <2>2. /\ c \in 1..n
        /\ \E M \in 1..T : w = GcdWeight[g] * M /\ \A b \in 1..n : new[b] = Given(K, c, M, b)
    BY <1>2, <2>1, SelectedInRound
  <2>3. PICK M \in 1..T : w = GcdWeight[g] * M /\ \A b \in 1..n : new[b] = Given(K, c, M, b) BY <2>2
  <2>4. IsParts(g, K, T) BY <2>1 DEF AtLevel
  <2>5. GcdWeight[g] \in Nat /\ T \in Nat
    <3>1. MaxWeight[g] \in Nat BY MaxWeightIs, Uint16
    <3>2. QED BY <1>6, <2>4, <3>1, GcdWeightIs DEF IsParts
  <2> HIDE DEF c, w, s, n, new
  <2>6. w \in Nat BY <2>3, <2>5
  <2>7. s \in [curr_bucket : Nat, curr_weight : Nat, chosen : [1..n -> Nat]] BY <1>4, <2>2, <2>6
  <2>8. InRound(g, s, K, T) BY <1>1, <2>3 DEF InRound, n
  <2>9. s.curr_bucket \in 1..n BY <1>1, <2>2
  <2>10. QED BY <1>6, <2>4, <2>7, <2>8, <2>9 DEF WrrAgrees, n, s
<1>7. QED BY <1>5, <1>6

\* A group with buckets gives each packet to one of them.
LEMMA SelectsOne ==
  ASSUME NEW g \in Selecting, WrrAgrees(g, wrr[g]), Buckets(g) # <<>>
  PROVE  Turns(g) \in 1..Len(Buckets(g))
<1>1. CASE MaxWeight[g] = 0 BY <1>1, SelectedOfNoWeight
<1>2. CASE MaxWeight[g] # 0
  <2>1. PICK K, T, L : AtLevel(g, K, T, L) /\ (AtStart(g, wrr[g]) \/ L # 0) BY <1>2, LevelIs
  <2>2. L = 0 => wrr[g].curr_bucket = Len(Buckets(g)) BY <2>1 DEF AtStart
  <2>3. QED BY <2>1, <2>2, TurnsIs
<1>3. QED BY <1>1, <1>2

\* The groups of type SELECT and what they keep.
WrrsAgree ==
  /\ DOMAIN wrr = Selecting /\ wrr = [g \in Selecting |-> wrr[g]]
  /\ \A g \in Selecting : WrrAgrees(g, wrr[g])

LEMMA NewWrrAgrees ==
  ASSUME NEW g \in Selecting
  PROVE  WrrAgrees(g, NewWrr(g))
<1> DEFINE n == Len(Buckets(g))
           zeros == [b \in DOMAIN Buckets(g) |-> 0]
           s == NewWrr(g)
<1>1. n \in Nat /\ DOMAIN Buckets(g) = 1..n BY GroupShape
<1>2. zeros \in [1..n -> Nat] /\ \A b \in 1..n : zeros[b] = 0 BY <1>1
<1>3. s = [curr_bucket |-> n, curr_weight |-> 0, chosen |-> zeros] BY DEF NewWrr
<1>4. Buckets(g) # <<>> => n \in 1..n
  <2>1. n = 0 => Buckets(g) = <<>>
    <3>1. PICK S : Buckets(g) \in Seq(S) BY GroupsAssumption DEF Selecting, Buckets
    <3>2. QED BY <3>1
  <2>2. QED BY <1>1, <2>1
<1> HIDE DEF n, zeros, s
<1>5. s.curr_bucket = n /\ s.curr_weight = 0 /\ s.chosen = zeros BY <1>3
<1>6. s \in [curr_bucket : Nat, curr_weight : Nat, chosen : [1..n -> Nat]] BY <1>1, <1>2, <1>3
<1>7. AtStart(g, s) BY <1>2, <1>5 DEF AtStart, n
<1>8. MaxWeight[g] # 0 => \E K, T : IsParts(g, K, T) BY PartsExist
<1>9. QED BY <1>4, <1>5, <1>6, <1>7, <1>8 DEF WrrAgrees, n, s

LEMMA SelectStep ==
  ASSUME WrrsAgree, ExecuteSelect
  PROVE  WrrsAgree'
<1> DEFINE g == Top.group
<1>1. CASE wrr' = wrr BY <1>1 DEF WrrsAgree, WrrAgrees, AtStart, InRound
<1>2. CASE wrr' # wrr
  <2>1. Turns(g) # 0 /\ wrr' = [wrr EXCEPT ![g] = Selected(g)] BY <1>2 DEF ExecuteSelect, Selected
  <2>2. g \in Selecting BY <1>2, <2>1 DEF WrrsAgree
  <2>3. Buckets(g) # <<>>
    <3>1. SUFFICES ASSUME Buckets(g) = <<>> PROVE Turns(g) = 0 BY <2>1
    <3>2. 1..Len(Buckets(g)) = {} BY <3>1
    <3>3. QED BY <3>2 DEF Turns
  <2> HIDE DEF g
  <2>4. WrrAgrees(g, Selected(g)) BY <2>2, <2>3, SelectedAgrees DEF WrrsAgree
  <2>5. DOMAIN wrr' = Selecting /\ wrr' = [h \in Selecting |-> wrr'[h]] BY <2>1 DEF WrrsAgree
  <2>6. \A h \in Selecting : wrr'[h] = IF h = g THEN Selected(g) ELSE wrr[h] BY <2>1 DEF WrrsAgree
  <2>7. \A h \in Selecting : WrrAgrees(h, wrr'[h]) BY <2>4, <2>6 DEF WrrsAgree
  <2>8. QED BY <2>5, <2>7 DEF WrrsAgree
<1>3. QED BY <1>1, <1>2

LEMMA WrrStep == WrrsAgree /\ [Next]_vars => WrrsAgree'
<1> SUFFICES ASSUME WrrsAgree, [Next]_vars PROVE WrrsAgree' OBVIOUS
<1>1. wrr' = wrr \/ ExecuteSelect
  BY DEF Next, Walk, Event, vars, Process, Table, InstsDone, ApplyActions, ClearActions, WriteActionsInst,
         GotoTable, Meter, ListAction, ListDone, SetAction, SetDone, Destroy, Return, ExecuteAll, NextOfAll,
         ExecuteIndirect, ExecuteFf, Arrive, PacketOut, PacketOutBuffered, FlowMod,
         FlowModBuffered, FlowRemoved, PortMod, Refill
<1>2. CASE wrr' = wrr BY <1>2 DEF WrrsAgree, WrrAgrees, AtStart, InRound
<1>3. QED BY <1>1, <1>2, SelectStep

\* What agrees has given no bucket more than its share.
LEMMA NoneAboveShare ==
  ASSUME WrrsAgree
  PROVE  SharesByWeight
<1> SUFFICES ASSUME NEW g \in Selecting, NEW b \in DOMAIN wrr[g].chosen
             PROVE  wrr[g].chosen[b] * GcdWeight[g] <= Weights(g)[b]
  BY DEF SharesByWeight, WrrsAgree
<1> DEFINE n == Len(Buckets(g))
           d == GcdWeight[g]
<1>1. wrr[g].chosen \in [1..n -> Nat] /\ b \in 1..n /\ WrrAgrees(g, wrr[g]) BY DEF WrrsAgree, WrrAgrees
<1>2. wrr[g].chosen[b] \in Nat BY <1>1
<1>3. CASE MaxWeight[g] = 0
  <2>1. d = 0 /\ Weights(g)[b] \in 0..UINT16_MAX BY <1>1, <1>3, GcdWeightIs, GroupShape
  <2>2. QED BY <1>2, <2>1, Uint16
<1>4. CASE MaxWeight[g] # 0
  <2>1. PICK K, T, L :
          /\ AtLevel(g, K, T, L)
          /\ \/ AtStart(g, wrr[g]) /\ L = 0
             \/ L # 0 /\ \A x \in 1..n : wrr[g].chosen[x] = Given(K, wrr[g].curr_bucket, L, x)
    BY <1>1, <1>4, LevelIs
  <2>2. /\ T \in Nat /\ K \in [1..n -> 0..T] /\ Weights(g)[b] = d * K[b] /\ L \in 0..T
    BY <1>1, <2>1 DEF AtLevel, IsParts
  <2>3. d \in Nat \ {0}
    <3>1. MaxWeight[g] \in Nat BY MaxWeightIs, Uint16
    <3>2. QED BY <1>4, <3>1, GcdWeightIs
  <2> HIDE DEF d
  <2>4. K[b] \in Nat BY <1>1, <2>2
  <2>5. wrr[g].chosen[b] <= K[b]
    <3>1. CASE AtStart(g, wrr[g]) BY <1>1, <2>4, <3>1 DEF AtStart
    <3>2. CASE L # 0 /\ \A x \in 1..n : wrr[g].chosen[x] = Given(K, wrr[g].curr_bucket, L, x)
      <4>1. wrr[g].chosen[b] = Given(K, wrr[g].curr_bucket, L, b) BY <1>1, <3>2
      <4>2. L \in 1..T BY <2>2, <3>2
      <4>3. Given(K, wrr[g].curr_bucket, L, b) <= K[b] BY <2>4, <4>2, <2>2 DEF Given
      <4>4. QED BY <4>1, <4>3
    <3>3. QED BY <2>1, <3>1, <3>2
  <2>6. d * wrr[g].chosen[b] <= d * K[b] BY <1>2, <2>3, <2>4, <2>5, TimesKeepsOrder
  <2>7. wrr[g].chosen[b] * d = d * wrr[g].chosen[b] BY <1>2, <2>3
  <2>8. QED BY <2>2, <2>6, <2>7 DEF d
<1>5. QED BY <1>3, <1>4

LEMMA WrrInit == Init => WrrsAgree
<1> SUFFICES ASSUME Init PROVE WrrsAgree OBVIOUS
<1>1. wrr = [g \in Selecting |-> NewWrr(g)] BY DEF Init
<1>2. \A g \in Selecting : WrrAgrees(g, wrr[g]) BY <1>1, NewWrrAgrees
<1>3. QED BY <1>1, <1>2 DEF WrrsAgree

THEOREM SharesHold == Spec => []SharesByWeight
BY WrrInit, WrrStep, NoneAboveShare, PTL DEF Spec

\* A group of type SELECT that has a bucket finds one for each packet, whatever
\* the weights: the warning of select_from_select_group is never logged.
SelectsABucket == \A g \in Selecting : Buckets(g) # <<>> => Turns(g) # 0

THEOREM SelectsABucketHolds == Spec => []SelectsABucket
<1>1. WrrsAgree => SelectsABucket
  <2> SUFFICES ASSUME WrrsAgree, NEW g \in Selecting, Buckets(g) # <<>> PROVE Turns(g) # 0
    BY DEF SelectsABucket
  <2>1. Turns(g) \in 1..Len(Buckets(g)) BY SelectsOne DEF WrrsAgree
  <2>2. Len(Buckets(g)) \in Nat BY GroupShape
  <2>3. QED BY <2>1, <2>2
<1>2. QED BY <1>1, WrrInit, WrrStep, PTL DEF Spec

HIDE DEF IsPacket
-----------------------------------------------------------------------------
(* What the calls that have not returned still put out *)

\* The actions of a set, without their owners.
Plain(a) == [type |-> a.type, arg |-> a.arg]
ActsIn(s) == {Plain(s[i]) : i \in 1..Len(s)}

\* An action set is in the order of its kinds and has one action of each.
IsSet(s) ==
  /\ IsStack(s)
  /\ \A i \in 1..Len(s) : IsAction(Plain(s[i]))
  /\ \A i, j \in 1..Len(s) : i < j => Order(s[i]) <= Order(s[j])
  /\ \A i, j \in 1..Len(s) : Replaces(s[i], s[j]) => i = j

HasA(types, s) == \E i \in 1..Len(s) : s[i].type \in types

\* Of the outputs that are noted in the packet, the one that is to come when
\* the set is executed; a noted output is nothing if the set has one.
Noted(r) ==
  IF r.out_group # OFPG_ANY THEN {[type |-> "group", arg |-> <<r.out_group>>]}
  ELSE IF r.out_port # OFPP_ANY /\ ~HasA({"group", "output"}, r.set)
  THEN {[type |-> "output", arg |-> <<r.out_port>>]}
  ELSE {}

Left(r) == ActsIn(r.set) \cup Noted(r)

NoneNoted(r) == r.out_port = OFPP_ANY /\ r.out_group = OFPG_ANY

\* What the call f finds when it goes on with the packet r.
Shape(f, r) ==
  /\ f.op = "process" => IsNew(r)
  /\ f.op = "table" => NoneNoted(r) /\ IsSet(r.set) /\ f.table \in Tables
  /\ f.op = "insts" => /\ {"insts", "next"} \subseteq DOMAIN f /\ NoneNoted(r) /\ IsSet(r.set)
                       /\ f.next \in Tables \cup {NoTable}
                       /\ \A inst \in f.insts : IsInstruction(inst)
  /\ f.op = "list" => "acts" \in DOMAIN f /\ NoneNoted(r) /\ IsList(f.acts)
  /\ f.op = "set" => /\ IsSet(r.set)
                     /\ r.out_group # OFPG_ANY => /\ r.out_group \in DOMAIN Groups
                                                  /\ \A i \in 1..Len(r.set) : r.set[i].type = "output"
  /\ f.op = "group" => r.set = <<>> /\ r.out_group = OFPG_ANY /\ f.group \in DOMAIN Groups
  /\ f.op = "all" => /\ "buckets" \in DOMAIN f /\ IsStack(f.buckets)
                     /\ \A i \in 1..Len(f.buckets) : IsList(f.buckets[i].actions) /\ Sends(f.buckets[i])

\* The context of a walk with the packet r when k is the network.
Ctx(r, k) == [in_port |-> r.in_port, packet_out |-> r.packet_out, flows |-> k[1], down |-> k[2]]

\* The call f with the packet r, whose header is then g, puts out x and leaves
\* the header y to the call below it, which now has the header h: only a list
\* of actions has its packet from there.
Gives(f, r, g, h, k, x, y) ==
  /\ f.op # "list" => y = h
  /\ f.op = "process" => x \in TablesOutcomes(g, Ctx(r, k))
  /\ f.op = "table" => x \in TableOutcomes(g, Ctx(r, k), ActsIn(r.set), f.table)
  /\ f.op = "insts" => x \in InstOutcomes(g, Ctx(r, k), ActsIn(r.set), f.insts, f.next)
  /\ f.op = "list" => <<x, y>> \in ListOutcomes(g, Ctx(r, k), f.acts)
  /\ f.op = "set" => x \in SetOutcomes(g, Ctx(r, k), Left(r))
  /\ f.op = "group" => x \in GroupOutcomes(g, Ctx(r, k), f.group)
  /\ f.op = "all" => x \in AllOutcomes(g, Ctx(r, k), f.buckets)
  /\ f.op = "destroy" => x = <<>>

\* From what was put out and a header as in A the call leads to one as in B.
LeadsOver(f, r, A, B, h, k) ==
  /\ Shape(f, r)
  /\ \A s, g, x, y : <<s, g>> \in A /\ IsStack(s) /\ IsStack(x) /\ Gives(f, r, g, h, k, x, y) => <<s \o x, y>> \in B

\* The header of the packet of the i-th call.
HdrAt(w, ps, i) == IF i \in Inner(w) THEN ps[w[i].pkt].hdr ELSE <<>>

IsChain(w, ps, K, k) ==
  \A i \in Inner(w) : LeadsOver(w[i], ps[w[i].pkt], K[i], K[i + 1], HdrAt(w, ps, i + 1), k)

\* Whatever the calls of w still do, what is put out in the end is in the goal.
Leads(w, ps, A, goal, k) ==
  \E K : A \subseteq K[1] /\ IsChain(w, ps, K, k) /\ \A x, y : <<x, y>> \in K[Len(w)] => x \in goal

Promised(w, ps, s, goal, k) == IsStack(s) /\ Leads(w, ps, {<<s, HdrAt(w, ps, 1)>>}, goal, k)

LEMMA LeadsOverOther ==
  ASSUME NEW f, NEW r, NEW A, NEW B, NEW h, NEW k, LeadsOver(f, r, A, B, h, k),
         NEW A2, A2 \subseteq A, NEW B2, B \subseteq B2
  PROVE  LeadsOver(f, r, A2, B2, h, k)
BY DEF LeadsOver

\* The innermost call and those below it.
LEMMA LeadsDown ==
  ASSUME NEW w, StackAgrees(w), 1 \in Inner(w), NEW ps, NEW A, NEW goal, NEW k, Leads(w, ps, A, goal, k)
  PROVE  \E B : /\ LeadsOver(w[1], ps[w[1].pkt], A, B, HdrAt(Tail(w), ps, 1), k)
                /\ Leads(Tail(w), ps, B, goal, k)
<1> DEFINE t == Tail(w)
<1>1. PICK K : A \subseteq K[1] /\ IsChain(w, ps, K, k) /\ \A x, y : <<x, y>> \in K[Len(w)] => x \in goal
  BY DEF Leads
<1>2. w # <<>> BY DEF Inner
<1>3. IsStack(t) /\ Len(t) \in Nat /\ Len(w) = Len(t) + 1 /\ \A i \in 1..Len(t) : t[i] = w[i + 1]
  BY <1>2, PopShape DEF StackAgrees
<1> HIDE DEF t
<1>4. ASSUME NEW i \in Nat PROVE HdrAt(w, ps, i + 1) = HdrAt(t, ps, i) \/ i = 0
  BY <1>3 DEF HdrAt, Inner
<1> DEFINE L == [i \in 1..Len(t) |-> K[i + 1]]
<1>5. Len(t) >= 1 BY <1>3 DEF Inner
<1>6. LeadsOver(w[1], ps[w[1].pkt], A, K[2], HdrAt(t, ps, 1), k)
  <2>1. LeadsOver(w[1], ps[w[1].pkt], K[1], K[1 + 1], HdrAt(w, ps, 1 + 1), k) BY <1>1 DEF IsChain
  <2>2. HdrAt(w, ps, 1 + 1) = HdrAt(t, ps, 1) BY <1>4
  <2>3. K[2] \subseteq K[2] /\ 1 + 1 = 2 OBVIOUS
  <2>4. QED BY <1>1, <2>1, <2>2, <2>3, LeadsOverOther
<1>7. IsChain(t, ps, L, k)
  <2>1. ASSUME NEW i \in Inner(t) PROVE LeadsOver(t[i], ps[t[i].pkt], L[i], L[i + 1], HdrAt(t, ps, i + 1), k)
    <3>1. i \in 1..Len(t) /\ i + 1 \in 1..Len(t) /\ i + 1 \in Inner(w) /\ i + 1 \in Nat BY <1>3 DEF Inner
    <3>2. t[i] = w[i + 1] /\ L[i] = K[i + 1] /\ L[i + 1] = K[i + 1 + 1] BY <1>3, <3>1
    <3>3. HdrAt(w, ps, i + 1 + 1) = HdrAt(t, ps, i + 1) BY <1>4, <3>1
    <3>4. LeadsOver(w[i + 1], ps[w[i + 1].pkt], K[i + 1], K[i + 1 + 1], HdrAt(w, ps, i + 1 + 1), k)
      BY <1>1, <3>1 DEF IsChain
    <3>5. QED BY <3>2, <3>3, <3>4
  <2>2. QED BY <2>1 DEF IsChain
<1>8. Leads(t, ps, K[2], goal, k)
  <2>1. L[1] = K[2] /\ L[Len(t)] = K[Len(w)] BY <1>3, <1>5
  <2>2. K[2] \subseteq L[1] BY <2>1
  <2> HIDE DEF L
  <2>3. QED BY <1>1, <1>7, <2>1, <2>2 DEF Leads
<1>9. QED BY <1>6, <1>8 DEF t

\* A call on top of others.
LEMMA LeadsUp ==
  ASSUME NEW v, IsStack(v), v # <<>>, NEW ps, NEW B, NEW goal, NEW k, Leads(v, ps, B, goal, k),
         NEW f, NEW A, LeadsOver(f, ps[f.pkt], A, B, HdrAt(v, ps, 1), k)
  PROVE  Leads(Onto(f, v), ps, A, goal, k)
<1> DEFINE w == Onto(f, v)
<1>1. PICK K : B \subseteq K[1] /\ IsChain(v, ps, K, k) /\ \A x, y : <<x, y>> \in K[Len(v)] => x \in goal
  BY DEF Leads
<1>2. Len(v) \in Nat /\ Len(v) >= 1
  <2>1. Len(v) \in Nat /\ Len(v) # 0 BY EmptyStack, PushShape
  <2>2. QED BY <2>1
<1>3. Len(w) = Len(v) + 1 /\ w[1] = f /\ \A i \in 1..Len(v) : w[i + 1] = v[i] BY PushShape
<1> HIDE DEF w
<1> DEFINE L == [i \in 1..Len(w) |-> IF i = 1 THEN A ELSE K[i - 1]]
<1>4. ASSUME NEW i \in Nat, i >= 1 PROVE HdrAt(w, ps, i + 1) = HdrAt(v, ps, i)
  <2>1. i + 1 \in Inner(w) <=> i \in Inner(v) BY <1>2, <1>3, <1>4 DEF Inner
  <2>2. i \in Inner(v) => w[i + 1] = v[i] BY <1>2, <1>3 DEF Inner
  <2>3. QED BY <2>1, <2>2 DEF HdrAt
<1>5. IsChain(w, ps, L, k)
  <2>1. ASSUME NEW i \in Inner(w) PROVE LeadsOver(w[i], ps[w[i].pkt], L[i], L[i + 1], HdrAt(w, ps, i + 1), k)
    <3>1. i \in Nat /\ i >= 1 /\ i \in 1..Len(w) /\ i + 1 \in 1..Len(w) BY <1>2, <1>3 DEF Inner
    <3>2. HdrAt(w, ps, i + 1) = HdrAt(v, ps, i) BY <1>4, <3>1
    <3>3. CASE i = 1
      <4>1. L[i] = A /\ L[i + 1] = K[1] BY <3>1, <3>3
      <4>2. A \subseteq A OBVIOUS
      <4>3. LeadsOver(f, ps[f.pkt], A, K[1], HdrAt(v, ps, 1), k) BY <1>1, <4>2, LeadsOverOther
      <4>4. QED BY <1>3, <3>2, <3>3, <4>1, <4>3
    <3>4. CASE i # 1
      <4>1. i - 1 \in Inner(v) /\ i - 1 \in 1..Len(v) /\ (i - 1) + 1 = i BY <1>2, <1>3, <3>1, <3>4 DEF Inner
      <4>2. w[i] = v[i - 1] BY <1>3, <4>1
      <4>3. L[i] = K[i - 1] /\ L[i + 1] = K[i] BY <3>1, <3>4
      <4>4. LeadsOver(v[i - 1], ps[v[i - 1].pkt], K[i - 1], K[(i - 1) + 1], HdrAt(v, ps, (i - 1) + 1), k)
        BY <1>1, <4>1 DEF IsChain
      <4>5. QED BY <3>2, <4>1, <4>2, <4>3, <4>4
    <3>5. QED BY <3>3, <3>4
  <2>2. QED BY <2>1 DEF IsChain
<1>6. L[1] = A /\ L[Len(w)] = K[Len(v)] BY <1>2, <1>3
<1>7. A \subseteq L[1] BY <1>6
<1> HIDE DEF L
<1>8. Leads(w, ps, A, goal, k) BY <1>1, <1>5, <1>6, <1>7 DEF Leads
<1>9. QED BY <1>8 DEF w

\* A packet is the same but for its header and its place in the buffers.
Kept(r2, r) ==
  /\ r2.in_port = r.in_port /\ r2.packet_out = r.packet_out /\ r2.set = r.set
  /\ r2.out_port = r.out_port /\ r2.out_group = r.out_group

LEMMA KeptLeadsOver ==
  ASSUME NEW f, NEW r, NEW A, NEW B, NEW h, NEW k, LeadsOver(f, r, A, B, h, k), NEW r2, Kept(r2, r)
  PROVE  LeadsOver(f, r2, A, B, h, k)
<1>1. Ctx(r2, k) = Ctx(r, k) /\ Noted(r2) = Noted(r) /\ NoneNoted(r2) = NoneNoted(r) /\ IsNew(r2) = IsNew(r)
  BY DEF Kept, Ctx, Noted, NoneNoted, IsNew
<1>2. r2.set = r.set /\ r2.out_group = r.out_group BY DEF Kept
<1>3. Left(r2) = Left(r) BY <1>1, <1>2 DEF Left
<1>4. Shape(f, r2) BY <1>1, <1>2 DEF Shape, LeadsOver
<1>5. \A g, x, y : Gives(f, r2, g, h, k, x, y) => Gives(f, r, g, h, k, x, y) BY <1>1, <1>2, <1>3 DEF Gives
<1>6. QED BY <1>4, <1>5 DEF LeadsOver

\* The calls of v have their packets as they were; the innermost one, perhaps,
\* with another header.
LeftAlone(v, ps2, ps) ==
  \A i \in Inner(v) : Kept(ps2[v[i].pkt], ps[v[i].pkt]) /\ (i # 1 => ps2[v[i].pkt].hdr = ps[v[i].pkt].hdr)

LEMMA LeadsOn ==
  ASSUME NEW v, NEW ps, NEW A, NEW goal, NEW k, Leads(v, ps, A, goal, k), NEW ps2, LeftAlone(v, ps2, ps)
  PROVE  Leads(v, ps2, A, goal, k)
<1>1. PICK K : A \subseteq K[1] /\ IsChain(v, ps, K, k) /\ \A x, y : <<x, y>> \in K[Len(v)] => x \in goal
  BY DEF Leads
<1>2. ASSUME NEW i \in Inner(v) PROVE LeadsOver(v[i], ps2[v[i].pkt], K[i], K[i + 1], HdrAt(v, ps2, i + 1), k)
  <2>1. HdrAt(v, ps2, i + 1) = HdrAt(v, ps, i + 1)
    <3>1. i + 1 # 1 BY DEF Inner
    <3>2. QED BY <3>1 DEF HdrAt, LeftAlone
  <2>2. LeadsOver(v[i], ps[v[i].pkt], K[i], K[i + 1], HdrAt(v, ps, i + 1), k) BY <1>1 DEF IsChain
  <2>3. Kept(ps2[v[i].pkt], ps[v[i].pkt]) BY DEF LeftAlone
  <2>4. QED BY <2>1, <2>2, <2>3, KeptLeadsOver
<1>3. IsChain(v, ps2, K, k) BY <1>2 DEF IsChain
<1>4. QED BY <1>1, <1>3 DEF Leads

LEMMA Concatenation ==
  /\ \A a, b : IsStack(a) /\ IsStack(b) => IsStack(a \o b)
  /\ \A a, b, c : IsStack(a) /\ IsStack(b) /\ IsStack(c) => (a \o b) \o c = a \o (b \o c)
  /\ \A a : IsStack(a) => a \o <<>> = a /\ <<>> \o a = a
  /\ \A e : IsStack(<<e>>)
  /\ IsStack(<<>>)
<1>1. ASSUME NEW a, NEW b, NEW c, IsStack(a), IsStack(b), IsStack(c)
      PROVE  /\ IsStack(a \o b) /\ (a \o b) \o c = a \o (b \o c) /\ a \o <<>> = a /\ <<>> \o a = a
  <2>1. PICK S : a \in Seq(S) BY <1>1 DEF IsStack
  <2>2. PICK T : b \in Seq(T) BY <1>1 DEF IsStack
  <2>3. PICK U : c \in Seq(U) BY <1>1 DEF IsStack
  <2> DEFINE V == S \cup T \cup U
  <2>4. a \in Seq(V) /\ b \in Seq(V) /\ c \in Seq(V) BY <2>1, <2>2, <2>3
  <2> HIDE DEF V
  <2>5. a \o b \in Seq(V) BY <2>4
  <2>6. (a \o b) \o c = a \o (b \o c) BY <2>4
  <2>7. a \o <<>> = a /\ <<>> \o a = a BY <2>4
  <2>8. QED BY <2>5, <2>6, <2>7 DEF IsStack
<1>2. IsStack(<<>>)
  <2>1. <<>> \in Seq({}) OBVIOUS
  <2>2. QED BY <2>1 DEF IsStack
<1>3. ASSUME NEW e PROVE IsStack(<<e>>)
  <2>1. <<e>> \in Seq({e}) OBVIOUS
  <2>2. QED BY <2>1 DEF IsStack
<1>4. QED BY <1>1, <1>2, <1>3

\* A call of the program is the innermost one and the promise is kept.
At(w, ps, s, goal, k) == Agree(w, ps) /\ w # <<>> /\ Head(w).op \in Calls /\ Promised(w, ps, s, goal, k)

\* What a step of the innermost call leaves as it is: the packets of other
\* calls, and of the packet of a list all but the header.
Others(w, ps2, ps) ==
  /\ \A q \in Worked(w) : q # Head(w).pkt => Kept(ps2[q], ps[q]) /\ ps2[q].hdr = ps[q].hdr
  /\ Head(w).op = "list" => Kept(ps2[Head(w).pkt], ps[Head(w).pkt])

\* What the innermost call gives from where it stands.
TopGives(w, ps, k, x, y) ==
  Gives(Head(w), ps[Head(w).pkt], ps[Head(w).pkt].hdr, HdrAt(Tail(w), ps, 1), k, x, y)

LEMMA TopLeads ==
  ASSUME NEW w, NEW ps, NEW s, NEW goal, NEW k, At(w, ps, s, goal, k), NEW ps2, Others(w, ps2, ps)
  PROVE  \E B : /\ \A x, y : IsStack(x) /\ TopGives(w, ps, k, x, y) => <<s \o x, y>> \in B
                /\ Leads(Tail(w), ps2, B, goal, k)
<1> DEFINE t == Tail(w)
           p == Head(w).pkt
<1>1. /\ \A i \in Inner(t) : i + 1 \in Inner(w) /\ t[i] = w[i + 1]
      /\ Head(w) = w[1] /\ 1 \in Inner(w) /\ StackAgrees(w)
  <2>1. Head(w).op # "return" BY DEF At, Calls
  <2>2. QED BY <2>1, CallPopped DEF At, Agree
<1> HIDE DEF t
<1>2. LeftAlone(t, ps2, ps)
  <2>1. ASSUME NEW i \in Inner(t)
        PROVE  Kept(ps2[t[i].pkt], ps[t[i].pkt]) /\ (i # 1 => ps2[t[i].pkt].hdr = ps[t[i].pkt].hdr)
    <3>1. i + 1 \in Inner(w) /\ t[i] = w[i + 1] /\ 1 < i + 1 BY <1>1 DEF Inner
    <3>2. t[i].pkt \in Worked(w) BY <3>1 DEF Worked
    <3>3. CASE t[i].pkt # p BY <3>2, <3>3 DEF Others
    <3>4. CASE t[i].pkt = p
      <4>1. w[1].op = "list" /\ i + 1 = 1 + 1 BY <1>1, <3>1, <3>4 DEF StackAgrees
      <4>2. i = 1 BY <3>1, <4>1 DEF Inner
      <4>3. Kept(ps2[p], ps[p]) BY <1>1, <4>1 DEF Others
      <4>4. QED BY <3>4, <4>2, <4>3
    <3>5. QED BY <3>3, <3>4
  <2>2. QED BY <2>1 DEF LeftAlone
<1>3. HdrAt(w, ps, 1) = ps[p].hdr BY <1>1 DEF HdrAt
<1>4. PICK B : /\ LeadsOver(w[1], ps[w[1].pkt], {<<s, HdrAt(w, ps, 1)>>}, B, HdrAt(t, ps, 1), k)
               /\ Leads(t, ps, B, goal, k)
  BY <1>1, LeadsDown DEF At, Promised, t
<1>5. Leads(t, ps2, B, goal, k) BY <1>2, <1>4, LeadsOn
<1>6. ASSUME NEW x, NEW y, IsStack(x), TopGives(w, ps, k, x, y) PROVE <<s \o x, y>> \in B
  <2>1. Gives(w[1], ps[p], ps[p].hdr, HdrAt(t, ps, 1), k, x, y) BY <1>1, <1>6 DEF TopGives, t
  <2>2. <<s, ps[p].hdr>> \in {<<s, HdrAt(w, ps, 1)>>} /\ IsStack(s) BY <1>3 DEF At, Promised
  <2>3. QED BY <1>1, <1>4, <1>6, <2>1, <2>2 DEF LeadsOver
<1>7. QED BY <1>5, <1>6 DEF t

\* The shape of what the innermost call finds.
LEMMA TopShape ==
  ASSUME NEW w, NEW ps, NEW s, NEW goal, NEW k, At(w, ps, s, goal, k)
  PROVE  /\ Shape(Head(w), ps[Head(w).pkt]) /\ IsStack(s)
         /\ Head(w).pkt \in Worked(w) /\ Head(w).pkt \in DOMAIN ps /\ IsPacket(ps[Head(w).pkt])
         /\ IsCall(Head(w)) /\ IsStack(Tail(w)) /\ Tail(w) # <<>>
<1>1. Head(w) = w[1] /\ 1 \in Inner(w) /\ StackAgrees(w) /\ StackAgrees(Tail(w)) /\ Tail(w) # <<>>
  <2>1. Head(w).op # "return" BY DEF At, Calls
  <2>2. QED BY <2>1, CallPopped DEF At, Agree
<1>2. PICK B : LeadsOver(w[1], ps[w[1].pkt], {<<s, HdrAt(w, ps, 1)>>}, B, HdrAt(Tail(w), ps, 1), k)
  BY <1>1, LeadsDown DEF At, Promised
<1>3. Shape(Head(w), ps[Head(w).pkt]) BY <1>1, <1>2 DEF LeadsOver
<1>4. Head(w).pkt \in Worked(w) /\ IsCall(Head(w)) BY <1>1 DEF Worked, StackAgrees
<1>5. Head(w).pkt \in DOMAIN ps /\ IsPacket(ps[Head(w).pkt]) BY <1>4 DEF At, Agree, PacketsAgree
<1>6. QED BY <1>1, <1>3, <1>4, <1>5 DEF At, Promised, StackAgrees

\* The call puts out x0 and returns.
LEMMA StepPop ==
  ASSUME NEW w, NEW ps, NEW s, NEW goal, NEW k, At(w, ps, s, goal, k), NEW ps2, Others(w, ps2, ps),
         NEW x0, IsStack(x0), TopGives(w, ps, k, x0, HdrAt(Tail(w), ps2, 1))
  PROVE  Promised(Tail(w), ps2, s \o x0, goal, k)
<1>1. PICK B : /\ \A x, y : IsStack(x) /\ TopGives(w, ps, k, x, y) => <<s \o x, y>> \in B
               /\ Leads(Tail(w), ps2, B, goal, k)
  BY TopLeads
<1>2. {<<s \o x0, HdrAt(Tail(w), ps2, 1)>>} \subseteq B BY <1>1
<1>3. Leads(Tail(w), ps2, {<<s \o x0, HdrAt(Tail(w), ps2, 1)>>}, goal, k) BY <1>1, <1>2 DEF Leads
<1>4. IsStack(s \o x0) BY Concatenation DEF At, Promised
<1>5. QED BY <1>3, <1>4 DEF Promised

\* The call of f with the packet r gives, after x0, what the innermost does.
GoesOnAs(w, ps, f, r, x0, k) ==
  \A x, y : IsStack(x) /\ Gives(f, r, r.hdr, HdrAt(Tail(w), ps, 1), k, x, y) => TopGives(w, ps, k, x0 \o x, y)

\* The call puts out x0 and goes on, or another one in its place, as f.
LEMMA StepOn ==
  ASSUME NEW w, NEW ps, NEW s, NEW goal, NEW k, At(w, ps, s, goal, k), NEW ps2, Others(w, ps2, ps),
         NEW x0, IsStack(x0), NEW f, Shape(f, ps2[f.pkt]), GoesOnAs(w, ps, f, ps2[f.pkt], x0, k),
         HdrAt(Tail(w), ps2, 1) = HdrAt(Tail(w), ps, 1) \/ f.op = "list"
  PROVE  Promised(Onto(f, Tail(w)), ps2, s \o x0, goal, k)
<1> DEFINE t == Tail(w)
           r == ps2[f.pkt]
           A == {<<s \o x0, r.hdr>>}
<1>1. PICK B : /\ \A x, y : IsStack(x) /\ TopGives(w, ps, k, x, y) => <<s \o x, y>> \in B
               /\ Leads(t, ps2, B, goal, k)
  BY TopLeads
<1>2. IsStack(t) /\ t # <<>> /\ IsStack(s) BY TopShape
<1> HIDE DEF t
<1>3. LeadsOver(f, r, A, B, HdrAt(t, ps2, 1), k)
  <2>1. ASSUME NEW x, NEW y, IsStack(x), Gives(f, r, r.hdr, HdrAt(t, ps2, 1), k, x, y)
        PROVE  <<(s \o x0) \o x, y>> \in B
    <3>1. Gives(f, r, r.hdr, HdrAt(t, ps, 1), k, x, y)
      <4>1. CASE HdrAt(t, ps2, 1) = HdrAt(t, ps, 1) BY <2>1, <4>1
      <4>2. CASE f.op = "list" BY <2>1, <4>2 DEF Gives
      <4>3. QED BY <4>1, <4>2 DEF t
    <3>2. TopGives(w, ps, k, x0 \o x, y) BY <2>1, <3>1 DEF GoesOnAs, t
    <3>3. IsStack(x0 \o x) /\ (s \o x0) \o x = s \o (x0 \o x) BY <1>2, <2>1, Concatenation
    <3>4. QED BY <1>1, <3>2, <3>3
  <2>2. ASSUME NEW s1, NEW g, NEW x, NEW y, <<s1, g>> \in A, IsStack(s1), IsStack(x), Gives(f, r, g, HdrAt(t, ps2, 1), k, x, y)
        PROVE  <<s1 \o x, y>> \in B
    <3>1. s1 = s \o x0 /\ g = r.hdr BY <2>2
    <3>2. QED BY <2>1, <2>2, <3>1
  <2>3. QED BY <2>2 DEF LeadsOver
<1>4. Leads(Onto(f, t), ps2, A, goal, k) BY <1>1, <1>2, <1>3, LeadsUp
<1>5. HdrAt(Onto(f, t), ps2, 1) = r.hdr
  <2>1. Onto(f, t)[1] = f /\ Len(Onto(f, t)) = Len(t) + 1 /\ Len(t) \in Nat /\ Len(t) # 0
    BY <1>2, PushShape, EmptyStack
  <2>2. 1 \in Inner(Onto(f, t)) BY <2>1 DEF Inner
  <2>3. QED BY <2>1, <2>2 DEF HdrAt
<1>6. IsStack(s \o x0) BY <1>2, Concatenation
<1>7. QED BY <1>4, <1>5, <1>6 DEF Promised, t

\* The set of all that a call may give.
AllOf(f, r, g, h, k) ==
  LET c == Ctx(r, k)
      outs == TablesOutcomes(g, c) \cup TableOutcomes(g, c, ActsIn(r.set), f.table)
                \cup InstOutcomes(g, c, ActsIn(r.set), f.insts, f.next) \cup SetOutcomes(g, c, Left(r))
                \cup GroupOutcomes(g, c, f.group) \cup AllOutcomes(g, c, f.buckets) \cup {<<>>}
  IN  ListOutcomes(g, c, f.acts) \cup {<<x, h>> : x \in outs}

LEMMA GivesBounded ==
  ASSUME NEW f, f.op \in Calls, NEW r, NEW g, NEW h, NEW k, NEW x, NEW y, Gives(f, r, g, h, k, x, y)
  PROVE  <<x, y>> \in AllOf(f, r, g, h, k)
<1>1. CASE f.op = "list" BY <1>1 DEF Gives, AllOf
<1>2. CASE f.op # "list"
  <2> DEFINE c == Ctx(r, k)
             outs == TablesOutcomes(g, c) \cup TableOutcomes(g, c, ActsIn(r.set), f.table)
                      \cup InstOutcomes(g, c, ActsIn(r.set), f.insts, f.next) \cup SetOutcomes(g, c, Left(r))
                      \cup GroupOutcomes(g, c, f.group) \cup AllOutcomes(g, c, f.buckets) \cup {<<>>}
  <2>1. y = h BY <1>2 DEF Gives
  <2>2. x \in outs BY <1>2 DEF Gives, Calls
  <2>3. <<x, h>> \in {<<z, h>> : z \in outs} BY <2>2
  <2> HIDE DEF outs
  <2>4. {<<z, h>> : z \in outs} \subseteq AllOf(f, r, g, h, k) BY DEF AllOf, outs
  <2>5. QED BY <2>1, <2>3, <2>4
<1>3. QED BY <1>1, <1>2

\* What f1 gives and then what f gives is what the innermost call gives.
GoesOnAsTwo(w, ps, f1, r1, f, r, k) ==
  \A x1, y1, x2, y2 :
    /\ IsStack(x1) /\ Gives(f1, r1, r1.hdr, r.hdr, k, x1, y1)
    /\ IsStack(x2) /\ Gives(f, r, y1, HdrAt(Tail(w), ps, 1), k, x2, y2)
    => TopGives(w, ps, k, x1 \o x2, y2)

LEMMA HdrPushed ==
  ASSUME NEW v, IsStack(v), v # <<>>, NEW f, NEW ps
  PROVE  HdrAt(Onto(f, v), ps, 1) = ps[f.pkt].hdr /\ IsStack(Onto(f, v)) /\ Onto(f, v) # <<>>
<1>1. /\ Onto(f, v)[1] = f /\ Len(Onto(f, v)) = Len(v) + 1 /\ Len(v) \in Nat /\ Len(v) # 0
      /\ IsStack(Onto(f, v)) /\ Onto(f, v) # <<>>
  BY PushShape, EmptyStack
<1>2. 1 \in Inner(Onto(f, v)) BY <1>1 DEF Inner
<1>3. QED BY <1>1, <1>2 DEF HdrAt

\* The call goes on as f after a call f1 that it makes.
LEMMA StepCall ==
  ASSUME NEW w, NEW ps, NEW s, NEW goal, NEW k, At(w, ps, s, goal, k), NEW ps2, Others(w, ps2, ps),
         NEW f, Shape(f, ps2[f.pkt]), HdrAt(Tail(w), ps2, 1) = HdrAt(Tail(w), ps, 1) \/ f.op = "list",
         NEW f1, f1.op \in Calls, Shape(f1, ps2[f1.pkt]),
         GoesOnAsTwo(w, ps, f1, ps2[f1.pkt], f, ps2[f.pkt], k)
  PROVE  Promised(Onto(f1, Onto(f, Tail(w))), ps2, s, goal, k)
<1> DEFINE t == Tail(w)
           r == ps2[f.pkt]
           r1 == ps2[f1.pkt]
           all == AllOf(f1, r1, r1.hdr, r.hdr, k)
           given == {q \in all : /\ q = <<q[1], q[2]>> /\ IsStack(q[1])
                                 /\ Gives(f1, r1, r1.hdr, r.hdr, k, q[1], q[2])}
           A == {<<s \o q[1], q[2]>> : q \in given}
           A1 == {<<s, r1.hdr>>}
<1>1. PICK B : /\ \A x, y : IsStack(x) /\ TopGives(w, ps, k, x, y) => <<s \o x, y>> \in B
               /\ Leads(t, ps2, B, goal, k)
  BY TopLeads
<1>2. IsStack(t) /\ t # <<>> /\ IsStack(s) BY TopShape
<1>3. \A x, y : IsStack(x) /\ Gives(f1, r1, r1.hdr, r.hdr, k, x, y) => <<x, y>> \in given
  <2>1. ASSUME NEW x, NEW y, IsStack(x), Gives(f1, r1, r1.hdr, r.hdr, k, x, y)
        PROVE  <<x, y>> \in given
    <3>1. <<x, y>> \in all BY <2>1, GivesBounded
    <3>2. <<x, y>>[1] = x /\ <<x, y>>[2] = y OBVIOUS
    <3> HIDE DEF all
    <3>3. QED BY <2>1, <3>1, <3>2
  <2>2. QED BY <2>1
<1>4. \A q \in given : IsStack(q[1]) /\ Gives(f1, r1, r1.hdr, r.hdr, k, q[1], q[2]) OBVIOUS
<1> HIDE DEF given, all
<1>5. LeadsOver(f, r, A, B, HdrAt(t, ps2, 1), k)
  <2>1. ASSUME NEW s1, NEW g, NEW x, NEW y, <<s1, g>> \in A, IsStack(s1), IsStack(x),
               Gives(f, r, g, HdrAt(t, ps2, 1), k, x, y)
        PROVE  <<s1 \o x, y>> \in B
    <3>1. PICK q \in given : s1 = s \o q[1] /\ g = q[2] BY <2>1
    <3>2. Gives(f, r, g, HdrAt(t, ps, 1), k, x, y)
      <4>1. CASE HdrAt(t, ps2, 1) = HdrAt(t, ps, 1) BY <2>1, <4>1
      <4>2. CASE f.op = "list" BY <2>1, <4>2 DEF Gives
      <4>3. QED BY <4>1, <4>2 DEF t
    <3>3. IsStack(q[1]) /\ Gives(f1, r1, r1.hdr, r.hdr, k, q[1], q[2]) BY <1>4
    <3>4. TopGives(w, ps, k, q[1] \o x, y) BY <2>1, <3>1, <3>2, <3>3 DEF GoesOnAsTwo
    <3> DEFINE a == q[1]
    <3>7. IsStack(a) BY <3>3
    <3> HIDE DEF a
    <3>8. IsStack(a \o x) /\ (s \o a) \o x = s \o (a \o x) BY <1>2, <2>1, <3>7, Concatenation
    <3>5. IsStack(q[1] \o x) /\ (s \o q[1]) \o x = s \o (q[1] \o x) BY <3>8 DEF a
    <3>6. QED BY <1>1, <3>1, <3>4, <3>5
  <2> HIDE DEF A
  <2>2. QED BY <2>1 DEF LeadsOver
<1>6. LeadsOver(f1, r1, A1, A, r.hdr, k)
  <2>1. ASSUME NEW s1, NEW g, NEW x, NEW y, <<s1, g>> \in A1, IsStack(x), Gives(f1, r1, g, r.hdr, k, x, y)
        PROVE  <<s1 \o x, y>> \in A
    <3>1. s1 = s /\ g = r1.hdr BY <2>1
    <3>2. <<x, y>> \in given BY <1>3, <2>1, <3>1
    <3>3. <<x, y>>[1] = x /\ <<x, y>>[2] = y OBVIOUS
    <3>4. QED BY <3>1, <3>2, <3>3
  <2> HIDE DEF A1, A
  <2>2. QED BY <2>1 DEF LeadsOver
<1> HIDE DEF A
<1>7. Leads(Onto(f, t), ps2, A, goal, k) BY <1>1, <1>2, <1>5, LeadsUp
<1>8. HdrAt(Onto(f, t), ps2, 1) = r.hdr /\ IsStack(Onto(f, t)) /\ Onto(f, t) # <<>> BY <1>2, HdrPushed
<1> DEFINE v == Onto(f, t)
<1> HIDE DEF v
<1>9. Leads(Onto(f1, v), ps2, A1, goal, k)
  <2>1. HdrAt(v, ps2, 1) = r.hdr /\ IsStack(v) /\ v # <<>> /\ Leads(v, ps2, A, goal, k) BY <1>7, <1>8 DEF v
  <2>2. QED BY <1>6, <2>1, LeadsUp
<1>10. HdrAt(Onto(f1, v), ps2, 1) = r1.hdr BY <1>8, HdrPushed DEF v
<1>11. QED BY <1>2, <1>9, <1>10 DEF Promised, v, t

\* Only a list shares its packet with the call below.
LEMMA HdrBelow ==
  ASSUME NEW w, NEW ps, NEW s, NEW goal, NEW k, At(w, ps, s, goal, k), Head(w).op # "list",
         NEW ps2, Others(w, ps2, ps)
  PROVE  HdrAt(Tail(w), ps2, 1) = HdrAt(Tail(w), ps, 1)
<1> DEFINE t == Tail(w)
<1>1. Head(w).pkt \notin Worked(t) /\ Worked(w) = Worked(t) \cup {Head(w).pkt}
  BY CallReturns DEF At, Agree
<1> HIDE DEF t
<1>2. CASE 1 \in Inner(t)
  <2>1. t[1].pkt \in Worked(t) BY <1>2 DEF Worked
  <2>2. ps2[t[1].pkt].hdr = ps[t[1].pkt].hdr BY <1>1, <2>1 DEF Others
  <2>3. QED BY <2>2 DEF HdrAt, t
<1>3. CASE 1 \notin Inner(t) BY <1>3 DEF HdrAt, t
<1>4. QED BY <1>2, <1>3

\* The header that a list leaves to the call below it.
LEMMA HdrOfList ==
  ASSUME NEW w, NEW ps, NEW s, NEW goal, NEW k, At(w, ps, s, goal, k), Head(w).op = "list", NEW ps2
  PROVE  HdrAt(Tail(w), ps2, 1) = ps2[Head(w).pkt].hdr
<1> DEFINE t == Tail(w)
<1>1. /\ Head(w) = w[1] /\ 1 \in Inner(w) /\ StackAgrees(w)
      /\ \A i \in Inner(w) : i # 1 => i - 1 \in Inner(t) /\ t[i - 1] = w[i]
  <2>1. Head(w).op # "return" BY DEF At, Calls
  <2>2. QED BY <2>1, CallPopped DEF At, Agree
<1> HIDE DEF t
<1>2. 1 + 1 \in Inner(w) /\ w[1 + 1].pkt = w[1].pkt BY <1>1 DEF StackAgrees
<1>3. (1 + 1) - 1 \in Inner(t) /\ t[(1 + 1) - 1] = w[1 + 1] BY <1>1, <1>2
<1>4. 1 \in Inner(t) /\ t[1].pkt = Head(w).pkt BY <1>1, <1>2, <1>3
<1>5. QED BY <1>4 DEF HdrAt, t

-----------------------------------------------------------------------------
(* Action sets *)

LEMMA ActionOrder ==
  ASSUME NEW a, IsAction(Plain(a))
  PROVE  /\ Order(a) \in Nat
         /\ Order(Plain(a)) = Order(a)
         /\ a.type = "group" <=> Order(a) = 80
         /\ a.type = "output" <=> Order(a) = 90
         /\ a.type \notin {"group", "output"} <=> Order(a) < 80
         /\ \A b : IsAction(Plain(b)) => (Order(a) = Order(b) <=> a.type = b.type)
<1> DEFINE types == {"pop_vlan", "push_vlan", "dec_nw_ttl", "set_field", "group", "output"}
<1>1. ASSUME NEW b, IsAction(Plain(b)) PROVE b.type \in types BY <1>1 DEF IsAction, Plain
<1>2. a.type \in types BY <1>1
<1>3. ASSUME NEW b, b.type \in types
      PROVE  /\ b.type = "pop_vlan" => Order(b) = 20
             /\ b.type = "push_vlan" => Order(b) = 30
             /\ b.type = "dec_nw_ttl" => Order(b) = 50
             /\ b.type = "set_field" => Order(b) = 60
             /\ b.type = "group" => Order(b) = 80
             /\ b.type = "output" => Order(b) = 90
  BY <1>3 DEF Order
<1>4. Plain(a).type = a.type BY DEF Plain
<1>5. Order(a) \in Nat /\ (a.type = "group" <=> Order(a) = 80) /\ (a.type = "output" <=> Order(a) = 90)
      /\ (a.type \notin {"group", "output"} <=> Order(a) < 80)
  BY <1>2, <1>3
<1>6. Order(Plain(a)) = Order(a) BY <1>2, <1>3, <1>4
<1>7. ASSUME NEW b, IsAction(Plain(b)) PROVE Order(a) = Order(b) <=> a.type = b.type
  <2>1. b.type \in types BY <1>1, <1>7
  <2> HIDE DEF types
  <2>2. QED BY <1>2, <1>3, <2>1 DEF types
<1>8. QED BY <1>5, <1>6, <1>7

LEMMA ReplacesIs ==
  /\ \A a : Replaces(a, a)
  /\ \A a, b : Replaces(a, b) => Replaces(b, a) /\ a.type = b.type
  /\ \A a, b, c : Replaces(a, b) /\ Replaces(b, c) => Replaces(a, c)
  /\ \A a, b : /\ Replaces(Plain(a), Plain(b)) <=> Replaces(a, b)
               /\ Replaces(Plain(a), b) <=> Replaces(a, b)
               /\ Replaces(a, Plain(b)) <=> Replaces(a, b)
BY DEF Replaces, Plain

LEMMA SetInserted ==
  ASSUME NEW s, IsSet(s), NEW a, IsAction(Plain(a)), NEW k \in 1..(Len(s) + 1),
         NEW t, IsStack(t), Inserted(t, s, k, a),
         \A i \in 1..Len(s) : ~Replaces(a, s[i]),
         \A i \in 1..Len(s) : i < k => Order(s[i]) <= Order(a),
         \A i \in 1..Len(s) : i >= k => Order(a) <= Order(s[i])
  PROVE  IsSet(t) /\ ActsIn(t) = WithAction(ActsIn(s), Plain(a))
<1> DEFINE n == Len(s)
<1>1. n \in Nat BY PushShape DEF IsSet
<1>2. Len(t) = n + 1 BY DEF Inserted
<1>3. \A i \in 1..(n + 1) : t[i] = IF i < k THEN s[i] ELSE IF i = k THEN a ELSE s[i - 1] BY DEF Inserted
<1>4. k \in 1..(n + 1) OBVIOUS
<1>5. /\ \A i \in 1..n : ~Replaces(a, s[i])
      /\ \A i \in 1..n : i < k => Order(s[i]) <= Order(a)
      /\ \A i \in 1..n : i >= k => Order(a) <= Order(s[i])
  OBVIOUS
<1>6. /\ \A i \in 1..n : IsAction(Plain(s[i]))
      /\ \A i, j \in 1..n : i < j => Order(s[i]) <= Order(s[j])
      /\ \A i, j \in 1..n : Replaces(s[i], s[j]) => i = j
  BY DEF IsSet
<1> HIDE DEF n
\* Where an element of t comes from.
<1> DEFINE from(i) == IF i < k THEN i ELSE i - 1
<1>7. \A i \in 1..(n + 1) : i = k \/ (i # k /\ from(i) \in 1..n /\ t[i] = s[from(i)]) BY <1>1, <1>3, <1>4
<1>8. t[k] = a BY <1>3, <1>4
<1>9. \A i \in 1..(n + 1) : IsAction(Plain(t[i])) BY <1>6, <1>7, <1>8
<1>10. ASSUME NEW i \in 1..(n + 1), NEW j \in 1..(n + 1), i < j PROVE Order(t[i]) <= Order(t[j])
  <2>1. CASE i = k
    <3>1. from(j) \in 1..n /\ t[j] = s[from(j)] /\ from(j) >= k BY <1>1, <1>4, <1>7, <1>10, <2>1
    <3>2. QED BY <1>5, <1>8, <2>1, <3>1
  <2>2. CASE j = k
    <3>1. from(i) \in 1..n /\ t[i] = s[from(i)] /\ from(i) < k BY <1>1, <1>4, <1>7, <1>10, <2>2
    <3>2. QED BY <1>5, <1>8, <2>2, <3>1
  <2>3. CASE i # k /\ j # k
    <3>1. /\ from(i) \in 1..n /\ t[i] = s[from(i)] /\ from(j) \in 1..n /\ t[j] = s[from(j)]
          /\ from(i) < from(j)
      BY <1>1, <1>4, <1>7, <1>10, <2>3
    <3> HIDE DEF from
    <3>2. QED BY <1>6, <3>1
  <2>4. QED BY <2>1, <2>2, <2>3
<1>11. ASSUME NEW i \in 1..(n + 1), NEW j \in 1..(n + 1), Replaces(t[i], t[j]) PROVE i = j
  <2>1. CASE i = k
    <3>1. j # k => from(j) \in 1..n /\ t[j] = s[from(j)] BY <1>7
    <3> HIDE DEF from
    <3>2. QED BY <1>5, <1>8, <1>11, <2>1, <3>1
  <2>2. CASE j = k
    <3>1. i # k => from(i) \in 1..n /\ t[i] = s[from(i)] BY <1>7
    <3> HIDE DEF from
    <3>2. Replaces(t[j], t[i]) BY <1>11, ReplacesIs
    <3>3. QED BY <1>5, <1>8, <2>2, <3>1, <3>2
  <2>3. CASE i # k /\ j # k
    <3>1. from(i) \in 1..n /\ t[i] = s[from(i)] /\ from(j) \in 1..n /\ t[j] = s[from(j)] BY <1>7, <2>3
    <3>2. from(i) = from(j) => i = j BY <1>4, <2>3
    <3> HIDE DEF from
    <3>3. QED BY <1>6, <1>11, <3>1, <3>2
  <2>4. QED BY <2>1, <2>2, <2>3
<1>12. IsSet(t) BY <1>2, <1>9, <1>10, <1>11 DEF IsSet
<1>13. ActsIn(t) = ActsIn(s) \cup {Plain(a)}
  <2>1. ASSUME NEW i \in 1..(n + 1) PROVE Plain(t[i]) \in ActsIn(s) \cup {Plain(a)}
    <3>1. CASE i = k BY <1>8, <3>1
    <3>2. CASE i # k
      <4>1. from(i) \in 1..n /\ t[i] = s[from(i)] BY <1>7, <3>2
      <4> HIDE DEF from
      <4>2. QED BY <4>1 DEF ActsIn, n
    <3>3. QED BY <3>1, <3>2
  <2>2. Plain(a) \in ActsIn(t) BY <1>2, <1>4, <1>8 DEF ActsIn
  <2>3. ASSUME NEW i \in 1..n PROVE Plain(s[i]) \in ActsIn(t)
    <3>1. CASE i < k
      <4>1. i \in 1..(n + 1) /\ t[i] = s[i] BY <1>1, <1>3, <3>1
      <4>2. QED BY <1>2, <4>1 DEF ActsIn
    <3>2. CASE ~(i < k)
      <4> DEFINE m == i + 1
      <4>1. m \in 1..(n + 1) /\ m - 1 = i /\ ~(m < k) /\ m # k BY <1>1, <1>4, <3>2
      <4> HIDE DEF m
      <4>2. t[m] = s[m - 1] BY <1>3, <4>1
      <4>3. QED BY <1>2, <4>1, <4>2 DEF ActsIn
    <3>3. QED BY <3>1, <3>2
  <2>4. QED BY <1>2, <2>1, <2>2, <2>3 DEF ActsIn, n
<1>14. \A b \in ActsIn(s) : ~Replaces(Plain(a), b) BY <1>5, ReplacesIs DEF ActsIn, n
<1>15. WithAction(ActsIn(s), Plain(a)) = ActsIn(s) \cup {Plain(a)} BY <1>14 DEF WithAction
<1>16. QED BY <1>12, <1>13, <1>15

LEMMA SetReplaced ==
  ASSUME NEW s, IsSet(s), NEW a, IsAction(Plain(a)), NEW k \in 1..Len(s), Replaces(a, s[k])
  PROVE  /\ IsSet([s EXCEPT ![k] = a])
         /\ ActsIn([s EXCEPT ![k] = a]) = WithAction(ActsIn(s), Plain(a))
<1> DEFINE n == Len(s)
           t == [s EXCEPT ![k] = a]
<1>1. /\ n \in Nat /\ IsStack(t) /\ Len(t) = n
      /\ t[k] = a /\ \A i \in 1..n : i # k => t[i] = s[i]
  <2>1. PICK S : s \in Seq(S) BY DEF IsSet, IsStack
  <2> DEFINE T == S \cup {a}
  <2>2. s \in Seq(T) /\ a \in T BY <2>1
  <2> HIDE DEF T
  <2>3. t \in Seq(T) /\ Len(t) = n /\ n \in Nat BY <2>2
  <2>4. t[k] = a /\ \A i \in 1..n : i # k => t[i] = s[i] BY <2>2
  <2>5. QED BY <2>3, <2>4 DEF IsStack
<1>2. /\ \A i \in 1..n : IsAction(Plain(s[i]))
      /\ \A i, j \in 1..n : i < j => Order(s[i]) <= Order(s[j])
      /\ \A i, j \in 1..n : Replaces(s[i], s[j]) => i = j
  BY DEF IsSet
<1>3. k \in 1..n OBVIOUS
<1>4. a.type = s[k].type BY ReplacesIs
<1> HIDE DEF n, t
<1>5. \A i \in 1..n : IsAction(Plain(t[i])) BY <1>1, <1>2
<1>6. Order(a) = Order(s[k]) BY <1>2, <1>3, <1>4, ActionOrder
<1>7. \A i \in 1..n : Order(t[i]) = Order(s[i]) BY <1>1, <1>3, <1>6
<1>8. ASSUME NEW i \in 1..n, NEW j \in 1..n, Replaces(t[i], t[j]) PROVE i = j
  <2>1. \A m \in 1..n : Replaces(t[m], s[m]) /\ Replaces(s[m], t[m])
    BY <1>1, ReplacesIs
  <2>2. Replaces(s[i], s[j]) BY <1>8, <2>1, ReplacesIs
  <2>3. QED BY <1>2, <2>2
<1>9. IsSet(t) BY <1>1, <1>2, <1>5, <1>7, <1>8 DEF IsSet
<1>10. ActsIn(t) = {b \in ActsIn(s) : ~Replaces(Plain(a), b)} \cup {Plain(a)}
  <2>1. \A i \in 1..n : i # k <=> ~Replaces(a, s[i])
    <3>1. Replaces(a, s[k]) /\ Replaces(s[k], a) BY ReplacesIs
    <3>2. \A i \in 1..n : Replaces(a, s[i]) => Replaces(s[k], s[i]) BY <3>1, ReplacesIs
    <3>3. QED BY <1>2, <1>3, <3>1, <3>2
  <2>2. ASSUME NEW i \in 1..n
        PROVE  Plain(t[i]) \in {b \in ActsIn(s) : ~Replaces(Plain(a), b)} \cup {Plain(a)}
    <3>1. CASE i = k BY <1>1, <3>1
    <3>2. CASE i # k
      <4>1. t[i] = s[i] /\ ~Replaces(a, s[i]) BY <1>1, <2>1, <3>2
      <4>2. Plain(s[i]) \in ActsIn(s) BY DEF ActsIn, n
      <4>3. ~Replaces(Plain(a), Plain(s[i])) BY <4>1, ReplacesIs
      <4>4. QED BY <4>1, <4>2, <4>3
    <3>3. QED BY <3>1, <3>2
  <2>3. Plain(a) \in ActsIn(t) BY <1>1, <1>3 DEF ActsIn
  <2>4. ASSUME NEW b \in ActsIn(s), ~Replaces(Plain(a), b) PROVE b \in ActsIn(t)
    <3>1. PICK i \in 1..n : b = Plain(s[i]) BY DEF ActsIn, n
    <3>2. ~Replaces(a, s[i]) BY <2>4, <3>1, ReplacesIs
    <3>3. t[i] = s[i] BY <1>1, <2>1, <3>2
    <3>4. QED BY <1>1, <3>1, <3>3 DEF ActsIn
  <2>5. ActsIn(t) = {Plain(t[i]) : i \in 1..n} BY <1>1 DEF ActsIn
  <2>6. QED BY <2>2, <2>3, <2>4, <2>5
<1>11. QED BY <1>9, <1>10 DEF WithAction, t

\* action_set_write_action: the set stays one and has the action.
LEMMA WriteActionIs ==
  ASSUME NEW s, IsSet(s), NEW a, IsAction(Plain(a))
  PROVE  IsSet(WriteAction(s, a)) /\ ActsIn(WriteAction(s, a)) = WithAction(ActsIn(s), Plain(a))
<1> DEFINE n == Len(s)
           hits == {i \in DOMAIN s : Replaces(a, s[i]) \/ Order(a) < Order(s[i])}
<1>1. PICK S : s \in Seq(S) BY DEF IsSet, IsStack
<1> DEFINE T == S \cup {a}
<1>2. s \in Seq(T) /\ a \in T /\ n \in Nat /\ DOMAIN s = 1..n BY <1>1
<1> HIDE DEF T
<1>3. Order(a) \in Nat /\ \A i \in 1..n : Order(s[i]) \in Nat BY ActionOrder DEF IsSet
<1>4. CASE hits = {}
  <2>1. WriteAction(s, a) = Append(s, a) BY <1>4 DEF WriteAction
  <2> DEFINE t == Append(s, a)
  <2>2. t \in Seq(T) /\ Len(t) = n + 1 /\ t[n + 1] = a /\ \A i \in 1..n : t[i] = s[i] BY <1>2
  <2> HIDE DEF t
  <2>3. Inserted(t, s, n + 1, a) BY <1>2, <2>2 DEF Inserted
  <2>4. \A i \in 1..n : ~Replaces(a, s[i]) /\ Order(s[i]) <= Order(a) BY <1>2, <1>3, <1>4
  <2>5. n + 1 \in 1..(n + 1) /\ IsStack(t) BY <1>2, <2>2 DEF IsStack
  <2> DEFINE k == n + 1
  <2>6. \A i \in 1..n : ~(i >= k) BY <1>2
  <2>7. k \in 1..(n + 1) /\ Inserted(t, s, k, a) BY <2>3, <2>5
  <2> HIDE DEF k
  <2>8. IsSet(t) /\ ActsIn(t) = WithAction(ActsIn(s), Plain(a)) BY <2>4, <2>5, <2>6, <2>7, SetInserted
  <2>9. QED BY <2>1, <2>8 DEF t
<1>5. CASE hits # {}
  <2> DEFINE k == CHOOSE j \in hits : \A i \in hits : j <= i
  <2>1. k \in hits /\ \A i \in hits : k <= i
    <3>1. hits \in SUBSET Nat BY <1>2
    <3>2. \E j \in hits : \A i \in hits : j <= i
      <4> HIDE DEF hits
      <4>1. PICK x \in hits : TRUE BY <1>5
      <4>2. QED BY <3>1, <4>1, LeastExists
    <3> HIDE DEF hits
    <3>3. QED BY <3>2
  <2>2. WriteAction(s, a) = IF Replaces(a, s[k]) THEN [s EXCEPT ![k] = a] ELSE InsertAt(s, k, a)
    BY <1>5 DEF WriteAction
  <2> HIDE DEF k
  <2>3. k \in 1..n BY <1>2, <2>1
  <2>4. CASE Replaces(a, s[k]) BY <2>2, <2>3, <2>4, SetReplaced
  <2>5. CASE ~Replaces(a, s[k])
    <3>1. Order(a) < Order(s[k]) BY <2>1, <2>5
    <3>2. \A i \in 1..n : i < k => ~Replaces(a, s[i]) /\ Order(s[i]) <= Order(a)
      <4>1. \A i \in 1..n : i < k => i \notin hits BY <2>1, <2>3
      <4>2. QED BY <1>2, <1>3, <4>1
    <3> HIDE DEF hits
    <3>3. \A i \in 1..n : i >= k => Order(a) < Order(s[i])
      <4>1. \A i \in 1..n : i >= k => i = k \/ k < i BY <2>3
      <4>2. \A i \in 1..n : k < i => Order(s[k]) <= Order(s[i]) BY <2>3 DEF IsSet
      <4>3. QED BY <1>3, <2>3, <3>1, <4>1, <4>2
    <3>4. ASSUME NEW i \in 1..n PROVE ~Replaces(a, s[i])
      <4>1. CASE i < k BY <3>2, <4>1
      <4>2. CASE ~(i < k)
        <5>1. Order(a) < Order(s[i]) BY <2>3, <3>3, <4>2
        <5>2. IsAction(Plain(s[i])) BY DEF IsSet
        <5>3. a.type # s[i].type BY <1>3, <5>1, <5>2, ActionOrder
        <5>4. QED BY <5>3, ReplacesIs
      <4>3. QED BY <4>1, <4>2
    <3> DEFINE t == InsertAt(s, k, a)
    <3>5. k \in 1..(n + 1) BY <1>2, <2>3
    <3>6. t \in Seq(T) /\ Inserted(t, s, k, a) BY <1>2, <3>5, InsertAtShape
    <3> HIDE DEF t
    <3>7. \A i \in 1..n : i >= k => Order(a) <= Order(s[i]) BY <1>3, <3>3
    <3>8. IsStack(t) BY <3>6 DEF IsStack
    <3>9. IsSet(t) /\ ActsIn(t) = WithAction(ActsIn(s), Plain(a))
      BY <3>2, <3>4, <3>5, <3>6, <3>7, <3>8, SetInserted
    <3>10. QED BY <2>2, <2>5, <3>9 DEF t
  <2>6. QED BY <2>4, <2>5
<1>6. QED BY <1>4, <1>5

\* The sets after each of the first n actions.
SetsAfter(f, s, acts, owner, n) ==
  f = [i \in 0..n |-> IF i = 0 THEN s ELSE WriteAction(f[i - 1], Owned(acts[i], owner))]

SetsUpto(f, S, acts, n) == f = [i \in 0..n |-> IF i = 0 THEN S ELSE WithAction(f[i - 1], acts[i])]

LEMMA SetsAfterExist ==
  ASSUME NEW s, NEW acts, NEW owner, NEW n \in Nat
  PROVE  \E f : SetsAfter(f, s, acts, owner, n)
<1> DEFINE K == {m \in Nat : ~\E f : SetsAfter(f, s, acts, owner, m)}
<1>1. SUFFICES ASSUME n \in K PROVE FALSE OBVIOUS
<1>2. PICK m \in K : \A j \in K : m <= j
  <2>1. K \in SUBSET Nat OBVIOUS
  <2> HIDE DEF K
  <2>2. QED BY <1>1, <2>1, LeastExists
<1>3. m \in Nat /\ ~\E f : SetsAfter(f, s, acts, owner, m) OBVIOUS
<1>4. CASE m = 0
  <2> DEFINE f == [i \in 0..0 |-> s]
  <2>1. f = [i \in 0..0 |-> IF i = 0 THEN s ELSE WriteAction(f[i - 1], Owned(acts[i], owner))] OBVIOUS
  <2> HIDE DEF f
  <2>2. QED BY <1>3, <1>4, <2>1 DEF SetsAfter
<1>5. CASE m # 0
  <2>1. m - 1 \in Nat /\ ~(m <= m - 1) BY <1>3, <1>5
  <2>2. PICK f : SetsAfter(f, s, acts, owner, m - 1) BY <1>2, <2>1
  <2> DEFINE step(h, i) == IF i = 0 THEN s ELSE WriteAction(h[i - 1], Owned(acts[i], owner))
             g == [i \in 0..m |-> step(f, i)]
  <2>3. f = [i \in 0..(m - 1) |-> step(f, i)] BY <2>2 DEF SetsAfter
  <2> HIDE DEF step
  <2>4. \A i \in 0..(m - 1) : i \in 0..m /\ g[i] = f[i]
    <3>1. \A i \in 0..(m - 1) : i \in 0..m BY <1>3
    <3>2. \A i \in 0..(m - 1) : f[i] = step(f, i) BY <2>3
    <3>3. QED BY <3>1, <3>2
  <2>5. \A i \in 0..m : step(f, i) = step(g, i)
    <3>1. \A i \in 0..m : i # 0 => i - 1 \in 0..(m - 1) BY <1>3
    <3> HIDE DEF g
    <3>2. QED BY <2>4, <3>1 DEF step
  <2>6. g = [i \in 0..m |-> step(g, i)]
    <3> DEFINE h == [i \in 0..m |-> step(g, i)]
    <3>1. \A i \in 0..m : g[i] = h[i] BY <2>5
    <3>2. QED BY <2>5
  <2> HIDE DEF g
  <2>7. SetsAfter(g, s, acts, owner, m) BY <2>6 DEF SetsAfter, step
  <2>8. QED BY <1>3, <2>7
<1>6. QED BY <1>4, <1>5

LEMMA SetsUptoExist ==
  ASSUME NEW S, NEW acts, NEW n \in Nat
  PROVE  \E f : SetsUpto(f, S, acts, n)
<1> DEFINE K == {m \in Nat : ~\E f : SetsUpto(f, S, acts, m)}
<1>1. SUFFICES ASSUME n \in K PROVE FALSE OBVIOUS
<1>2. PICK m \in K : \A j \in K : m <= j
  <2>1. K \in SUBSET Nat OBVIOUS
  <2> HIDE DEF K
  <2>2. QED BY <1>1, <2>1, LeastExists
<1>3. m \in Nat /\ ~\E f : SetsUpto(f, S, acts, m) OBVIOUS
<1>4. CASE m = 0
  <2> DEFINE f == [i \in 0..0 |-> S]
  <2>1. f = [i \in 0..0 |-> IF i = 0 THEN S ELSE WithAction(f[i - 1], acts[i])] OBVIOUS
  <2> HIDE DEF f
  <2>2. QED BY <1>3, <1>4, <2>1 DEF SetsUpto
<1>5. CASE m # 0
  <2>1. m - 1 \in Nat /\ ~(m <= m - 1) BY <1>3, <1>5
  <2>2. PICK f : SetsUpto(f, S, acts, m - 1) BY <1>2, <2>1
  <2> DEFINE step(h, i) == IF i = 0 THEN S ELSE WithAction(h[i - 1], acts[i])
             g == [i \in 0..m |-> step(f, i)]
  <2>3. f = [i \in 0..(m - 1) |-> step(f, i)] BY <2>2 DEF SetsUpto
  <2> HIDE DEF step
  <2>4. \A i \in 0..(m - 1) : i \in 0..m /\ g[i] = f[i]
    <3>1. \A i \in 0..(m - 1) : i \in 0..m BY <1>3
    <3>2. \A i \in 0..(m - 1) : f[i] = step(f, i) BY <2>3
    <3>3. QED BY <3>1, <3>2
  <2>5. \A i \in 0..m : step(f, i) = step(g, i)
    <3>1. \A i \in 0..m : i # 0 => i - 1 \in 0..(m - 1) BY <1>3
    <3> HIDE DEF g
    <3>2. QED BY <2>4, <3>1 DEF step
  <2>6. g = [i \in 0..m |-> step(g, i)]
    <3> DEFINE h == [i \in 0..m |-> step(g, i)]
    <3>1. \A i \in 0..m : g[i] = h[i] BY <2>5
    <3>2. QED BY <2>5
  <2> HIDE DEF g
  <2>7. SetsUpto(g, S, acts, m) BY <2>6 DEF SetsUpto, step
  <2>8. QED BY <1>3, <2>7
<1>6. QED BY <1>4, <1>5

\* action_set_write_actions: the set stays one and has all the actions.
LEMMA WriteActionsIs ==
  ASSUME NEW s, IsSet(s), NEW acts, IsList(acts), NEW owner
  PROVE  /\ IsSet(WriteActions(s, acts, owner))
         /\ ActsIn(WriteActions(s, acts, owner)) = Written(ActsIn(s), acts)
<1> DEFINE n == Len(acts)
           S == ActsIn(s)
           a == CHOOSE f : f = [i \in 0..n |-> IF i = 0 THEN s ELSE WriteAction(f[i - 1], Owned(acts[i], owner))]
           u == CHOOSE f : f = [i \in 0..n |-> IF i = 0 THEN S ELSE WithAction(f[i - 1], acts[i])]
<1>1. n \in Nat /\ \A i \in 1..n : IsAction(acts[i]) BY DEF IsList
<1>2. WriteActions(s, acts, owner) = a[n] BY DEF WriteActions
<1>3. Written(S, acts) = u[n] BY DEF Written
<1>4. SetsAfter(a, s, acts, owner, n)
  <2>1. \E f : SetsAfter(f, s, acts, owner, n) BY <1>1, SetsAfterExist
  <2>2. QED BY <2>1 DEF SetsAfter
<1>5. SetsUpto(u, S, acts, n)
  <2>1. \E f : SetsUpto(f, S, acts, n) BY <1>1, SetsUptoExist
  <2>2. QED BY <2>1 DEF SetsUpto
<1> HIDE DEF n, a, u
<1>6. \A i \in 0..n : a[i] = IF i = 0 THEN s ELSE WriteAction(a[i - 1], Owned(acts[i], owner))
  BY <1>4 DEF SetsAfter
<1>7. \A i \in 0..n : u[i] = IF i = 0 THEN S ELSE WithAction(u[i - 1], acts[i])
  BY <1>5 DEF SetsUpto
<1> DEFINE K == {i \in 0..n : ~(IsSet(a[i]) /\ ActsIn(a[i]) = u[i])}
<1>8. K = {}
  <2>1. SUFFICES ASSUME NEW x \in K PROVE FALSE OBVIOUS
  <2>2. PICK m \in K : \A j \in K : m <= j
    <3>1. K \in SUBSET Nat BY <1>1
    <3> HIDE DEF K
    <3>2. QED BY <2>1, <3>1, LeastExists
  <2>3. m \in 0..n /\ ~(IsSet(a[m]) /\ ActsIn(a[m]) = u[m]) OBVIOUS
  <2>4. m # 0
    <3>1. 0 \in 0..n BY <1>1
    <3>2. a[0] = s /\ u[0] = S BY <1>6, <1>7, <3>1
    <3>3. QED BY <2>3, <3>2
  <2>5. m - 1 \in 0..n /\ m \in 1..n /\ m - 1 \notin K BY <1>1, <2>2, <2>3, <2>4
  <2>6. IsSet(a[m - 1]) /\ ActsIn(a[m - 1]) = u[m - 1] BY <2>5
  <2>7. a[m] = WriteAction(a[m - 1], Owned(acts[m], owner)) BY <1>6, <2>3, <2>4
  <2>8. u[m] = WithAction(u[m - 1], acts[m]) BY <1>7, <2>3, <2>4
  <2>9. Plain(Owned(acts[m], owner)) = acts[m] /\ IsAction(acts[m]) BY <1>1, <2>5 DEF Plain, Owned, IsAction
  <2> DEFINE e == Owned(acts[m], owner)
  <2> HIDE DEF K, e
  <2>10. IsSet(WriteAction(a[m - 1], e)) /\ ActsIn(WriteAction(a[m - 1], e)) = WithAction(ActsIn(a[m - 1]), Plain(e))
    BY <2>6, <2>9, WriteActionIs DEF e
  <2>11. QED BY <2>3, <2>6, <2>7, <2>8, <2>9, <2>10 DEF e
<1>9. n \in 0..n BY <1>1
<1>10. IsSet(a[n]) /\ ActsIn(a[n]) = u[n] BY <1>8, <1>9
<1>11. QED BY <1>2, <1>3, <1>10

LEMMA EmptySet == IsSet(<<>>) /\ ActsIn(<<>>) = {}
BY Concatenation DEF IsSet, ActsIn

-----------------------------------------------------------------------------
(* The walk through the tables *)

LEMMA OthersAre ==
  ASSUME NEW w, NEW ps, NEW ps2, \A q \in Worked(w) : q # Head(w).pkt => ps2[q] = ps[q],
         Head(w).op = "list" => Kept(ps2[Head(w).pkt], ps[Head(w).pkt])
  PROVE  Others(w, ps2, ps)
BY DEF Others, Kept

\* The step puts nothing out, and f gives what the innermost call gives.
SameAs(w, ps, f, r, k) ==
  \A x, y : IsStack(x) /\ Gives(f, r, r.hdr, HdrAt(Tail(w), ps, 1), k, x, y) => TopGives(w, ps, k, x, y)

LEMMA StepQuiet ==
  ASSUME NEW w, NEW ps, NEW s, NEW goal, NEW k, At(w, ps, s, goal, k), NEW ps2, Others(w, ps2, ps),
         NEW f, Shape(f, ps2[f.pkt]), SameAs(w, ps, f, ps2[f.pkt], k), Head(w).op = "list" => f.op = "list"
  PROVE  Promised(Onto(f, Tail(w)), ps2, s, goal, k)
<1>1. IsStack(<<>>) /\ s \o <<>> = s BY Concatenation DEF At, Promised
<1>2. GoesOnAs(w, ps, f, ps2[f.pkt], <<>>, k) BY Concatenation DEF GoesOnAs, SameAs
<1>3. HdrAt(Tail(w), ps2, 1) = HdrAt(Tail(w), ps, 1) \/ f.op = "list" BY HdrBelow
<1>4. Promised(Onto(f, Tail(w)), ps2, s \o <<>>, goal, k) BY <1>1, <1>2, <1>3, StepOn
<1>5. QED BY <1>1, <1>4

\* The call returns and has put out nothing.
LEMMA PopQuiet ==
  ASSUME NEW w, NEW ps, NEW s, NEW goal, NEW k, At(w, ps, s, goal, k), NEW ps2, Others(w, ps2, ps),
         TopGives(w, ps, k, <<>>, HdrAt(Tail(w), ps2, 1))
  PROVE  Promised(Tail(w), ps2, s, goal, k)
<1>1. IsStack(<<>>) /\ s \o <<>> = s BY Concatenation DEF At, Promised
<1>2. Promised(Tail(w), ps2, s \o <<>>, goal, k) BY <1>1, StepPop
<1>3. QED BY <1>1, <1>2

LEMMA CtxIs ==
  ASSUME NEW r
  PROVE  /\ Ctx(r, network).flows = flows /\ Ctx(r, network).down = down
         /\ Ctx(r, network).in_port = r.in_port /\ Ctx(r, network).packet_out = r.packet_out
         /\ Ctx(r, network) = Context(r.in_port, r.packet_out)
BY DEF Ctx, Context, network

Now(goal) == At(work, pkts, sent, goal, network)

\* What there is to say of the innermost call and its packet.
LEMMA NowShape ==
  ASSUME NEW goal, Now(goal)
  PROVE  /\ Shape(Top, pkts[Top.pkt]) /\ IsStack(sent) /\ Top = Head(work) /\ Rest = Tail(work)
         /\ Top.pkt \in Worked(work) /\ Top.pkt \in DOMAIN pkts /\ IsPacket(pkts[Top.pkt])
         /\ Worked(work) \subseteq DOMAIN pkts /\ Agree(work, pkts)
BY TopShape DEF Now, Top, Rest, At, Agree, PacketsAgree

LEMMA DestroyedIs ==
  ASSUME NEW ps, NEW p
  PROVE  \A q \in DOMAIN ps : q # p => Destroyed(ps, p)[q] = ps[q]
BY DEF Destroyed, Freed

LEMMA WithIs ==
  ASSUME NEW ps, NEW p, NEW r
  PROVE  /\ With(ps, p, r)[p] = r /\ DOMAIN With(ps, p, r) = DOMAIN ps \cup {p}
         /\ \A q \in DOMAIN ps : q # p => With(ps, p, r)[q] = ps[q]
BY DEF With

LEMMA SavesIs ==
  ASSUME Agree(work, pkts), NEW ps, NEW p \in Worked(work), Worked(work) \subseteq DOMAIN ps,
         IsPacket(ps[p]), NEW qs \in Saves(ps, p)
  PROVE  /\ \A q \in Worked(work) : q # p => qs[q] = ps[q]
         /\ Kept(qs[p], ps[p]) /\ qs[p].hdr = ps[p].hdr /\ IsPacket(qs[p])
         /\ Worked(work) \subseteq DOMAIN qs
<1> DEFINE saved(s) == [s EXCEPT ![p].saved = TRUE]
<1>1. \/ qs = ps
      \/ qs = saved(ps)
      \/ \E x \in Saved \ Worked(work) : qs = saved(Freed(ps, x))
  BY WorkingIsInner DEF Saves, Agree
<1>2. ASSUME NEW s, Worked(work) \subseteq DOMAIN s, \A q \in Worked(work) : s[q] = ps[q], qs = saved(s)
      PROVE  /\ \A q \in Worked(work) : q # p => qs[q] = ps[q]
             /\ Kept(qs[p], ps[p]) /\ qs[p].hdr = ps[p].hdr /\ IsPacket(qs[p])
             /\ Worked(work) \subseteq DOMAIN qs
  BY <1>2 DEF Kept, IsPacket
<1>3. CASE qs = ps BY <1>3 DEF Kept
<1>4. CASE qs = saved(ps) BY <1>2, <1>4
<1>5. ASSUME NEW x \in Saved \ Worked(work), qs = saved(Freed(ps, x))
      PROVE  /\ \A q \in Worked(work) : q # p => qs[q] = ps[q]
             /\ Kept(qs[p], ps[p]) /\ qs[p].hdr = ps[p].hdr /\ IsPacket(qs[p])
             /\ Worked(work) \subseteq DOMAIN qs
  <2> DEFINE s == Freed(ps, x)
  <2>1. Worked(work) \subseteq DOMAIN s /\ \A q \in Worked(work) : s[q] = ps[q] BY DEF Freed
  <2>2. qs = saved(s) BY <1>5
  <2> HIDE DEF s, saved
  <2>3. QED BY <1>2, <2>1, <2>2
<1>6. QED BY <1>1, <1>3, <1>4, <1>5

LEMMA ProcessPromised ==
  ASSUME NEW goal, Now(goal), Process
  PROVE  Promised(work', pkts', sent', goal, network)
<1> DEFINE p == Top.pkt
           r == pkts[p]
           c == Ctx(r, network)
<1>1. /\ Top.op = "process" /\ Shape(Top, r) /\ IsStack(sent) /\ Top = Head(work) /\ Rest = Tail(work)
      /\ p \in Worked(work) /\ p \in DOMAIN pkts /\ IsPacket(r) /\ Worked(work) \subseteq DOMAIN pkts
      /\ Agree(work, pkts)
  BY NowShape DEF Process
<1>2. IsNew(r) BY <1>1 DEF Shape
<1>3. CASE r.hdr.ttl < 1
  <2> DEFINE x0 == <<<<OFPP_CONTROLLER, r.hdr>>>>
  <2>1. PICK ps \in Saves(pkts, p) : pkts' = Destroyed(ps, p) BY <1>3 DEF Process
  <2>2. sent' = sent \o x0 /\ work' = Rest /\ IsStack(x0)
    <3>1. sent' = Append(sent, <<OFPP_CONTROLLER, r.hdr>>) /\ work' = Rest BY <1>3 DEF Process
    <3>2. PICK S : sent \in Seq(S) BY <1>1 DEF IsStack
    <3> DEFINE e == <<OFPP_CONTROLLER, r.hdr>>
               T == S \cup {e}
    <3> HIDE DEF e
    <3>3. sent \in Seq(T) /\ e \in T BY <3>2
    <3> HIDE DEF T
    <3>4. Append(sent, e) = sent \o <<e>> BY <3>3
    <3>5. QED BY <3>1, <3>4, Concatenation DEF e
  <2>3. \A q \in Worked(work) : q # p => pkts'[q] = pkts[q]
    <3>1. \A q \in Worked(work) : q # p => ps[q] = pkts[q] /\ q \in DOMAIN ps BY <1>1, <2>1, SavesIs
    <3>2. QED BY <2>1, <3>1, DestroyedIs
  <2>4. Others(work, pkts', pkts) BY <1>1, <2>3, OthersAre
  <2>5. TopGives(work, pkts, network, x0, HdrAt(Tail(work), pkts, 1))
    <3>1. x0 \in TablesOutcomes(r.hdr, c) BY <1>3 DEF TablesOutcomes
    <3> HIDE DEF x0
    <3>2. QED BY <1>1, <3>1 DEF TopGives, Gives
  <2>6. HdrAt(Tail(work), pkts', 1) = HdrAt(Tail(work), pkts, 1) BY <1>1, <2>4, HdrBelow DEF Now
  <2> HIDE DEF x0
  <2>7. Promised(Tail(work), pkts', sent \o x0, goal, network) BY <2>2, <2>4, <2>5, <2>6, StepPop DEF Now
  <2>8. QED BY <1>1, <2>2, <2>7
<1>4. CASE ~(r.hdr.ttl < 1)
  <2> DEFINE f == [op |-> "table", pkt |-> p, table |-> 0]
  <2>1. work' = Onto(f, Rest) /\ pkts' = pkts /\ sent' = sent BY <1>4 DEF Process, Onto
  <2>2. Others(work, pkts, pkts) BY OthersAre DEF Kept
  <2>3. Shape(f, r)
    <3>1. NoneNoted(r) /\ IsSet(r.set) BY <1>2, EmptySet DEF IsNew, NoneNoted
    <3>2. 0 \in Tables BY PortsAssumption DEF Tables
    <3>3. QED BY <3>1, <3>2 DEF Shape
  <2>4. SameAs(work, pkts, f, r, network)
    <3>1. ASSUME NEW x, NEW y, Gives(f, r, r.hdr, HdrAt(Tail(work), pkts, 1), network, x, y)
          PROVE  TopGives(work, pkts, network, x, y)
      <4>1. x \in TableOutcomes(r.hdr, c, ActsIn(r.set), 0) /\ y = HdrAt(Tail(work), pkts, 1) BY <3>1 DEF Gives
      <4>2. x \in TablesOutcomes(r.hdr, c) BY <1>2, <1>4, <4>1, EmptySet DEF TablesOutcomes, IsNew
      <4>3. QED BY <1>1, <4>1, <4>2 DEF TopGives, Gives
    <3>2. QED BY <3>1 DEF SameAs
  <2>5. f.pkt = p OBVIOUS
  <2> HIDE DEF f
  <2>6. Promised(Onto(f, Tail(work)), pkts, sent, goal, network)
    BY <1>1, <2>2, <2>3, <2>4, <2>5, StepQuiet DEF Now
  <2>7. QED BY <1>1, <2>1, <2>6
<1>5. QED BY <1>3, <1>4

\* The entries of the tables have the instructions that flow-mods brought.
FlowsAgree == \A t \in Tables : flows[t] = NoEntry \/ \A inst \in flows[t] : IsInstruction(inst)

LEMMA TablePromised ==
  ASSUME Rules, FlowsAgree, NEW goal, Now(goal), Table
  PROVE  Promised(work', pkts', sent', goal, network)
<1> DEFINE p == Top.pkt
           r == pkts[p]
           c == Ctx(r, network)
           S == ActsIn(r.set)
<1>1. /\ Top.op = "table" /\ Shape(Top, r) /\ IsStack(sent) /\ Top = Head(work) /\ Rest = Tail(work)
      /\ p \in Worked(work) /\ p \in DOMAIN pkts /\ IsPacket(r) /\ Worked(work) \subseteq DOMAIN pkts
      /\ Agree(work, pkts)
  BY NowShape DEF Table
<1>2. NoneNoted(r) /\ IsSet(r.set) /\ Top.table \in Tables BY <1>1 DEF Shape
<1>3. TableRule(r.hdr, c, S, Top.table) BY DEF Rules
<1>4. c.flows[Top.table] = flows[Top.table] BY CtxIs
<1> HIDE DEF S
<1>5. CASE flows[Top.table] = NoEntry
  <2>1. work' = Rest /\ pkts' = Destroyed(pkts, p) /\ sent' = sent BY <1>5 DEF Table
  <2>2. Others(work, pkts', pkts) BY <1>1, <2>1, DestroyedIs, OthersAre
  <2>3. <<>> \in TableOutcomes(r.hdr, c, S, Top.table) BY <1>3, <1>4, <1>5 DEF TableRule
  <2>4. TopGives(work, pkts, network, <<>>, HdrAt(Tail(work), pkts, 1))
    BY <1>1, <2>3 DEF TopGives, Gives, S
  <2>5. HdrAt(Tail(work), pkts', 1) = HdrAt(Tail(work), pkts, 1) BY <1>1, <2>2, HdrBelow DEF Now
  <2>6. Promised(Tail(work), pkts', sent, goal, network) BY <2>2, <2>4, <2>5, PopQuiet DEF Now
  <2>7. QED BY <1>1, <2>1, <2>6
<1>6. CASE flows[Top.table] # NoEntry
  <2> DEFINE f == [op |-> "insts", pkt |-> p, table |-> Top.table, insts |-> flows[Top.table], next |-> NoTable]
  <2>1. work' = Onto(f, Rest) /\ pkts' = pkts /\ sent' = sent BY <1>6 DEF Table, Onto, NextTable
  <2>2. Others(work, pkts, pkts) BY OthersAre DEF Kept
  <2>3. Shape(f, r)
    <3>1. \A inst \in flows[Top.table] : IsInstruction(inst) BY <1>2, <1>6 DEF FlowsAgree
    <3>2. QED BY <1>2, <3>1 DEF Shape
  <2>4. InstOutcomes(r.hdr, c, S, flows[Top.table], NoTable) \subseteq TableOutcomes(r.hdr, c, S, Top.table)
    BY <1>3, <1>4, <1>6 DEF TableRule
  <2>5. SameAs(work, pkts, f, r, network)
    <3>1. ASSUME NEW x, NEW y, Gives(f, r, r.hdr, HdrAt(Tail(work), pkts, 1), network, x, y)
          PROVE  TopGives(work, pkts, network, x, y)
      <4>1. x \in InstOutcomes(r.hdr, c, S, flows[Top.table], NoTable) /\ y = HdrAt(Tail(work), pkts, 1)
        BY <3>1 DEF Gives, S
      <4>2. QED BY <1>1, <2>4, <4>1 DEF TopGives, Gives, S
    <3>2. QED BY <3>1 DEF SameAs
  <2>6. f.pkt = p OBVIOUS
  <2> HIDE DEF f
  <2>7. Promised(Onto(f, Tail(work)), pkts, sent, goal, network)
    BY <1>1, <2>2, <2>3, <2>5, <2>6, StepQuiet DEF Now
  <2>8. QED BY <1>1, <2>1, <2>7
<1>7. QED BY <1>5, <1>6

-----------------------------------------------------------------------------
(* Instructions *)

LEMMA InOutcomes ==
  ASSUME NEW A, NEW B, NEW x \in A, NEW y \in B
  PROVE  x \o y \in Outcomes(A, B)
<1> DEFINE cat(v, w) == v \o w
           z == x \o y
<1>1. Outcomes(A, B) = {cat(v, w) : v \in A, w \in B} BY DEF Outcomes
<1>2. cat(x, y) = z OBVIOUS
<1> HIDE DEF cat, z
<1>3. cat(x, y) \in {cat(v, w) : v \in A, w \in B} OBVIOUS
<1>4. z \in Outcomes(A, B) BY <1>1, <1>2, <1>3
<1>5. QED BY <1>4 DEF z

LEMMA InstsDonePromised ==
  ASSUME Rules, NEW goal, Now(goal), InstsDone
  PROVE  Promised(work', pkts', sent', goal, network)
<1> DEFINE p == Top.pkt
           r == pkts[p]
           c == Ctx(r, network)
           S == ActsIn(r.set)
           f == IF Top.next = NoTable THEN [op |-> "set", pkt |-> p] ELSE [op |-> "table", pkt |-> p, table |-> Top.next]
<1>1. /\ Top.op = "insts" /\ Top.insts = {} /\ Shape(Top, r) /\ Top = Head(work) /\ Rest = Tail(work)
  BY NowShape DEF InstsDone
<1>2. NoneNoted(r) /\ IsSet(r.set) /\ Top.next \in Tables \cup {NoTable} BY <1>1 DEF Shape
<1>3. InstsOverRule(r.hdr, c, S, Top.next) BY DEF Rules
<1>4. work' = Onto(f, Rest) /\ pkts' = pkts /\ sent' = sent BY DEF InstsDone, Onto
<1>5. Others(work, pkts, pkts) BY OthersAre DEF Kept
<1>6. Shape(f, r)
  <2>1. CASE Top.next = NoTable
    <3>1. f = [op |-> "set", pkt |-> p] BY <2>1
    <3>2. r.out_group = OFPG_ANY BY <1>2 DEF NoneNoted
    <3> HIDE DEF f
    <3>3. QED BY <1>2, <3>1, <3>2 DEF Shape
  <2>2. CASE Top.next # NoTable
    <3>1. f = [op |-> "table", pkt |-> p, table |-> Top.next] /\ Top.next \in Tables BY <1>2, <2>2
    <3> HIDE DEF f
    <3>2. QED BY <1>2, <3>1 DEF Shape
  <2>3. QED BY <2>1, <2>2
<1>7. Left(r) = S BY <1>2 DEF Left, Noted, NoneNoted
<1> HIDE DEF S
<1>8. SameAs(work, pkts, f, r, network)
  <2>1. ASSUME NEW x, NEW y, Gives(f, r, r.hdr, HdrAt(Tail(work), pkts, 1), network, x, y)
        PROVE  TopGives(work, pkts, network, x, y)
    <3>1. y = HdrAt(Tail(work), pkts, 1) /\ x \in InstOutcomes(r.hdr, c, S, {}, Top.next)
      <4>1. CASE Top.next = NoTable
        <5>1. f = [op |-> "set", pkt |-> p] BY <4>1
        <5> HIDE DEF f
        <5>2. y = HdrAt(Tail(work), pkts, 1) /\ x \in SetOutcomes(r.hdr, c, S) BY <1>7, <2>1, <5>1 DEF Gives
        <5>3. QED BY <1>3, <4>1, <5>2 DEF InstsOverRule
      <4>2. CASE Top.next # NoTable
        <5>1. f = [op |-> "table", pkt |-> p, table |-> Top.next] BY <4>2
        <5> HIDE DEF f
        <5>2. y = HdrAt(Tail(work), pkts, 1) /\ x \in TableOutcomes(r.hdr, c, S, Top.next)
          BY <2>1, <5>1 DEF Gives, S
        <5>3. QED BY <1>3, <4>2, <5>2 DEF InstsOverRule
      <4>3. QED BY <4>1, <4>2
    <3>2. QED BY <1>1, <3>1 DEF TopGives, Gives, S
  <2>2. QED BY <2>1 DEF SameAs
<1>9. f.pkt = p /\ (Head(work).op = "list" => f.op = "list") BY <1>1
<1> HIDE DEF f
<1>10. Promised(Onto(f, Tail(work)), pkts, sent, goal, network) BY <1>5, <1>6, <1>8, <1>9, StepQuiet DEF Now
<1>11. QED BY <1>1, <1>4, <1>10

\* The instruction that comes next is the first of those that are left.
LEMMA InstIsFirst ==
  ASSUME Top.insts # {}, \A inst \in Top.insts : IsInstruction(inst)
  PROVE  Inst \in FirstInsts(Top.insts) /\ IsInstruction(Inst)
<1> DEFINE I == Top.insts
           K == {InstRank(inst) : inst \in I}
<1>1. ASSUME NEW inst, IsInstruction(inst) PROVE InstRank(inst) = Stage[inst.type] /\ InstRank(inst) \in Nat
  <2>1. DOMAIN InstOrder = 1..5 /\ InstOrder[1] = "meter" /\ InstOrder[2] = "apply" /\ InstOrder[3] = "clear"
        /\ InstOrder[4] = "write" /\ InstOrder[5] = "goto"
    BY DEF InstOrder
  <2>2. inst.type \in {"meter", "apply", "clear", "write", "goto"}
    <3>1. PICK i \in DOMAIN InstOrder : inst.type = InstOrder[i] BY <1>1 DEF IsInstruction, Range
    <3>2. i \in {1, 2, 3, 4, 5} BY <2>1
    <3>3. QED BY <2>1, <3>1, <3>2
  <2>3. \A i \in 1..5 : InstOrder[i] = inst.type => i = Stage[inst.type] BY <2>1 DEF Stage
  <2>4. Stage[inst.type] \in 1..5 /\ InstOrder[Stage[inst.type]] = inst.type BY <2>1, <2>2 DEF Stage
  <2>5. InstRank(inst) \in 1..5 /\ InstOrder[InstRank(inst)] = inst.type BY <2>1, <2>4 DEF InstRank
  <2>6. QED BY <2>3, <2>5
<1>2. PICK least \in I : \A other \in I : InstRank(least) <= InstRank(other)
  <2>1. PICK x \in I : TRUE OBVIOUS
  <2>2. K \in SUBSET Nat /\ InstRank(x) \in K BY <1>1
  <2>3. PICK m \in K : \A n \in K : m <= n
    <3> HIDE DEF K
    <3>1. QED BY <2>2, LeastExists
  <2>4. QED BY <2>3
<1>3. Inst \in I /\ \A other \in I : InstRank(Inst) <= InstRank(other) BY <1>2 DEF Inst
<1>4. QED BY <1>1, <1>3 DEF FirstInsts

\* The call of the instructions with one of them less.
LEMMA NextInstIs ==
  ASSUME NEW goal, Now(goal), Top.op = "insts", Top.insts # {}
  PROVE  /\ Top = Head(work) /\ Rest = Tail(work) /\ Top.pkt \in DOMAIN pkts /\ IsPacket(pkts[Top.pkt])
         /\ Worked(work) \subseteq DOMAIN pkts
         /\ NoneNoted(pkts[Top.pkt]) /\ IsSet(pkts[Top.pkt].set)
         /\ NextInst.op = "insts" /\ NextInst.pkt = Top.pkt /\ NextInst.next = Top.next
         /\ NextInst.insts = Top.insts \ {Inst}
         /\ Inst \in FirstInsts(Top.insts) /\ IsInstruction(Inst)
         /\ {"insts", "next"} \subseteq DOMAIN NextInst
         /\ \A r : NoneNoted(r) /\ IsSet(r.set) => Shape(NextInst, r)
         /\ (Rules => \A h, c, S : InstRule(h, c, S, Top.insts, Top.next, Inst))
<1> DEFINE p == Top.pkt
<1>1. /\ Shape(Top, pkts[p]) /\ Top = Head(work) /\ Rest = Tail(work) /\ Worked(work) \subseteq DOMAIN pkts
      /\ p \in DOMAIN pkts /\ IsPacket(pkts[p])
  BY NowShape
<1>2. /\ {"insts", "next"} \subseteq DOMAIN Top /\ NoneNoted(pkts[p]) /\ IsSet(pkts[p].set)
      /\ Top.next \in Tables \cup {NoTable} /\ \A inst \in Top.insts : IsInstruction(inst)
  BY <1>1 DEF Shape
<1>3. Inst \in FirstInsts(Top.insts) /\ IsInstruction(Inst) BY <1>2, InstIsFirst
<1>4. /\ NextInst.op = "insts" /\ NextInst.pkt = p /\ NextInst.next = Top.next
      /\ NextInst.insts = Top.insts \ {Inst} /\ {"insts", "next"} \subseteq DOMAIN NextInst
  BY <1>2 DEF NextInst
<1> DEFINE f == NextInst
<1> HIDE DEF f
<1>5. \A r : NoneNoted(r) /\ IsSet(r.set) => Shape(f, r) BY <1>2, <1>4 DEF Shape, f
<1>6. Rules => \A h, c, S : InstRule(h, c, S, Top.insts, Top.next, Inst)
  <2> SUFFICES ASSUME Rules, NEW h, NEW c, NEW S PROVE InstRule(h, c, S, Top.insts, Top.next, Inst)
    OBVIOUS
  <2> DEFINE I == Top.insts
             n == Top.next
             i == Inst
  <2>1. i \in FirstInsts(I) BY <1>3
  <2> HIDE DEF I, n, i
  <2>2. InstRule(h, c, S, I, n, i) BY <2>1 DEF Rules
  <2>3. QED BY <2>2 DEF I, n, i
<1>7. QED BY <1>1, <1>2, <1>3, <1>4, <1>5, <1>6 DEF f

\* An instruction that puts nothing out, after which the packet is r.
LEMMA InstQuiet ==
  ASSUME NEW goal, Now(goal), Top.op = "insts",
         NEW r, pkts'[Top.pkt] = r, \A q \in Worked(work) : q # Top.pkt => pkts'[q] = pkts[q],
         NoneNoted(r), IsSet(r.set),
         r.in_port = pkts[Top.pkt].in_port, r.packet_out = pkts[Top.pkt].packet_out,
         NEW f, f.op = "insts", f.pkt = Top.pkt, Shape(f, r), work' = Onto(f, Rest), sent' = sent,
         InstOutcomes(r.hdr, Ctx(pkts[Top.pkt], network), ActsIn(r.set), f.insts, f.next)
           \subseteq InstOutcomes(pkts[Top.pkt].hdr, Ctx(pkts[Top.pkt], network), ActsIn(pkts[Top.pkt].set), Top.insts, Top.next)
  PROVE  Promised(work', pkts', sent', goal, network)
<1> DEFINE p == Top.pkt
<1>1. Top = Head(work) /\ Rest = Tail(work) /\ Worked(work) \subseteq DOMAIN pkts BY NowShape
<1>2. pkts'[p] = r OBVIOUS
<1>3. Others(work, pkts', pkts) BY <1>1, OthersAre
<1>4. Ctx(r, network) = Ctx(pkts[p], network) BY DEF Ctx
<1>5. SameAs(work, pkts, f, r, network)
  <2>1. ASSUME NEW x, NEW y, Gives(f, r, r.hdr, HdrAt(Tail(work), pkts, 1), network, x, y)
        PROVE  TopGives(work, pkts, network, x, y)
    <3>1. /\ y = HdrAt(Tail(work), pkts, 1)
          /\ x \in InstOutcomes(pkts[p].hdr, Ctx(pkts[p], network), ActsIn(pkts[p].set), Top.insts, Top.next)
      BY <1>4, <2>1 DEF Gives
    <3>2. QED BY <1>1, <3>1 DEF TopGives, Gives
  <2>2. QED BY <2>1 DEF SameAs
<1>6. Promised(Onto(f, Tail(work)), pkts', sent, goal, network) BY <1>1, <1>2, <1>3, <1>5, StepQuiet DEF Now
<1>7. QED BY <1>1, <1>6

LEMMA ClearPromised ==
  ASSUME Rules, NEW goal, Now(goal), ClearActions
  PROVE  Promised(work', pkts', sent', goal, network)
<1> DEFINE p == Top.pkt
           r == [pkts[p] EXCEPT !.set = <<>>]
           c == Ctx(pkts[p], network)
           S == ActsIn(pkts[p].set)
           f == NextInst
<1>1. Top.op = "insts" /\ Top.insts # {} /\ Inst.type = "clear" BY DEF ClearActions, AtInst
<1>2. /\ p \in DOMAIN pkts /\ IsPacket(pkts[p]) /\ NoneNoted(pkts[p]) /\ f.op = "insts" /\ f.pkt = p
      /\ f.next = Top.next /\ f.insts = Top.insts \ {Inst} /\ Worked(work) \subseteq DOMAIN pkts
      /\ \A q : NoneNoted(q) /\ IsSet(q.set) => Shape(f, q)
      /\ InstRule(pkts[p].hdr, c, S, Top.insts, Top.next, Inst)
  BY <1>1, NextInstIs
<1>3. /\ pkts'[p] = r /\ \A q \in Worked(work) : q # p => pkts'[q] = pkts[q]
      /\ work' = Onto(f, Rest) /\ sent' = sent
  BY <1>2 DEF ClearActions, Onto
<1>4. /\ r.set = <<>> /\ r.hdr = pkts[p].hdr /\ r.in_port = pkts[p].in_port /\ r.packet_out = pkts[p].packet_out
      /\ r.out_port = pkts[p].out_port /\ r.out_group = pkts[p].out_group
  BY <1>2 DEF IsPacket
<1> HIDE DEF r, f, S
<1>5. NoneNoted(r) /\ IsSet(r.set) /\ ActsIn(r.set) = {} BY <1>2, <1>4, EmptySet DEF NoneNoted
<1>6. InstOutcomes(pkts[p].hdr, c, {}, Top.insts \ {Inst}, Top.next)
        \subseteq InstOutcomes(pkts[p].hdr, c, S, Top.insts, Top.next)
  BY <1>1, <1>2 DEF InstRule
<1>7. Shape(f, r) BY <1>2, <1>5
<1>8. QED BY <1>1, <1>2, <1>3, <1>4, <1>5, <1>6, <1>7, InstQuiet DEF S

LEMMA WritePromised ==
  ASSUME Rules, NEW goal, Now(goal), WriteActionsInst
  PROVE  Promised(work', pkts', sent', goal, network)
<1> DEFINE p == Top.pkt
           set == WriteActions(pkts[p].set, Inst.acts, Top.table)
           r == [pkts[p] EXCEPT !.set = WriteActions(@, Inst.acts, Top.table)]
           c == Ctx(pkts[p], network)
           S == ActsIn(pkts[p].set)
           f == NextInst
<1>1. Top.op = "insts" /\ Top.insts # {} /\ Inst.type = "write" BY DEF WriteActionsInst, AtInst
<1>2. /\ p \in DOMAIN pkts /\ IsPacket(pkts[p]) /\ NoneNoted(pkts[p]) /\ f.op = "insts" /\ f.pkt = p
      /\ f.next = Top.next /\ f.insts = Top.insts \ {Inst} /\ IsSet(pkts[p].set) /\ IsInstruction(Inst)
      /\ Worked(work) \subseteq DOMAIN pkts
      /\ \A q : NoneNoted(q) /\ IsSet(q.set) => Shape(f, q)
      /\ InstRule(pkts[p].hdr, c, S, Top.insts, Top.next, Inst)
  BY <1>1, NextInstIs
<1>3. /\ pkts'[p] = r /\ \A q \in Worked(work) : q # p => pkts'[q] = pkts[q]
      /\ work' = Onto(f, Rest) /\ sent' = sent
  BY <1>2 DEF WriteActionsInst, Onto
<1>4. /\ r.set = set /\ r.hdr = pkts[p].hdr /\ r.in_port = pkts[p].in_port /\ r.packet_out = pkts[p].packet_out
      /\ r.out_port = pkts[p].out_port /\ r.out_group = pkts[p].out_group
  BY <1>2 DEF IsPacket
<1>5. IsList(Inst.acts) BY <1>1, <1>2 DEF IsInstruction
<1>6. IsSet(set) /\ ActsIn(set) = Written(S, Inst.acts) BY <1>2, <1>5, WriteActionsIs
<1> HIDE DEF r, f, S, set
<1>7. NoneNoted(r) /\ IsSet(r.set) /\ ActsIn(r.set) = Written(S, Inst.acts) BY <1>2, <1>4, <1>6 DEF NoneNoted
<1>8. InstOutcomes(pkts[p].hdr, c, Written(S, Inst.acts), Top.insts \ {Inst}, Top.next)
        \subseteq InstOutcomes(pkts[p].hdr, c, S, Top.insts, Top.next)
  BY <1>1, <1>2 DEF InstRule
<1>9. Shape(f, r) BY <1>2, <1>7
<1>10. QED BY <1>1, <1>2, <1>3, <1>4, <1>7, <1>8, <1>9, InstQuiet DEF S

LEMMA GotoPromised ==
  ASSUME Rules, NEW goal, Now(goal), GotoTable
  PROVE  Promised(work', pkts', sent', goal, network)
<1> DEFINE p == Top.pkt
           r == pkts[p]
           c == Ctx(r, network)
           S == ActsIn(r.set)
           g == NextInst
           f == [NextInst EXCEPT !.next = Inst.table]
<1>1. Top.op = "insts" /\ Top.insts # {} /\ Inst.type = "goto" BY DEF GotoTable, AtInst
<1>2. /\ p \in DOMAIN pkts /\ IsPacket(r) /\ NoneNoted(r) /\ g.op = "insts" /\ g.pkt = p
      /\ g.insts = Top.insts \ {Inst} /\ IsSet(r.set) /\ IsInstruction(Inst)
      /\ {"insts", "next"} \subseteq DOMAIN g /\ Shape(g, r)
      /\ InstRule(r.hdr, c, S, Top.insts, Top.next, Inst)
  BY <1>1, NextInstIs
<1>3. pkts' = pkts /\ work' = Onto(f, Rest) /\ sent' = sent BY DEF GotoTable, Onto
<1>4. /\ f.op = "insts" /\ f.pkt = p /\ f.insts = Top.insts \ {Inst} /\ f.next = Inst.table
      /\ {"insts", "next"} \subseteq DOMAIN f
  BY <1>2
<1>5. Inst.table \in Tables BY <1>1, <1>2 DEF IsInstruction
<1> HIDE DEF g, f, S
<1>6. \A inst \in Top.insts \ {Inst} : IsInstruction(inst) BY <1>2 DEF Shape
<1>7. Shape(f, r) BY <1>2, <1>4, <1>5, <1>6 DEF Shape
<1>8. InstOutcomes(r.hdr, c, S, Top.insts \ {Inst}, Inst.table) \subseteq InstOutcomes(r.hdr, c, S, Top.insts, Top.next)
  BY <1>1, <1>2 DEF InstRule
<1>9. QED BY <1>1, <1>2, <1>3, <1>4, <1>7, <1>8, InstQuiet DEF S

LEMMA MeterPromised ==
  ASSUME Rules, NEW goal, Now(goal), Meter
  PROVE  Promised(work', pkts', sent', goal, network)
<1> DEFINE p == Top.pkt
           c == Ctx(pkts[p], network)
           S == ActsIn(pkts[p].set)
           f == NextInst
           bands == {Bands[i].type : i \in DOMAIN Bands}
<1>1. Top.op = "insts" /\ Top.insts # {} /\ Inst.type = "meter" BY DEF Meter, AtInst
<1>2. /\ p \in DOMAIN pkts /\ IsPacket(pkts[p]) /\ NoneNoted(pkts[p]) /\ f.op = "insts" /\ f.pkt = p
      /\ f.next = Top.next /\ f.insts = Top.insts \ {Inst} /\ IsSet(pkts[p].set)
      /\ Shape(f, pkts[p])
      /\ \A q : NoneNoted(q) /\ IsSet(q.set) => Shape(f, q)
      /\ InstRule(pkts[p].hdr, c, S, Top.insts, Top.next, Inst)
      /\ Worked(work) \subseteq DOMAIN pkts /\ Top = Head(work) /\ Rest = Tail(work)
  BY <1>1, NextInstIs
<1>3. MeterRule(pkts[p].hdr, c, S, Top.insts, Top.next, Inst) BY <1>1, <1>2 DEF InstRule
<1>4. sent' = sent BY DEF Meter
<1>5. Exceeded # {} => Chosen \in DOMAIN Bands /\ Bands[Chosen].type \in bands
                       /\ Bands[Chosen].type \in {"drop", "remark"}
  <2>1. Exceeded # {} => Chosen \in DOMAIN Bands BY ChosenExists DEF Exceeded
  <2>2. QED BY <2>1, BandTypes
<1> HIDE DEF f, S, bands
<1>6. CASE Dropped
  <2>1. work' = Rest /\ pkts' = Destroyed(pkts, p) BY <1>6 DEF Meter
  <2>2. Others(work, pkts', pkts) BY <1>1, <1>2, <2>1, DestroyedIs, OthersAre
  <2>3. "drop" \in bands BY <1>5, <1>6 DEF Dropped
  <2>4. <<>> \in InstOutcomes(pkts[p].hdr, c, S, Top.insts, Top.next) BY <1>3, <2>3 DEF MeterRule, bands
  <2>5. TopGives(work, pkts, network, <<>>, HdrAt(Tail(work), pkts, 1))
    BY <1>1, <1>2, <2>4 DEF TopGives, Gives, S
  <2>6. HdrAt(Tail(work), pkts', 1) = HdrAt(Tail(work), pkts, 1) BY <1>1, <1>2, <2>2, HdrBelow DEF Now
  <2>7. Promised(Tail(work), pkts', sent, goal, network) BY <2>2, <2>5, <2>6, PopQuiet DEF Now
  <2>8. QED BY <1>2, <1>4, <2>1, <2>7
<1>7. CASE ~Dropped
  <2>1. work' = Onto(f, Rest) BY <1>7 DEF Meter, f, Onto
  <2>2. CASE Exceeded = {}
    <3>1. pkts' = pkts BY <1>7, <2>2 DEF Meter
    <3>2. InstOutcomes(pkts[p].hdr, c, S, Top.insts \ {Inst}, Top.next)
            \subseteq InstOutcomes(pkts[p].hdr, c, S, Top.insts, Top.next)
      BY <1>3 DEF MeterRule
    <3>3. QED BY <1>1, <1>2, <1>4, <2>1, <3>1, <3>2, InstQuiet DEF S
  <2>3. CASE Exceeded # {}
    <3> DEFINE r == [pkts[p] EXCEPT !.hdr = Modify(@, Remark)]
    <3>1. pkts'[p] = r /\ \A q \in Worked(work) : q # p => pkts'[q] = pkts[q] BY <1>2, <1>7, <2>3 DEF Meter
    <3>2. "remark" \in bands BY <1>5, <1>7, <2>3 DEF Dropped
    <3>3. InstOutcomes(Modify(pkts[p].hdr, Remark), c, S, Top.insts \ {Inst}, Top.next)
            \subseteq InstOutcomes(pkts[p].hdr, c, S, Top.insts, Top.next)
      BY <1>3, <3>2 DEF MeterRule, bands
    <3>4. /\ r.set = pkts[p].set /\ r.hdr = Modify(pkts[p].hdr, Remark) /\ r.in_port = pkts[p].in_port
          /\ r.packet_out = pkts[p].packet_out /\ r.out_port = pkts[p].out_port /\ r.out_group = pkts[p].out_group
      BY <1>2 DEF IsPacket
    <3> HIDE DEF r
    <3>5. NoneNoted(r) /\ IsSet(r.set) /\ ActsIn(r.set) = S BY <1>2, <3>4 DEF NoneNoted, S
    <3>6. Shape(f, r) BY <1>2, <3>5
    <3>7. QED BY <1>1, <1>2, <1>4, <2>1, <3>1, <3>3, <3>4, <3>5, <3>6, InstQuiet DEF S
  <2>4. QED BY <2>2, <2>3
<1>8. QED BY <1>6, <1>7

LEMMA ApplyPromised ==
  ASSUME Rules, NEW goal, Now(goal), ApplyActions
  PROVE  Promised(work', pkts', sent', goal, network)
<1> DEFINE p == Top.pkt
           r == pkts[p]
           c == Ctx(r, network)
           S == ActsIn(r.set)
           f == NextInst
           f1 == [op |-> "list", pkt |-> p, acts |-> Inst.acts]
<1>1. Top.op = "insts" /\ Top.insts # {} /\ Inst.type = "apply" BY DEF ApplyActions, AtInst
<1>2. /\ NoneNoted(r) /\ f.op = "insts" /\ f.pkt = p
      /\ f.next = Top.next /\ f.insts = Top.insts \ {Inst} /\ IsSet(r.set) /\ IsInstruction(Inst)
      /\ Shape(f, r)
      /\ InstRule(r.hdr, c, S, Top.insts, Top.next, Inst) /\ Top = Head(work) /\ Rest = Tail(work)
  BY <1>1, NextInstIs
<1>3. work' = Onto(f1, Onto(f, Rest)) /\ pkts' = pkts /\ sent' = sent
  <2>1. work' = <<f1, f>> \o Rest /\ pkts' = pkts /\ sent' = sent BY DEF ApplyActions
  <2>2. IsStack(Rest) BY <1>2, TopShape DEF Now
  <2> HIDE DEF f1, f
  <2>3. QED BY <2>1, <2>2, PushTwo
<1>4. Others(work, pkts, pkts) BY OthersAre DEF Kept
<1>5. Shape(f1, r)
  <2>1. IsList(Inst.acts) BY <1>1, <1>2 DEF IsInstruction
  <2>2. QED BY <1>2, <2>1 DEF Shape
<1>6. f1.op = "list" /\ f1.pkt = p /\ f1.acts = Inst.acts /\ f1.op \in Calls BY DEF Calls
<1> HIDE DEF f, f1, S
<1>7. \A l \in ListOutcomes(r.hdr, c, Inst.acts) :
        Outcomes({l[1]}, InstOutcomes(l[2], c, S, Top.insts \ {Inst}, Top.next))
          \subseteq InstOutcomes(r.hdr, c, S, Top.insts, Top.next)
  BY <1>1, <1>2 DEF InstRule
<1>8. GoesOnAsTwo(work, pkts, f1, r, f, r, network)
  <2>1. ASSUME NEW x1, NEW y1, NEW x2, NEW y2, Gives(f1, r, r.hdr, r.hdr, network, x1, y1),
               Gives(f, r, y1, HdrAt(Tail(work), pkts, 1), network, x2, y2)
        PROVE  TopGives(work, pkts, network, x1 \o x2, y2)
    <3>1. <<x1, y1>> \in ListOutcomes(r.hdr, c, Inst.acts) BY <1>6, <2>1 DEF Gives
    <3>2. x2 \in InstOutcomes(y1, c, S, Top.insts \ {Inst}, Top.next) /\ y2 = HdrAt(Tail(work), pkts, 1)
      BY <1>2, <2>1 DEF Gives, S
    <3>3. Outcomes({x1}, InstOutcomes(y1, c, S, Top.insts \ {Inst}, Top.next))
            \subseteq InstOutcomes(r.hdr, c, S, Top.insts, Top.next)
      BY <1>7, <3>1
    <3> DEFINE X == InstOutcomes(y1, c, S, Top.insts \ {Inst}, Top.next)
               all == InstOutcomes(r.hdr, c, S, Top.insts, Top.next)
    <3>4. x2 \in X /\ Outcomes({x1}, X) \subseteq all BY <3>2, <3>3
    <3> HIDE DEF X, all
    <3>6. x1 \o x2 \in all BY <3>4, InOutcomes
    <3>5. QED BY <1>1, <1>2, <3>2, <3>6 DEF TopGives, Gives, S, all
  <2>2. QED BY <2>1 DEF GoesOnAsTwo
<1>9. HdrAt(Tail(work), pkts, 1) = HdrAt(Tail(work), pkts, 1) OBVIOUS
<1>10. Promised(Onto(f1, Onto(f, Tail(work))), pkts, sent, goal, network)
  BY <1>2, <1>4, <1>5, <1>6, <1>8, StepCall DEF Now
<1>11. QED BY <1>2, <1>3, <1>10

-----------------------------------------------------------------------------
(* Outputs *)

\* What is put out at ports is a sequence.
LEMMA CopiesAreSent ==
  ASSUME NEW r, NEW port, NEW off
  PROVE  IsStack(Copies(r, port, off))
<1> DEFINE to == CASE port = OFPP_IN_PORT -> {r.in_port}
                   [] port = OFPP_ALL -> Ports \ {r.in_port}
                   [] OTHER -> {port} \ {r.in_port}
           up == (to \cap Ports) \ off
           n == Cardinality(up)
           ports == PortsFor(r, port, off)
<1>1. n \in Nat
  <2>1. IsFiniteSet(1..9)
    <3> DEFINE lo == 1
               hi == 9
    <3>1. lo \in Int /\ hi \in Int OBVIOUS
    <3> HIDE DEF lo, hi
    <3>2. IsFiniteSet(lo..hi) BY <3>1, FS_Interval
    <3>3. QED BY <3>2 DEF lo, hi
  <2>2. up \subseteq 1..9 BY PortsAssumption
  <2> HIDE DEF up
  <2>3. IsFiniteSet(up) BY <2>1, <2>2, FS_Subset
  <2>4. QED BY <2>3, FS_CardinalityType
<1>2. DOMAIN ports = 1..n BY DEF PortsFor
<1> HIDE DEF n, ports
<1>3. Copies(r, port, off) = [i \in 1..n |-> <<ports[i], r.hdr>>] BY <1>2 DEF Copies, ports
<1> DEFINE e(i) == <<ports[i], r.hdr>>
           q == [i \in 1..n |-> e(i)]
<1>4. q \in Seq({e(i) : i \in 1..n})
  <2> HIDE DEF e
  <2>1. QED BY <1>1
<1>5. IsStack(q)
  <2> HIDE DEF q
  <2>1. QED BY <1>4 DEF IsStack
<1>6. QED BY <1>3, <1>5

\* A packet that is put out to the tables is not put out to them again.
LEMMA NotAgain ==
  ASSUME NEW a, NEW b, NEW x, NEW y, NEW z,
         NEW c, c = [in_port |-> a, packet_out |-> b, flows |-> x, down |-> y]
  PROVE  [c EXCEPT !.packet_out = z] = [in_port |-> a, packet_out |-> z, flows |-> x, down |-> y]
<1> DEFINE V == {a, b, x, y, z}
           R == [in_port : V, packet_out : V, flows : V, down : V]
           d == [in_port |-> a, packet_out |-> z, flows |-> x, down |-> y]
           e == [c EXCEPT !.packet_out = z]
<1>1. c \in R /\ d \in R /\ z \in V OBVIOUS
<1>2. e.in_port = a /\ e.packet_out = z /\ e.flows = x /\ e.down = y OBVIOUS
<1>3. d.in_port = a /\ d.packet_out = z /\ d.flows = x /\ d.down = y OBVIOUS
<1> HIDE DEF V
<1>4. e \in R BY <1>1
<1> HIDE DEF d, e
<1>5. e = d BY <1>1, <1>2, <1>3, <1>4
<1>6. QED BY <1>5 DEF d, e

\* The send of the packet r and then what f gives is what the innermost call gives.
SendsThen(f, r, port) ==
  \A x0, x, y :
    /\ IsStack(x0) /\ x0 \in SendOutcomes(r.hdr, Ctx(r, network), port)
    /\ IsStack(x) /\ Gives(f, r, r.hdr, HdrAt(Tail(work), pkts, 1), network, x, y)
    => TopGives(work, pkts, network, x0 \o x, y)

\* The packet, now r, is put out by a call that goes on as f.
LEMMA OutputPromised ==
  ASSUME NEW goal, Now(goal), NEW r, IsPacket(r), r.hdr = pkts[Top.pkt].hdr,
         Top.op = "list" => Kept(r, pkts[Top.pkt]),
         NEW f, f.pkt = Top.pkt, f.op \in {"list", "destroy"}, f.op = "list" <=> Top.op = "list",
         Shape(f, r), NEW port, SendsThen(f, r, port),
         Output(With(pkts, Top.pkt, r), Top.pkt, port, Onto(f, Rest))
  PROVE  Promised(work', pkts', sent', goal, network)
<1> DEFINE p == Top.pkt
           ps == With(pkts, p, r)
           c == Ctx(r, network)
           t == Tail(work)
<1>1. /\ IsStack(sent) /\ Top = Head(work) /\ Rest = t
      /\ p \in Worked(work) /\ p \in DOMAIN pkts /\ Worked(work) \subseteq DOMAIN pkts /\ Agree(work, pkts)
  BY NowShape
<1>2. ps[p] = r /\ DOMAIN ps = DOMAIN pkts /\ \A q \in DOMAIN pkts : q # p => ps[q] = pkts[q]
  <2>1. /\ ps[p] = r /\ DOMAIN ps = DOMAIN pkts \cup {p}
        /\ \A q \in DOMAIN pkts : q # p => ps[q] = pkts[q]
    BY DEF With
  <2> HIDE DEF ps
  <2>2. DOMAIN pkts \cup {p} = DOMAIN pkts BY <1>1
  <2>3. QED BY <2>1, <2>2
<1>3. \A qs : (\A q \in Worked(work) : q # p => qs[q] = pkts[q]) /\ (Top.op = "list" => Kept(qs[p], pkts[p]))
         => Others(work, qs, pkts)
  BY <1>1, OthersAre
<1>4. \A qs : Others(work, qs, pkts) => HdrAt(t, qs, 1) = HdrAt(t, pkts, 1) \/ f.op = "list"
  BY <1>1, HdrBelow DEF Now
<1> HIDE DEF ps, t
<1>5. Others(work, ps, pkts) BY <1>1, <1>2, <1>3
<1>6. CASE port = OFPP_TABLE /\ r.packet_out /\ pkts' = With(ps, Fresh, [Clone(r) EXCEPT !.packet_out = FALSE])
           /\ work' = <<[op |-> "process", pkt |-> Fresh]>> \o Onto(f, Rest) /\ sent' = sent
  <2> DEFINE n == Fresh
             new == [Clone(r) EXCEPT !.packet_out = FALSE]
             f1 == [op |-> "process", pkt |-> n]
  <2>1. n \notin DOMAIN pkts BY <1>1, FreshIsNew DEF Agree, PacketsAgree
  <2>2. /\ IsNew(new) /\ new.hdr = r.hdr /\ new.in_port = r.in_port /\ new.packet_out = FALSE
    BY DEF Clone, NewPacket, IsNew
  <2>3. f1.op = "process" /\ f1.pkt = n OBVIOUS
  <2>4. work' = Onto(f1, Onto(f, Rest)) /\ pkts' = With(ps, n, new) BY <1>6 DEF Onto
  <2> HIDE DEF n, new, f1
  <2>5. pkts'[n] = new /\ \A q \in DOMAIN pkts : pkts'[q] = ps[q]
    <3>1. With(ps, n, new)[n] = new /\ \A q \in DOMAIN ps : q # n => With(ps, n, new)[q] = ps[q] BY DEF With
    <3>2. QED BY <1>2, <2>1, <2>4, <3>1
  <2>6. pkts'[p] = r /\ Others(work, pkts', pkts)
    <3>1. pkts'[p] = r BY <1>1, <1>2, <2>5
    <3>2. \A q \in Worked(work) : q # p => pkts'[q] = pkts[q] BY <1>1, <1>2, <2>5
    <3>3. QED BY <1>3, <3>1, <3>2
  <2>7. Shape(f1, new) BY <2>2, <2>3 DEF Shape
  <2>8. GoesOnAsTwo(work, pkts, f1, new, f, r, network)
    <3>1. ASSUME NEW x1, NEW y1, NEW x2, NEW y2, IsStack(x1), Gives(f1, new, new.hdr, r.hdr, network, x1, y1),
                 IsStack(x2), Gives(f, r, y1, HdrAt(t, pkts, 1), network, x2, y2)
          PROVE  TopGives(work, pkts, network, x1 \o x2, y2)
      <4>1. y1 = r.hdr /\ x1 \in TablesOutcomes(r.hdr, Ctx(new, network)) BY <2>2, <2>3, <3>1 DEF Gives
      <4>2. Ctx(new, network) = [c EXCEPT !.packet_out = FALSE]
        <5> DEFINE k1 == network[1]
                   k2 == network[2]
        <5> HIDE DEF k1, k2
        <5>1. c = [in_port |-> r.in_port, packet_out |-> r.packet_out, flows |-> k1, down |-> k2]
          BY DEF Ctx, k1, k2
        <5> DEFINE no == FALSE
        <5>2. Ctx(new, network) = [in_port |-> r.in_port, packet_out |-> no, flows |-> k1, down |-> k2]
          BY <2>2 DEF Ctx, k1, k2
        <5> HIDE DEF c, no
        <5>3. [c EXCEPT !.packet_out = no] = [in_port |-> r.in_port, packet_out |-> no, flows |-> k1, down |-> k2]
          BY <5>1, NotAgain
        <5>4. QED BY <5>2, <5>3 DEF no
      <4>3. c.packet_out BY <1>6 DEF Ctx
      <4> HIDE DEF c
      <4>4. x1 \in SendOutcomes(r.hdr, c, port)
        BY <1>6, <4>1, <4>2, <4>3 DEF SendOutcomes, OFPP_TABLE, OFPP_CONTROLLER
      <4>5. QED BY <3>1, <4>1, <4>4 DEF SendsThen, c, t
    <3>2. QED BY <3>1 DEF GoesOnAsTwo, t
  <2>9. f1.op \in Calls BY <2>3 DEF Calls
  <2>10. HdrAt(t, pkts', 1) = HdrAt(t, pkts, 1) \/ f.op = "list" BY <1>4, <2>6
  <2>11. Promised(Onto(f1, Onto(f, Tail(work))), pkts', sent, goal, network)
    BY <2>3, <2>5, <2>6, <2>7, <2>8, <2>9, <2>10, StepCall DEF Now, t
  <2>12. QED BY <1>1, <1>6, <2>4, <2>11 DEF t
\* The cases in which the call goes on and x0 was put out.
<1>7. ASSUME NEW x0, IsStack(x0), x0 \in SendOutcomes(r.hdr, c, port), work' = Onto(f, Rest), sent' = sent \o x0,
             \A q \in Worked(work) : q # p => pkts'[q] = pkts[q], Kept(pkts'[p], r), pkts'[p].hdr = r.hdr
      PROVE  Promised(work', pkts', sent', goal, network)
  <2> DEFINE r2 == pkts'[p]
  <2>1. Others(work, pkts', pkts) BY <1>3, <1>7 DEF Kept
  <2>2. Ctx(r2, network) = c BY <1>7 DEF Ctx, Kept
  <2>3. r2.hdr = r.hdr BY <1>7
  <2>4. Shape(f, r2) BY <1>7 DEF Shape, Kept, NoneNoted
  <2>5. \A g, h, x, y : Gives(f, r2, g, h, network, x, y) => Gives(f, r, g, h, network, x, y)
    BY <2>2 DEF Gives
  <2> HIDE DEF r2, c
  <2>6. GoesOnAs(work, pkts, f, r2, x0, network)
    <3>1. ASSUME NEW x, NEW y, IsStack(x), Gives(f, r2, r2.hdr, HdrAt(t, pkts, 1), network, x, y)
          PROVE  TopGives(work, pkts, network, x0 \o x, y)
      <4>1. Gives(f, r, r.hdr, HdrAt(t, pkts, 1), network, x, y) BY <2>3, <2>5, <3>1
      <4>2. QED BY <1>7, <3>1, <4>1 DEF SendsThen, c, t
    <3>2. QED BY <3>1 DEF GoesOnAs, t
  <2>7. HdrAt(t, pkts', 1) = HdrAt(t, pkts, 1) \/ f.op = "list" BY <1>4, <2>1
  <2>8. Promised(Onto(f, Tail(work)), pkts', sent \o x0, goal, network)
    BY <1>7, <2>1, <2>4, <2>6, <2>7, StepOn DEF Now, t, r2
  <2>9. QED BY <1>1, <1>7, <2>8 DEF t
<1>8. CASE port = OFPP_TABLE /\ ~r.packet_out /\ pkts' = ps /\ work' = Onto(f, Rest) /\ sent' = sent
  <2>1. IsStack(<<>>) /\ sent = sent \o <<>> BY <1>1, Concatenation
  <2>2. ~c.packet_out BY <1>8 DEF Ctx
  <2> HIDE DEF c
  <2>3. <<>> \in SendOutcomes(r.hdr, c, port) BY <1>8, <2>2 DEF SendOutcomes, OFPP_TABLE, OFPP_CONTROLLER
  <2>4. pkts'[p] = r /\ \A q \in Worked(work) : q # p => pkts'[q] = pkts[q] BY <1>1, <1>2, <1>8
  <2>5. sent' = sent \o <<>> BY <1>8, <2>1
  <2>6. QED BY <1>7, <1>8, <2>1, <2>3, <2>4, <2>5 DEF Kept, c
<1>9. CASE port = OFPP_CONTROLLER /\ pkts' \in Saves(ps, p) /\ sent' = Append(sent, <<OFPP_CONTROLLER, r.hdr>>)
           /\ work' = Onto(f, Rest)
  <2> DEFINE e == <<OFPP_CONTROLLER, r.hdr>>
             x0 == <<e>>
  <2>1. x0 \in SendOutcomes(r.hdr, c, port) BY <1>9 DEF SendOutcomes
  <2>2. Worked(work) \subseteq DOMAIN ps /\ IsPacket(ps[p]) BY <1>1, <1>2
  <2>3. (\A q \in Worked(work) : q # p => pkts'[q] = ps[q]) /\ Kept(pkts'[p], ps[p]) /\ pkts'[p].hdr = ps[p].hdr
    BY <1>1, <1>9, <2>2, SavesIs
  <2>4. \A q \in Worked(work) : q # p => pkts'[q] = pkts[q] BY <1>1, <1>2, <2>3
  <2>5. sent' = sent \o x0 /\ IsStack(x0)
    <3>1. sent' = Append(sent, e) BY <1>9
    <3> HIDE DEF e
    <3>2. PICK S : sent \in Seq(S) BY <1>1 DEF IsStack
    <3> DEFINE T == S \cup {e}
    <3>3. sent \in Seq(T) /\ e \in T BY <3>2
    <3> HIDE DEF T
    <3>4. Append(sent, e) = sent \o <<e>> BY <3>3
    <3>5. QED BY <3>1, <3>4, Concatenation
  <2> HIDE DEF x0, c
  <2>6. Kept(pkts'[p], r) /\ pkts'[p].hdr = r.hdr BY <1>2, <2>3
  <2>7. QED BY <1>7, <1>9, <2>1, <2>4, <2>5, <2>6 DEF c
<1>10. CASE port \notin {OFPP_TABLE, OFPP_CONTROLLER} /\ sent' = sent \o Copies(r, port, down) /\ pkts' = ps
            /\ work' = Onto(f, Rest)
  <2> DEFINE x0 == Copies(r, port, down)
             s == [hdr |-> r.hdr, in_port |-> c.in_port]
  <2>1. s.hdr = r.hdr /\ s.in_port = r.in_port /\ c.down = down BY DEF Ctx, network
  <2> HIDE DEF s
  <2>2. PortsFor(s, port, c.down) = PortsFor(r, port, down) BY <2>1 DEF PortsFor
  <2>3. Copies(s, port, c.down) = Copies(r, port, down) BY <2>1, <2>2 DEF Copies
  <2>4. SendOutcomes(r.hdr, c, port) = {Copies(s, port, c.down)} BY <1>10 DEF SendOutcomes, s
  <2>5. x0 \in SendOutcomes(r.hdr, c, port) BY <2>3, <2>4
  <2>6. IsStack(x0) BY CopiesAreSent
  <2>7. pkts'[p] = r /\ \A q \in Worked(work) : q # p => pkts'[q] = pkts[q] BY <1>1, <1>2, <1>10
  <2>8. sent' = sent \o x0 BY <1>10
  <2> HIDE DEF x0, c
  <2>9. QED BY <1>7, <1>10, <2>5, <2>6, <2>7, <2>8 DEF Kept, c
<1>11. QED
  <2>1. Output(ps, p, port, Onto(f, Rest)) BY DEF ps
  <2>2. QED BY <1>2, <1>6, <1>8, <1>9, <1>10, <2>1 DEF Output

-----------------------------------------------------------------------------
(* Lists of actions *)

\* dp_execute_action
LEMMA ExecuteIs ==
  ASSUME NEW r, IsPacket(r), NEW a
  PROVE  /\ IsPacket(Execute(r, a))
         /\ Execute(r, a).in_port = r.in_port /\ Execute(r, a).packet_out = r.packet_out
         /\ Execute(r, a).set = r.set
         /\ Execute(r, a).hdr = IF a.type \in {"group", "output"} THEN r.hdr ELSE Modify(r.hdr, a)
         /\ Execute(r, a).out_port = IF a.type = "output" THEN a.arg[1] ELSE r.out_port
         /\ Execute(r, a).out_group = IF a.type = "group" THEN a.arg[1] ELSE r.out_group
<1> DEFINE h == Modify(r.hdr, a)
           g == a.arg[1]
           e == Execute(r, a)
<1>1. CASE a.type = "output"
  <2>1. e = [r EXCEPT !.out_port = g] BY <1>1 DEF Execute
  <2> HIDE DEF e, g, h
  <2>2. QED BY <1>1, <2>1 DEF IsPacket, e, g, h
<1>2. CASE a.type = "group"
  <2>1. e = [r EXCEPT !.out_group = g] BY <1>2 DEF Execute
  <2> HIDE DEF e, g, h
  <2>2. QED BY <1>2, <2>1 DEF IsPacket, e, g, h
<1>3. CASE a.type \notin {"group", "output"}
  <2>1. e = [r EXCEPT !.hdr = h] BY <1>3 DEF Execute
  <2> HIDE DEF e, g, h
  <2>2. QED BY <1>3, <2>1 DEF IsPacket, e, g, h
<1>4. QED BY <1>1, <1>2, <1>3

\* The list after its first action.
LEMMA TailIsList ==
  ASSUME NEW acts, IsList(acts), acts # <<>>
  PROVE  IsAction(Head(acts)) /\ IsList(Tail(acts))
<1> DEFINE t == Tail(acts)
<1>1. acts \in Seq(Range(acts)) /\ \A i \in DOMAIN acts : IsAction(acts[i]) BY DEF IsList
<1> DEFINE S == Range(acts)
<1>2. acts \in Seq(S) BY <1>1
<1> HIDE DEF S
<1>3. DOMAIN acts = 1..Len(acts) /\ Len(acts) \in Nat /\ Len(acts) # 0 BY <1>2
<1>4. /\ t \in Seq(S) /\ Len(acts) = Len(t) + 1 /\ Len(t) \in Nat /\ Head(acts) = acts[1] /\ DOMAIN t = 1..Len(t)
      /\ \A i \in 1..Len(t) : t[i] = acts[i + 1]
  BY <1>2
<1> HIDE DEF t
<1>5. IsAction(Head(acts)) BY <1>1, <1>3, <1>4
<1>6. \A i \in DOMAIN t : IsAction(t[i])
  <2>1. \A i \in 1..Len(t) : i + 1 \in 1..Len(acts) BY <1>4
  <2>2. QED BY <1>1, <1>3, <1>4, <2>1
<1>7. t \in Seq(Range(t))
  <2>1. \A i \in 1..Len(t) : t[i] \in Range(t) BY <1>4 DEF Range
  <2>2. QED BY <1>4, <2>1
<1>8. QED BY <1>5, <1>6, <1>7 DEF IsList, t

\* What is known of a list of actions and of the call that has one less.
LEMMA ListIs ==
  ASSUME NEW goal, Now(goal), Top.op = "list"
  PROVE  /\ Top = Head(work) /\ Rest = Tail(work) /\ NoneNoted(pkts[Top.pkt]) /\ IsList(Top.acts)
         /\ Top.pkt \in Worked(work) /\ Top.pkt \in DOMAIN pkts /\ IsPacket(pkts[Top.pkt])
         /\ Worked(work) \subseteq DOMAIN pkts /\ Agree(work, pkts) /\ IsStack(sent) /\ IsStack(Rest)
         /\ [Top EXCEPT !.acts = Tail(@)].op = "list" /\ [Top EXCEPT !.acts = Tail(@)].pkt = Top.pkt
         /\ [Top EXCEPT !.acts = Tail(@)].acts = Tail(Top.acts) /\ "acts" \in DOMAIN [Top EXCEPT !.acts = Tail(@)]
<1>1. /\ Shape(Top, pkts[Top.pkt]) /\ IsStack(sent) /\ Top = Head(work) /\ Rest = Tail(work)
      /\ Top.pkt \in Worked(work) /\ Top.pkt \in DOMAIN pkts /\ IsPacket(pkts[Top.pkt])
      /\ Worked(work) \subseteq DOMAIN pkts /\ Agree(work, pkts)
  BY NowShape
<1>2. "acts" \in DOMAIN Top /\ NoneNoted(pkts[Top.pkt]) /\ IsList(Top.acts) BY <1>1 DEF Shape
<1>3. IsStack(Rest) /\ {"op", "pkt"} \subseteq DOMAIN Top BY <1>1, TopShape DEF Now, IsCall
<1>4. QED BY <1>1, <1>2, <1>3

LEMMA ListDonePromised ==
  ASSUME Rules, NEW goal, Now(goal), ListDone
  PROVE  Promised(work', pkts', sent', goal, network)
<1> DEFINE p == Top.pkt
           h == pkts[p].hdr
           c == Ctx(pkts[p], network)
<1>1. Top.op = "list" /\ Top.acts = <<>> /\ work' = Rest /\ pkts' = pkts /\ sent' = sent BY DEF ListDone
<1>2. Top = Head(work) /\ Rest = Tail(work) BY <1>1, ListIs
<1>3. Others(work, pkts, pkts) BY OthersAre DEF Kept
<1>4. HdrAt(Tail(work), pkts, 1) = h BY <1>1, <1>2, HdrOfList DEF Now
<1>5. ListRule(h, c, Top.acts) BY DEF Rules
<1>6. <<<<>>, h>> \in ListOutcomes(h, c, Top.acts) BY <1>1, <1>5 DEF ListRule
<1>7. TopGives(work, pkts, network, <<>>, h) BY <1>1, <1>2, <1>6 DEF TopGives, Gives
<1>8. Promised(Tail(work), pkts, sent, goal, network) BY <1>3, <1>4, <1>7, PopQuiet DEF Now
<1>9. QED BY <1>1, <1>2, <1>8

LEMMA ListActionPromised ==
  ASSUME Rules, NEW goal, Now(goal), ListAction
  PROVE  Promised(work', pkts', sent', goal, network)
<1> DEFINE p == Top.pkt
           r == pkts[p]
           h == r.hdr
           c == Ctx(r, network)
           a == Head(Top.acts)
           e == Execute(r, a)
           f == [Top EXCEPT !.acts = Tail(@)]
           then == <<f>> \o Rest
           t == Tail(work)
<1>1. Top.op = "list" /\ Top.acts # <<>> BY DEF ListAction
<1>2. /\ Top = Head(work) /\ Rest = t /\ NoneNoted(r) /\ IsList(Top.acts)
      /\ p \in Worked(work) /\ p \in DOMAIN pkts /\ IsPacket(r)
      /\ Worked(work) \subseteq DOMAIN pkts /\ Agree(work, pkts) /\ IsStack(sent) /\ IsStack(Rest)
      /\ f.op = "list" /\ f.pkt = p /\ f.acts = Tail(Top.acts) /\ "acts" \in DOMAIN f
  BY <1>1, ListIs
<1>3. IsAction(a) /\ IsList(Tail(Top.acts)) BY <1>1, <1>2, TailIsList
<1>4. /\ IsPacket(e) /\ e.in_port = r.in_port /\ e.packet_out = r.packet_out /\ e.set = r.set
      /\ e.hdr = IF a.type \in {"group", "output"} THEN h ELSE Modify(h, a)
      /\ e.out_port = IF a.type = "output" THEN a.arg[1] ELSE r.out_port
      /\ e.out_group = IF a.type = "group" THEN a.arg[1] ELSE r.out_group
  <2>1. IsPacket(r) BY <1>2
  <2> HIDE DEF r, a
  <2>2. QED BY <2>1, ExecuteIs
<1>5. then = Onto(f, Rest) BY DEF Onto
<1>6. IF e.out_group # OFPG_ANY
      THEN LET g == Fresh IN
             /\ pkts' = With(With(pkts, p, [e EXCEPT !.out_group = OFPG_ANY]), g, CopyForGroup(e))
             /\ work' = <<[op |-> "group", pkt |-> g, group |-> e.out_group]>> \o then
             /\ sent' = sent
      ELSE IF e.out_port # OFPP_ANY
      THEN Output(With(pkts, p, [e EXCEPT !.out_port = OFPP_ANY]), p, e.out_port, then)
      ELSE pkts' = With(pkts, p, e) /\ work' = then /\ sent' = sent
  BY DEF ListAction
<1>7. ListRule(h, c, Top.acts) BY DEF Rules
<1>8. \A q : NoneNoted(q) => Shape(f, q) BY <1>2, <1>3 DEF Shape
<1>9. r.out_port = OFPP_ANY /\ r.out_group = OFPG_ANY BY <1>2 DEF NoneNoted
<1>10. \A q, x, y : Kept(q, r) /\ Gives(f, q, q.hdr, HdrAt(t, pkts, 1), network, x, y) =>
         <<x, y>> \in ListOutcomes(q.hdr, c, Tail(Top.acts))
  BY <1>2 DEF Gives, Kept, Ctx
<1>11. \A x, y : <<x, y>> \in ListOutcomes(h, c, Top.acts) => TopGives(work, pkts, network, x, y)
  BY <1>1, <1>2 DEF TopGives, Gives
<1> HIDE DEF e, f, then, t
<1>12. CASE a.type = "group"
  <2> DEFINE n == Fresh
             g == a.arg[1]
             f1 == [op |-> "group", pkt |-> n, group |-> g]
             r1 == [e EXCEPT !.out_group = OFPG_ANY]
             new == CopyForGroup(e)
             ps == With(pkts, p, r1)
  <2>1. e.out_group = g /\ g # OFPG_ANY /\ g \in DOMAIN Groups BY <1>3, <1>4, <1>12 DEF IsAction
  <2>2. pkts' = With(ps, n, new) /\ work' = Onto(f1, then) /\ sent' = sent BY <1>6, <2>1 DEF Onto
  <2>3. Kept(r1, r) /\ r1.hdr = h BY <1>4, <1>9, <1>12 DEF Kept, IsPacket
  <2>4. /\ new.hdr = h /\ new.in_port = r.in_port /\ new.packet_out = r.packet_out
        /\ new.set = <<>> /\ new.out_group = OFPG_ANY
    BY <1>4, <1>12 DEF CopyForGroup, Clone, NewPacket
  <2>5. f1.op = "group" /\ f1.pkt = n /\ f1.group = g /\ f1.op \in Calls BY DEF Calls
  <2>6. n \notin DOMAIN pkts BY <1>2, FreshIsNew DEF Agree, PacketsAgree
  <2> HIDE DEF n, g, f1, r1, new
  <2>7. ps[p] = r1 /\ \A q \in DOMAIN pkts : q \in DOMAIN ps /\ (q # p => ps[q] = pkts[q]) BY DEF With
  <2> HIDE DEF ps
  <2>8. With(ps, n, new)[n] = new /\ \A q \in DOMAIN ps : q # n => With(ps, n, new)[q] = ps[q] BY DEF With
  <2>9. /\ pkts'[n] = new /\ pkts'[p] = r1 /\ \A q \in Worked(work) : q # p => pkts'[q] = pkts[q]
    <3>1. pkts'[n] = new BY <2>2, <2>8
    <3>2. \A q \in DOMAIN pkts : pkts'[q] = ps[q] BY <2>2, <2>6, <2>7, <2>8
    <3>3. pkts'[p] = r1 BY <1>2, <2>7, <3>2
    <3>4. \A q \in Worked(work) : q # p => pkts'[q] = pkts[q] BY <1>2, <2>7, <3>2
    <3>5. QED BY <3>1, <3>3, <3>4
  <2>10. Others(work, pkts', pkts) BY <1>2, <2>3, <2>9, OthersAre
  <2>11. Shape(f, r1) BY <1>8, <1>9, <2>3 DEF NoneNoted, Kept
  <2>12. Shape(f1, new) BY <2>1, <2>4, <2>5 DEF Shape
  <2>13. \A x1 \in GroupOutcomes(h, c, g) : \A l \in ListOutcomes(h, c, Tail(Top.acts)) :
           <<x1 \o l[1], l[2]>> \in ListOutcomes(h, c, Top.acts)
    BY <1>1, <1>7, <1>12 DEF ListRule, g
  <2>14. GoesOnAsTwo(work, pkts, f1, new, f, r1, network)
    <3>1. ASSUME NEW x1, NEW y1, NEW x2, NEW y2, Gives(f1, new, new.hdr, r1.hdr, network, x1, y1),
                 Gives(f, r1, y1, HdrAt(t, pkts, 1), network, x2, y2)
          PROVE  TopGives(work, pkts, network, x1 \o x2, y2)
      <4>1. Ctx(new, network) = c BY <2>4 DEF Ctx
      <4>2. y1 = r1.hdr /\ x1 \in GroupOutcomes(h, c, g) BY <2>4, <2>5, <3>1, <4>1 DEF Gives
      <4>3. <<x2, y2>> \in ListOutcomes(h, c, Tail(Top.acts)) BY <1>10, <2>3, <3>1, <4>2
      <4>4. <<x1 \o <<x2, y2>>[1], <<x2, y2>>[2]>> \in ListOutcomes(h, c, Top.acts) BY <2>13, <4>2, <4>3
      <4>5. <<x1 \o x2, y2>> \in ListOutcomes(h, c, Top.acts) BY <4>4
      <4>6. QED BY <1>11, <4>5
    <3>2. QED BY <3>1 DEF GoesOnAsTwo, t
  <2>15. f1.pkt = n /\ f.pkt = p /\ f.op = "list" BY <1>2, <2>5
  <2>16. Promised(Onto(f1, Onto(f, Tail(work))), pkts', sent, goal, network)
    BY <2>5, <2>9, <2>10, <2>11, <2>12, <2>14, <2>15, StepCall DEF Now
  <2>17. QED BY <1>2, <1>5, <2>2, <2>16 DEF t
<1>13. CASE a.type = "output"
  <2> DEFINE port == a.arg[1]
             r1 == [e EXCEPT !.out_port = OFPP_ANY]
  <2>1. e.out_port = port /\ port # OFPP_ANY /\ e.out_group = OFPG_ANY BY <1>3, <1>4, <1>9, <1>13 DEF IsAction
  <2>2. Output(With(pkts, p, r1), p, port, Onto(f, Rest)) BY <1>5, <1>6, <2>1
  <2>3. Kept(r1, r) /\ r1.hdr = h /\ IsPacket(r1) BY <1>4, <1>9, <1>13 DEF Kept, IsPacket
  <2>4. \A x0 \in SendOutcomes(h, c, port) : \A l \in ListOutcomes(h, c, Tail(Top.acts)) :
           <<x0 \o l[1], l[2]>> \in ListOutcomes(h, c, Top.acts)
    BY <1>1, <1>7, <1>13 DEF ListRule
  <2> HIDE DEF port, r1
  <2>5. Shape(f, r1) BY <1>8, <1>9, <2>3 DEF NoneNoted, Kept
  <2>6. SendsThen(f, r1, port)
    <3>1. ASSUME NEW x0, NEW x, NEW y, x0 \in SendOutcomes(r1.hdr, Ctx(r1, network), port),
                 Gives(f, r1, r1.hdr, HdrAt(t, pkts, 1), network, x, y)
          PROVE  TopGives(work, pkts, network, x0 \o x, y)
      <4>1. Ctx(r1, network) = c BY <2>3 DEF Ctx, Kept
      <4>2. <<x, y>> \in ListOutcomes(h, c, Tail(Top.acts)) BY <1>10, <2>3, <3>1
      <4>3. <<x0 \o <<x, y>>[1], <<x, y>>[2]>> \in ListOutcomes(h, c, Top.acts) BY <2>3, <2>4, <3>1, <4>1, <4>2
      <4>4. <<x0 \o x, y>> \in ListOutcomes(h, c, Top.acts) BY <4>3
      <4>5. QED BY <1>11, <4>4
    <3>2. QED BY <3>1 DEF SendsThen, t
  <2>7. QED BY <1>1, <1>2, <2>2, <2>3, <2>5, <2>6, OutputPromised
<1>14. CASE a.type \notin {"group", "output"}
  <2>1. Kept(e, r) /\ e.hdr = Modify(h, a) BY <1>4, <1>14 DEF Kept
  <2>2. pkts' = With(pkts, p, e) /\ work' = Onto(f, Rest) /\ sent' = sent BY <1>5, <1>6, <1>9, <2>1 DEF Kept
  <2>3. With(pkts, p, e)[p] = e /\ \A q \in DOMAIN pkts : q # p => With(pkts, p, e)[q] = pkts[q] BY DEF With
  <2>4. pkts'[p] = e /\ \A q \in Worked(work) : q # p => pkts'[q] = pkts[q] BY <1>2, <2>2, <2>3
  <2>5. Others(work, pkts', pkts) BY <1>2, <2>1, <2>4, OthersAre
  <2>6. Shape(f, e) BY <1>8, <1>9, <2>1 DEF NoneNoted, Kept
  <2>7. ListOutcomes(Modify(h, a), c, Tail(Top.acts)) \subseteq ListOutcomes(h, c, Top.acts)
    BY <1>1, <1>7, <1>14 DEF ListRule
  <2>8. SameAs(work, pkts, f, e, network)
    <3>1. ASSUME NEW x, NEW y, Gives(f, e, e.hdr, HdrAt(t, pkts, 1), network, x, y)
          PROVE  TopGives(work, pkts, network, x, y)
      <4>1. <<x, y>> \in ListOutcomes(Modify(h, a), c, Tail(Top.acts)) BY <1>10, <2>1, <3>1
      <4>2. QED BY <1>11, <2>7, <4>1
    <3>2. QED BY <3>1 DEF SameAs, t
  <2>9. Promised(Onto(f, Tail(work)), pkts', sent, goal, network)
    BY <1>2, <2>4, <2>5, <2>6, <2>8, StepQuiet DEF Now
  <2>10. QED BY <1>2, <2>2, <2>9 DEF t
<1>15. QED BY <1>12, <1>13, <1>14

-----------------------------------------------------------------------------
(* The execution of action sets *)

LEMMA HeadAndTail ==
  ASSUME NEW w, IsStack(w), w # <<>>
  PROVE  w = Onto(Head(w), Tail(w))
<1>1. PICK S : w \in Seq(S) BY DEF IsStack
<1> DEFINE f == Head(w)
           t == Tail(w)
           v == Onto(f, t)
<1>2. f \in S /\ t \in Seq(S) /\ Len(w) = Len(t) + 1 /\ f = w[1] /\ \A i \in 1..Len(t) : t[i] = w[i + 1]
  BY <1>1
<1> HIDE DEF f, t
<1>3. v \in Seq(S) /\ Len(v) = Len(t) + 1 /\ v[1] = f /\ \A i \in 1..Len(t) : v[i + 1] = t[i]
  BY <1>2 DEF Onto
<1> HIDE DEF v
<1>4. ASSUME NEW i \in 1..Len(w) PROVE v[i] = w[i]
  <2>1. CASE i = 1 BY <1>2, <1>3, <2>1
  <2>2. CASE i # 1
    <3> DEFINE j == i - 1
    <3>1. Len(t) \in Nat BY <1>2
    <3>2. j \in 1..Len(t) /\ j + 1 = i BY <1>2, <2>2, <3>1
    <3> HIDE DEF j
    <3>3. v[j + 1] = t[j] /\ t[j] = w[j + 1] BY <1>2, <1>3, <3>2
    <3>4. QED BY <3>2, <3>3
  <2>3. QED BY <2>1, <2>2
<1>5. v = w BY <1>1, <1>2, <1>3, <1>4
<1>6. QED BY <1>5 DEF v, f, t

LEMMA HasIs ==
  ASSUME NEW s, NEW types
  PROVE  HasA(types, s) <=> \E b \in ActsIn(s) : b.type \in types
<1>1. \A i \in 1..Len(s) : Plain(s[i]).type = s[i].type BY DEF Plain
<1>2. QED BY <1>1 DEF HasA, ActsIn

\* The set without its first action.
LEMMA SetTail ==
  ASSUME NEW s, IsSet(s), s # <<>>
  PROVE  /\ IsSet(Tail(s)) /\ IsAction(Plain(Head(s)))
         /\ ActsIn(s) = ActsIn(Tail(s)) \cup {Plain(Head(s))} /\ Plain(Head(s)) \notin ActsIn(Tail(s))
         /\ \A b \in ActsIn(Tail(s)) : IsAction(b) /\ Order(Head(s)) <= Order(b) /\ ~Replaces(Head(s), b)
         /\ \A i \in 1..Len(Tail(s)) : Plain(Tail(s)[i]) \in ActsIn(Tail(s))
<1> DEFINE t == Tail(s)
           a == Head(s)
           n == Len(t)
<1>1. IsStack(t) /\ n \in Nat /\ Len(s) = n + 1 /\ a = s[1] /\ \A i \in 1..n : t[i] = s[i + 1]
  BY PopShape DEF IsSet
<1>2. /\ \A i \in 1..Len(s) : IsAction(Plain(s[i]))
      /\ \A i, j \in 1..Len(s) : i < j => Order(s[i]) <= Order(s[j])
      /\ \A i, j \in 1..Len(s) : Replaces(s[i], s[j]) => i = j
  BY DEF IsSet
<1> HIDE DEF t, a
<1>3. \A i \in 1..n : i + 1 \in 1..Len(s) /\ 1 < i + 1 /\ 1 \in 1..Len(s) BY <1>1
<1>4. IsAction(Plain(a))
  <2>1. 1 \in 1..Len(s) BY <1>1
  <2>2. QED BY <1>1, <1>2, <2>1
<1>5. \A i \in 1..n : IsAction(Plain(t[i])) /\ Order(a) <= Order(t[i]) /\ ~Replaces(a, t[i])
  <2> TAKE i \in 1..n
  <2>1. IsAction(Plain(t[i])) /\ Order(a) <= Order(t[i]) BY <1>1, <1>2, <1>3
  <2>2. ~Replaces(s[1], s[i + 1])
    <3>1. 1 # i + 1 BY <1>3
    <3>2. QED BY <1>2, <1>3, <3>1
  <2>3. QED BY <1>1, <2>1, <2>2
<1>6. IsSet(t)
  <2>1. \A i, j \in 1..n : i < j => Order(t[i]) <= Order(t[j])
    <3>1. \A i, j \in 1..n : i < j => i + 1 < j + 1 BY <1>1
    <3>2. QED BY <1>1, <1>2, <1>3, <3>1
  <2>2. \A i, j \in 1..n : Replaces(t[i], t[j]) => i = j
    <3>1. \A i, j \in 1..n : i + 1 = j + 1 => i = j BY <1>1
    <3>2. QED BY <1>1, <1>2, <1>3, <3>1
  <2>3. QED BY <1>1, <1>5, <2>1, <2>2 DEF IsSet
<1>7. ActsIn(s) = ActsIn(t) \cup {Plain(a)}
  <2>1. \A i \in 1..Len(s) : i = 1 \/ (i - 1 \in 1..n /\ (i - 1) + 1 = i) BY <1>1
  <2>2. \A i \in 1..Len(s) : Plain(s[i]) \in ActsIn(t) \cup {Plain(a)}
    <3> TAKE i \in 1..Len(s)
    <3>1. CASE i = 1 BY <1>1, <3>1
    <3>2. CASE i - 1 \in 1..n /\ (i - 1) + 1 = i
      <4>1. t[i - 1] = s[i] BY <1>1, <3>2
      <4>2. QED BY <3>2, <4>1 DEF ActsIn
    <3>3. QED BY <2>1, <3>1, <3>2
  <2>3. Plain(a) \in ActsIn(s)
    <3>1. 1 \in 1..Len(s) BY <1>1
    <3>2. QED BY <1>1, <3>1 DEF ActsIn
  <2>4. \A i \in 1..n : Plain(t[i]) \in ActsIn(s) BY <1>1, <1>3 DEF ActsIn
  <2>5. QED BY <2>2, <2>3, <2>4 DEF ActsIn
<1>8. \A b \in ActsIn(t) : \E i \in 1..n : b = Plain(t[i]) BY DEF ActsIn
<1>9. \A i \in 1..n : Order(Plain(t[i])) = Order(t[i]) /\ (Replaces(a, Plain(t[i])) <=> Replaces(a, t[i]))
  <2> TAKE i \in 1..n
  <2>1. Order(Plain(t[i])) = Order(t[i]) BY <1>5, ActionOrder
  <2>2. QED BY <2>1, ReplacesIs
<1>10. \A b \in ActsIn(t) : IsAction(b) /\ Order(a) <= Order(b) /\ ~Replaces(a, b) BY <1>5, <1>8, <1>9
<1>11. Plain(a) \notin ActsIn(t)
  <2>1. Replaces(a, Plain(a)) BY ReplacesIs
  <2>2. QED BY <1>10, <2>1
<1>12. \A i \in 1..n : Plain(t[i]) \in ActsIn(t) BY DEF ActsIn
<1>13. QED BY <1>4, <1>6, <1>7, <1>10, <1>11, <1>12 DEF t, a

\* The order of actions without owners.
LEMMA PlainOrder ==
  ASSUME NEW a, IsAction(a)
  PROVE  /\ Order(a) \in Nat /\ Plain(a) = a
         /\ a.type = "group" <=> Order(a) = 80
         /\ a.type = "output" <=> Order(a) = 90
         /\ a.type \notin {"group", "output"} <=> Order(a) < 80
<1>1. Plain(a) = a BY DEF IsAction, Plain
<1>2. QED BY <1>1, ActionOrder

\* What is known of an action set when its first action is taken.
LEMMA SetIs ==
  ASSUME NEW goal, Now(goal), Top.op = "set"
  PROVE  /\ Top = Head(work) /\ Rest = Tail(work) /\ IsSet(pkts[Top.pkt].set)
         /\ pkts[Top.pkt].out_group # OFPG_ANY =>
              /\ pkts[Top.pkt].out_group \in DOMAIN Groups
              /\ \A i \in 1..Len(pkts[Top.pkt].set) : pkts[Top.pkt].set[i].type = "output"
         /\ Top.pkt \in Worked(work) /\ Top.pkt \in DOMAIN pkts /\ IsPacket(pkts[Top.pkt])
         /\ Worked(work) \subseteq DOMAIN pkts /\ IsStack(sent)
         /\ work = Onto(Top, Rest)
<1>1. /\ Shape(Top, pkts[Top.pkt]) /\ IsStack(sent) /\ Top = Head(work) /\ Rest = Tail(work)
      /\ Top.pkt \in Worked(work) /\ Top.pkt \in DOMAIN pkts /\ IsPacket(pkts[Top.pkt])
      /\ Worked(work) \subseteq DOMAIN pkts /\ Agree(work, pkts)
  BY NowShape
<1>2. /\ IsSet(pkts[Top.pkt].set)
      /\ pkts[Top.pkt].out_group # OFPG_ANY =>
              /\ pkts[Top.pkt].out_group \in DOMAIN Groups
              /\ \A i \in 1..Len(pkts[Top.pkt].set) : pkts[Top.pkt].set[i].type = "output"
  BY <1>1 DEF Shape
<1>3. work = Onto(Top, Rest) BY <1>1, HeadAndTail DEF Now, At, Agree, StackAgrees
<1>4. QED BY <1>1, <1>2, <1>3

\* What is noted in a packet, of which kind it is.
LEMMA NotedIs ==
  ASSUME NEW r
  PROVE  /\ \A b \in Noted(r) : b.type \in {"group", "output"} /\ Order(b) >= 80
         /\ r.out_group = OFPG_ANY /\ HasA({"group", "output"}, r.set) => Noted(r) = {}
<1> DEFINE g == [type |-> "group", arg |-> <<r.out_group>>]
           o == [type |-> "output", arg |-> <<r.out_port>>]
<1>1. g.type = "group" /\ o.type = "output" OBVIOUS
<1>2. Noted(r) \subseteq {g, o} BY DEF Noted
<1> HIDE DEF g, o
<1>3. Order(g) = 80 /\ Order(o) = 90 BY <1>1 DEF Order
<1>4. r.out_group = OFPG_ANY /\ HasA({"group", "output"}, r.set) => Noted(r) = {} BY DEF Noted
<1>5. QED BY <1>1, <1>2, <1>3, <1>4

\* The first action of the set modifies the packet.
LEMMA ModifyOfSet ==
  ASSUME NEW r, IsSet(r.set), r.set # <<>>, Head(r.set).type \notin {"group", "output"},
         r.out_group # OFPG_ANY => \A i \in 1..Len(r.set) : r.set[i].type = "output",
         NEW e, e.set = Tail(r.set), e.out_port = r.out_port, e.out_group = r.out_group
  PROVE  /\ e.out_group = OFPG_ANY
         /\ Plain(Head(r.set)) \in FirstActions(Left(r)) /\ Left(e) = Left(r) \ {Plain(Head(r.set))}
<1> DEFINE a == Head(r.set)
           T == ActsIn(Tail(r.set))
           types == {"group", "output"}
<1>1. /\ IsAction(Plain(a)) /\ ActsIn(r.set) = T \cup {Plain(a)} /\ Plain(a) \notin T
      /\ \A b \in T : Order(a) <= Order(b)
  BY SetTail
<1>2. Plain(a).type = a.type BY DEF Plain
<1>3. r.out_group = OFPG_ANY
  <2>1. 1 \in 1..Len(r.set) /\ r.set[1] = a BY PopShape DEF IsSet
  <2>2. QED BY <2>1
<1> HIDE DEF a, T
<1>4. HasA(types, r.set) <=> HasA(types, e.set)
  <2>1. HasA(types, r.set) <=> \E b \in T \cup {Plain(a)} : b.type \in types BY <1>1, HasIs
  <2>2. HasA(types, e.set) <=> \E b \in T : b.type \in types BY HasIs DEF T
  <2>3. Plain(a).type \notin types BY <1>2 DEF a
  <2> HIDE DEF types
  <2>4. QED BY <2>1, <2>2, <2>3
<1>5. Noted(e) = Noted(r) BY <1>4 DEF Noted
<1>6. \A b \in Noted(r) : b.type \in types /\ Order(b) >= 80 BY NotedIs
<1>7. Plain(a) \notin Noted(r) BY <1>2, <1>6 DEF a
<1>8. Left(r) = T \cup {Plain(a)} \cup Noted(r) /\ Left(e) = T \cup Noted(r) BY <1>1, <1>5 DEF Left, T
<1>9. Left(e) = Left(r) \ {Plain(a)} BY <1>1, <1>7, <1>8
<1>10. Plain(a) \in FirstActions(Left(r))
  <2>1. Order(Plain(a)) = Order(a) /\ Order(a) \in Nat /\ Order(a) < 80 BY <1>1, ActionOrder DEF a
  <2>2. \A b \in Noted(r) : Order(b) \in Nat
    <3>1. \A b \in Noted(r) : b.type \in types BY <1>6
    <3>2. QED BY <3>1 DEF Order
  <2>3. \A b \in Noted(r) : Order(Plain(a)) <= Order(b) BY <1>6, <2>1, <2>2
  <2>4. \A b \in T \cup {Plain(a)} : Order(Plain(a)) <= Order(b) BY <1>1, <2>1
  <2>5. Plain(a).type \notin {"group", "output"} BY <1>2 DEF a
  <2>6. QED BY <1>8, <2>3, <2>4, <2>5 DEF FirstActions
<1>11. QED BY <1>3, <1>9, <1>10 DEF a

\* The first action of the set is a group: it is noted.
LEMMA GroupOfSet ==
  ASSUME NEW r, IsSet(r.set), r.set # <<>>, Head(r.set).type = "group",
         r.out_group # OFPG_ANY => \A i \in 1..Len(r.set) : r.set[i].type = "output",
         NEW e, e.set = Tail(r.set), e.out_group = Head(r.set).arg[1]
  PROVE  /\ Left(e) = Left(r) /\ e.out_group \in DOMAIN Groups
         /\ \A i \in 1..Len(e.set) : e.set[i].type = "output"
<1> DEFINE a == Head(r.set)
           T == ActsIn(Tail(r.set))
           t == Tail(r.set)
<1>1. /\ IsAction(Plain(a)) /\ ActsIn(r.set) = T \cup {Plain(a)} /\ IsSet(t)
      /\ \A b \in T : IsAction(b) /\ Order(a) <= Order(b) /\ ~Replaces(a, b)
      /\ \A i \in 1..Len(t) : Plain(t[i]) \in T
  BY SetTail
<1>2. Plain(a).type = a.type /\ Plain(a).arg = a.arg BY DEF Plain
<1>3. r.out_group = OFPG_ANY /\ HasA({"group", "output"}, r.set)
  <2>1. 1 \in 1..Len(r.set) /\ r.set[1] = a BY PopShape DEF IsSet
  <2>2. QED BY <2>1 DEF HasA
<1> HIDE DEF a, T, t
<1>4. a.arg = <<a.arg[1]>> /\ a.arg[1] \in DOMAIN Groups \ {OFPG_ANY} BY <1>1, <1>2 DEF IsAction, a
<1>5. Noted(r) = {} BY <1>3, NotedIs
<1>6. Noted(e) = {Plain(a)}
  <2>1. e.out_group = a.arg[1] BY DEF a
  <2>2. [type |-> "group", arg |-> <<e.out_group>>] = Plain(a) BY <1>4, <2>1 DEF Plain, a
  <2> HIDE DEF Plain
  <2>3. QED BY <1>4, <2>1, <2>2 DEF Noted
<1>7. Left(e) = Left(r) BY <1>1, <1>5, <1>6 DEF Left, T, t
<1>8. \A i \in 1..Len(t) : t[i].type = "output"
  <2> TAKE i \in 1..Len(t)
  <2>1. Plain(t[i]) \in T /\ Plain(t[i]).type = t[i].type BY <1>1 DEF Plain
  <2>2. IsAction(Plain(t[i])) /\ ~Replaces(a, Plain(t[i])) /\ Order(a) <= Order(Plain(t[i])) BY <1>1, <2>1
  <2>3. Order(a) = 80 BY <1>1, ActionOrder DEF a
  <2>4. t[i].type # "group" BY <2>1, <2>2 DEF Replaces, a
  <2>5. Order(Plain(t[i])) = Order(t[i]) /\ Order(t[i]) \in Nat BY <2>2, ActionOrder
  <2>6. ~(Order(t[i]) < 80) BY <2>2, <2>3, <2>5
  <2>7. t[i].type \in {"group", "output"} BY <2>2, <2>6, ActionOrder
  <2>8. QED BY <2>4, <2>7
<1>9. QED BY <1>4, <1>7, <1>8 DEF a, t

\* The first action of the set is an output: it is noted, and is the last one.
LEMMA OutputOfSet ==
  ASSUME NEW r, IsSet(r.set), r.set # <<>>, Head(r.set).type = "output",
         r.out_group # OFPG_ANY => r.out_group \in DOMAIN Groups,
         NEW e, e.set = Tail(r.set), e.out_group = r.out_group, e.out_port = Head(r.set).arg[1]
  PROVE  /\ e.set = <<>> /\ Plain(Head(r.set)).type = "output"
         /\ r.out_group = OFPG_ANY => Left(e) = Left(r)
         /\ r.out_group # OFPG_ANY => /\ Plain(Head(r.set)) \in Left(r) /\ Left(e) = Left(r) \ {Plain(Head(r.set))}
                                      /\ \E b \in Left(r) : b.type = "group"
<1> DEFINE a == Head(r.set)
           T == ActsIn(Tail(r.set))
           t == Tail(r.set)
<1>1. /\ IsAction(Plain(a)) /\ ActsIn(r.set) = T \cup {Plain(a)} /\ IsSet(t)
      /\ \A b \in T : IsAction(b) /\ Order(a) <= Order(b) /\ ~Replaces(a, b)
      /\ \A i \in 1..Len(t) : Plain(t[i]) \in T
  BY SetTail
<1>2. Plain(a).type = a.type /\ Plain(a).arg = a.arg BY DEF Plain
<1>3. HasA({"group", "output"}, r.set)
  <2>1. 1 \in 1..Len(r.set) /\ r.set[1] = a BY PopShape DEF IsSet
  <2>2. QED BY <2>1 DEF HasA
<1> HIDE DEF a, T, t
<1>4. a.arg = <<a.arg[1]>> /\ a.arg[1] # OFPP_ANY BY <1>1, <1>2 DEF IsAction, a
<1>5. t = <<>>
  <2>1. SUFFICES ASSUME t # <<>> PROVE FALSE OBVIOUS
  <2>2. Len(t) \in Nat /\ Len(t) # 0 BY <1>1, <2>1, EmptyStack, PushShape DEF IsSet
  <2>3. 1 \in 1..Len(t) BY <2>2
  <2>4. Plain(t[1]) \in T /\ Plain(t[1]).type = t[1].type BY <1>1, <2>3 DEF Plain
  <2>5. IsAction(Plain(t[1])) /\ ~Replaces(a, Plain(t[1])) /\ Order(a) <= Order(Plain(t[1])) BY <1>1, <2>4
  <2>6. Order(a) = 90 BY <1>1, ActionOrder DEF a
  <2>7. Order(Plain(t[1])) = Order(t[1]) /\ Order(t[1]) \in Nat BY <2>5, ActionOrder
  <2>8. ~(Order(t[1]) < 80) /\ Order(t[1]) # 80 BY <2>5, <2>6, <2>7
  <2>9. t[1].type \in {"group", "output"} /\ t[1].type # "group" BY <2>5, <2>8, ActionOrder
  <2>10. QED BY <2>4, <2>5, <2>9 DEF Replaces, a
<1>6. T = {} BY <1>5, EmptySet DEF T, t
<1>7. ActsIn(e.set) = {} /\ ~HasA({"group", "output"}, e.set)
  <2>1. e.set = <<>> BY <1>5 DEF t
  <2>2. QED BY <2>1, EmptySet, HasIs
<1>8. CASE r.out_group = OFPG_ANY
  <2>1. Noted(r) = {} BY <1>3, <1>8, NotedIs
  <2>2. e.out_port = a.arg[1] BY DEF a
  <2>3. [type |-> "output", arg |-> <<e.out_port>>] = Plain(a) BY <1>4, <2>2 DEF Plain, a
  <2> HIDE DEF Plain
  <2>4. Noted(e) = {Plain(a)} BY <1>4, <1>7, <1>8, <2>2, <2>3 DEF Noted
  <2>5. Left(e) = Left(r) BY <1>1, <1>6, <1>7, <2>1, <2>4 DEF Left
  <2>6. QED BY <1>2, <1>5, <1>8, <2>5 DEF a, t
<1>9. CASE r.out_group # OFPG_ANY
  <2> DEFINE b == [type |-> "group", arg |-> <<r.out_group>>]
  <2>1. Noted(r) = {b} /\ Noted(e) = {b} BY <1>9 DEF Noted
  <2>2. b.type = "group" OBVIOUS
  <2> HIDE DEF b
  <2>3. Left(e) = {b} /\ Left(r) = {Plain(a), b} BY <1>1, <1>6, <1>7, <2>1 DEF Left
  <2>4. Plain(a) # b BY <1>2, <2>2 DEF a
  <2>5. QED BY <1>2, <1>5, <1>9, <2>2, <2>3, <2>4 DEF a, t
<1>10. QED BY <1>8, <1>9

\* The packet of the set is now e, and what is left of it gives what was left before.
LEMMA SetGoesOn ==
  ASSUME NEW goal, Now(goal), Top.op = "set",
         NEW e, pkts'[Top.pkt] = e, \A q \in Worked(work) : q # Top.pkt => pkts'[q] = pkts[q],
         e.in_port = pkts[Top.pkt].in_port, e.packet_out = pkts[Top.pkt].packet_out,
         IsSet(e.set),
         e.out_group # OFPG_ANY => /\ e.out_group \in DOMAIN Groups
                                   /\ \A i \in 1..Len(e.set) : e.set[i].type = "output",
         work' = work, sent' = sent,
         SetOutcomes(e.hdr, Ctx(pkts[Top.pkt], network), Left(e))
           \subseteq SetOutcomes(pkts[Top.pkt].hdr, Ctx(pkts[Top.pkt], network), Left(pkts[Top.pkt]))
  PROVE  Promised(work', pkts', sent', goal, network)
<1> DEFINE p == Top.pkt
<1>1. Top = Head(work) /\ Rest = Tail(work) /\ Worked(work) \subseteq DOMAIN pkts /\ work = Onto(Top, Rest)
  BY SetIs
<1>2. Others(work, pkts', pkts) BY <1>1, OthersAre
<1>3. Ctx(e, network) = Ctx(pkts[p], network) BY DEF Ctx
<1>4. Shape(Top, e) BY DEF Shape
<1>5. SameAs(work, pkts, Top, e, network)
  <2>1. ASSUME NEW x, NEW y, Gives(Top, e, e.hdr, HdrAt(Tail(work), pkts, 1), network, x, y)
        PROVE  TopGives(work, pkts, network, x, y)
    <3>1. y = HdrAt(Tail(work), pkts, 1) /\ x \in SetOutcomes(pkts[p].hdr, Ctx(pkts[p], network), Left(pkts[p]))
      BY <1>3, <2>1 DEF Gives
    <3>2. QED BY <1>1, <3>1 DEF TopGives, Gives
  <2>2. QED BY <2>1 DEF SameAs
<1>6. Promised(Onto(Top, Tail(work)), pkts', sent, goal, network) BY <1>1, <1>2, <1>4, <1>5, StepQuiet DEF Now
<1>7. QED BY <1>1, <1>6

LEMMA SetActionPromised ==
  ASSUME Rules, NEW goal, Now(goal), SetAction
  PROVE  Promised(work', pkts', sent', goal, network)
<1> DEFINE p == Top.pkt
           r == pkts[p]
           h == r.hdr
           c == Ctx(r, network)
           a == Head(r.set)
           r1 == [r EXCEPT !.set = Tail(@)]
           e == Execute(r1, a)
           L == Left(r)
<1>1. Top.op = "set" /\ r.set # <<>> /\ pkts' = [pkts EXCEPT ![p] = e] /\ work' = work /\ sent' = sent
  BY DEF SetAction
<1>2. /\ IsSet(r.set) /\ p \in DOMAIN pkts /\ IsPacket(r) /\ Worked(work) \subseteq DOMAIN pkts
      /\ r.out_group # OFPG_ANY => /\ r.out_group \in DOMAIN Groups
                                   /\ \A i \in 1..Len(r.set) : r.set[i].type = "output"
  BY <1>1, SetIs
<1>3. pkts'[p] = e /\ \A q \in Worked(work) : q # p => pkts'[q] = pkts[q] BY <1>1, <1>2
<1>4. /\ IsPacket(r1) /\ r1.set = Tail(r.set) /\ r1.in_port = r.in_port /\ r1.packet_out = r.packet_out
      /\ r1.hdr = h /\ r1.out_port = r.out_port /\ r1.out_group = r.out_group
  BY <1>2 DEF IsPacket
<1> HIDE DEF r1, a
<1>5. /\ e.in_port = r.in_port /\ e.packet_out = r.packet_out /\ e.set = Tail(r.set)
      /\ e.hdr = IF a.type \in {"group", "output"} THEN h ELSE Modify(h, a)
      /\ e.out_port = IF a.type = "output" THEN a.arg[1] ELSE r.out_port
      /\ e.out_group = IF a.type = "group" THEN a.arg[1] ELSE r.out_group
  <2>1. /\ e.in_port = r1.in_port /\ e.packet_out = r1.packet_out /\ e.set = r1.set
        /\ e.hdr = IF a.type \in {"group", "output"} THEN r1.hdr ELSE Modify(r1.hdr, a)
        /\ e.out_port = IF a.type = "output" THEN a.arg[1] ELSE r1.out_port
        /\ e.out_group = IF a.type = "group" THEN a.arg[1] ELSE r1.out_group
    BY <1>4, ExecuteIs
  <2> HIDE DEF e, r, h
  <2>2. QED BY <1>4, <2>1
<1>6. SetRule(h, c, L) BY DEF Rules
<1>7. IsSet(Tail(r.set)) /\ IsAction(Plain(a)) BY <1>1, <1>2, SetTail DEF a
<1> HIDE DEF e, L
<1>8. IsSet(e.set) BY <1>5, <1>7
<1>9. CASE a.type \notin {"group", "output"}
  <2>1. e.out_port = r.out_port /\ e.out_group = r.out_group /\ e.set = Tail(r.set) BY <1>5, <1>9
  <2>2. e.out_group = OFPG_ANY /\ Plain(a) \in FirstActions(L) /\ Left(e) = L \ {Plain(a)}
    BY <1>1, <1>2, <1>9, <2>1, ModifyOfSet DEF a, L
  <2>3. SetOutcomes(Modify(h, Plain(a)), c, L \ {Plain(a)}) \subseteq SetOutcomes(h, c, L)
    BY <1>6, <2>2 DEF SetRule
  <2>4. Modify(h, Plain(a)) = Modify(h, a)
    <3>1. Plain(a).type = a.type /\ Plain(a).arg = a.arg BY DEF Plain
    <3> HIDE DEF Plain
    <3>2. a.type \in {"set_field", "push_vlan", "pop_vlan", "dec_nw_ttl"} BY <1>7, <1>9, <3>1 DEF IsAction
    <3> DEFINE b == Plain(a)
    <3> HIDE DEF b, h
    <3>3. Modify(h, b) = Modify(h, a) BY <3>1, <3>2 DEF Modify, b
    <3>4. QED BY <3>3 DEF b
  <2>5. e.hdr = Modify(h, a) BY <1>5, <1>9
  <2>6. SetOutcomes(e.hdr, c, Left(e)) \subseteq SetOutcomes(h, c, L) BY <2>2, <2>3, <2>4, <2>5
  <2>7. QED BY <1>1, <1>3, <1>5, <1>8, <2>2, <2>6, SetGoesOn DEF L
<1>10. CASE a.type = "group"
  <2>1. e.out_group = a.arg[1] /\ e.hdr = h BY <1>5, <1>10
  <2>2. Left(e) = L /\ e.out_group \in DOMAIN Groups /\ \A i \in 1..Len(e.set) : e.set[i].type = "output"
    <3>1. /\ Head(r.set).type = "group" /\ e.set = Tail(r.set) /\ e.out_group = Head(r.set).arg[1]
          /\ r.set # <<>> /\ IsSet(r.set)
          /\ r.out_group # OFPG_ANY => \A i \in 1..Len(r.set) : r.set[i].type = "output"
      BY <1>1, <1>2, <1>5, <1>10, <2>1 DEF a
    <3> HIDE DEF r
    <3>2. /\ Left(e) = Left(r) /\ e.out_group \in DOMAIN Groups
          /\ \A i \in 1..Len(e.set) : e.set[i].type = "output"
      BY <3>1, GroupOfSet
    <3>3. QED BY <3>2 DEF L
  <2>3. SetOutcomes(e.hdr, c, Left(e)) \subseteq SetOutcomes(h, c, L) BY <2>1, <2>2
  <2>4. QED BY <1>1, <1>3, <1>5, <1>8, <2>2, <2>3, SetGoesOn DEF L
<1>11. CASE a.type = "output"
  <2>1. e.out_group = r.out_group /\ e.out_port = a.arg[1] /\ e.hdr = h BY <1>5, <1>11
  <2>2. /\ e.set = <<>> /\ Plain(a).type = "output"
        /\ r.out_group = OFPG_ANY => Left(e) = L
        /\ r.out_group # OFPG_ANY => /\ Plain(a) \in L /\ Left(e) = L \ {Plain(a)}
                                     /\ \E b \in L : b.type = "group"
    BY <1>1, <1>2, <1>5, <1>11, <2>1, OutputOfSet DEF a, L
  <2>3. SetOutcomes(h, c, Left(e)) \subseteq SetOutcomes(h, c, L)
    <3>1. CASE r.out_group = OFPG_ANY BY <2>2, <3>1
    <3>2. CASE r.out_group # OFPG_ANY
      <4>1. {b \in L : b.type = "group"} # {} /\ Plain(a) \in {b \in L : b.type = "output"} BY <2>2, <3>2
      <4>2. SetOutcomes(h, c, L \ {Plain(a)}) \subseteq SetOutcomes(h, c, L) BY <1>6, <4>1 DEF SetRule
      <4>3. QED BY <2>2, <3>2, <4>2
    <3>3. QED BY <3>1, <3>2
  <2>4. \A i \in 1..Len(e.set) : e.set[i].type = "output" BY <2>2
  <2>5. QED BY <1>1, <1>2, <1>3, <1>5, <1>8, <2>1, <2>3, <2>4, SetGoesOn DEF L
<1>12. QED BY <1>9, <1>10, <1>11

\* The packet is put out or given to a group when the set is empty.
LEMMA SetDonePromised ==
  ASSUME Rules, NEW goal, Now(goal), SetDone
  PROVE  Promised(work', pkts', sent', goal, network)
<1> DEFINE p == Top.pkt
           r == pkts[p]
           h == r.hdr
           c == Ctx(r, network)
           L == Left(r)
           t == Tail(work)
<1>1. Top.op = "set" /\ r.set = <<>> BY DEF SetDone
<1>2. /\ p \in DOMAIN pkts /\ p \in Worked(work) /\ IsPacket(r) /\ Worked(work) \subseteq DOMAIN pkts
      /\ Top = Head(work) /\ Rest = t /\ IsStack(sent)
      /\ r.out_group # OFPG_ANY => r.out_group \in DOMAIN Groups
  BY <1>1, SetIs
<1>3. IF r.out_group # OFPG_ANY
      THEN /\ pkts' = With(pkts, p, [r EXCEPT !.out_group = OFPG_ANY])
           /\ work' = <<[op |-> "group", pkt |-> p, group |-> r.out_group]>> \o Rest
           /\ sent' = sent
      ELSE IF r.out_port # OFPP_ANY
      THEN Output(With(pkts, p, [r EXCEPT !.out_port = OFPP_ANY]), p, r.out_port, AfterOutput(p) \o Rest)
      ELSE pkts' = Destroyed(pkts, p) /\ work' = Rest /\ sent' = sent
  BY DEF SetDone
<1>4. SetRule(h, c, L) BY DEF Rules
<1>5. ActsIn(r.set) = {} /\ ~HasA({"group", "output"}, r.set) BY <1>1, EmptySet, HasIs
<1>6. L = Noted(r) BY <1>5 DEF Left
<1> HIDE DEF t, L
<1>7. \A x : x \in SetOutcomes(h, c, L) => TopGives(work, pkts, network, x, HdrAt(t, pkts, 1))
  BY <1>1, <1>2 DEF TopGives, Gives, t, L
<1>8. CASE r.out_group # OFPG_ANY
  <2> DEFINE g == r.out_group
             a == [type |-> "group", arg |-> <<g>>]
             f == [op |-> "group", pkt |-> p, group |-> g]
             r1 == [r EXCEPT !.out_group = OFPG_ANY]
  <2>1. L = {a} /\ a.type = "group" /\ a.arg[1] = g BY <1>6, <1>8 DEF Noted
  <2>2. GroupOutcomes(h, c, g) \subseteq SetOutcomes(h, c, L)
    <3> HIDE DEF a
    <3>1. a \in {b \in L : b.type = "group"} BY <2>1
    <3>2. QED BY <1>4, <2>1, <3>1 DEF SetRule
  <2>3. pkts' = With(pkts, p, r1) /\ work' = Onto(f, Rest) /\ sent' = sent BY <1>3, <1>8 DEF Onto
  <2>4. r1.hdr = h /\ r1.set = <<>> /\ r1.out_group = OFPG_ANY /\ r1.in_port = r.in_port /\ r1.packet_out = r.packet_out
    BY <1>1, <1>2 DEF IsPacket
  <2>5. f.op = "group" /\ f.pkt = p /\ f.group = g OBVIOUS
  <2> HIDE DEF f, r1, a
  <2>6. With(pkts, p, r1)[p] = r1 /\ \A q \in DOMAIN pkts : q # p => With(pkts, p, r1)[q] = pkts[q] BY DEF With
  <2>7. pkts'[p] = r1 /\ \A q \in Worked(work) : q # p => pkts'[q] = pkts[q] BY <1>2, <2>3, <2>6
  <2>8. Others(work, pkts', pkts) BY <1>1, <1>2, <2>7, OthersAre
  <2>9. Shape(f, r1) BY <1>2, <1>8, <2>4, <2>5 DEF Shape
  <2>10. SameAs(work, pkts, f, r1, network)
    <3>1. ASSUME NEW x, NEW y, Gives(f, r1, r1.hdr, HdrAt(t, pkts, 1), network, x, y)
          PROVE  TopGives(work, pkts, network, x, y)
      <4>1. Ctx(r1, network) = c BY <2>4 DEF Ctx
      <4>2. y = HdrAt(t, pkts, 1) /\ x \in GroupOutcomes(h, c, g) BY <2>4, <2>5, <3>1, <4>1 DEF Gives
      <4>3. QED BY <1>7, <2>2, <4>2
    <3>2. QED BY <3>1 DEF SameAs, t
  <2>11. Promised(Onto(f, Tail(work)), pkts', sent, goal, network)
    BY <1>1, <1>2, <2>5, <2>7, <2>8, <2>9, <2>10, StepQuiet DEF Now
  <2>12. QED BY <1>2, <2>3, <2>11 DEF t
<1>9. CASE r.out_group = OFPG_ANY /\ r.out_port # OFPP_ANY
  <2> DEFINE port == r.out_port
             a == [type |-> "output", arg |-> <<port>>]
             f == [op |-> "destroy", pkt |-> p]
             r1 == [r EXCEPT !.out_port = OFPP_ANY]
  <2>1. L = {a} /\ a.type = "output" /\ a.arg[1] = port BY <1>5, <1>6, <1>9 DEF Noted
  <2>2. SendOutcomes(h, c, port) \subseteq SetOutcomes(h, c, L)
    <3> HIDE DEF a
    <3>1. a \in {b \in L : b.type = "output"} BY <2>1
    <3>2. QED BY <1>4, <2>1, <3>1 DEF SetRule
  <2>3. Output(With(pkts, p, r1), p, port, Onto(f, Rest)) BY <1>3, <1>9 DEF AfterOutput, Onto
  <2>4. r1.hdr = h /\ IsPacket(r1) /\ r1.in_port = r.in_port /\ r1.packet_out = r.packet_out
    BY <1>1, <1>2 DEF IsPacket
  <2>5. f.op = "destroy" /\ f.pkt = p OBVIOUS
  <2> HIDE DEF f, r1, a, port
  <2>6. Shape(f, r1) BY <2>5 DEF Shape
  <2>7. SendsThen(f, r1, port)
    <3>1. ASSUME NEW x0, NEW x, NEW y, IsStack(x0), x0 \in SendOutcomes(r1.hdr, Ctx(r1, network), port),
                 Gives(f, r1, r1.hdr, HdrAt(t, pkts, 1), network, x, y)
          PROVE  TopGives(work, pkts, network, x0 \o x, y)
      <4>1. Ctx(r1, network) = c BY <2>4 DEF Ctx
      <4>2. x = <<>> /\ y = HdrAt(t, pkts, 1) BY <2>5, <3>1 DEF Gives
      <4>3. x0 \o x = x0 BY <3>1, <4>2, Concatenation
      <4>4. x0 \in SetOutcomes(h, c, L) BY <2>2, <2>4, <3>1, <4>1
      <4>5. QED BY <1>7, <4>2, <4>3, <4>4
    <3>2. QED BY <3>1 DEF SendsThen, t
  <2>8. QED BY <1>1, <2>3, <2>4, <2>5, <2>6, <2>7, OutputPromised
<1>10. CASE r.out_group = OFPG_ANY /\ r.out_port = OFPP_ANY
  <2>1. L = {} BY <1>6, <1>10 DEF Noted
  <2>2. <<>> \in SetOutcomes(h, c, L) BY <1>4, <2>1 DEF SetRule
  <2>3. pkts' = Destroyed(pkts, p) /\ work' = Rest /\ sent' = sent BY <1>3, <1>10
  <2>4. Others(work, pkts', pkts) BY <1>1, <1>2, <2>3, DestroyedIs, OthersAre
  <2>5. HdrAt(t, pkts', 1) = HdrAt(t, pkts, 1) BY <1>1, <1>2, <2>4, HdrBelow DEF Now, t
  <2>6. TopGives(work, pkts, network, <<>>, HdrAt(t, pkts', 1)) BY <1>7, <2>2, <2>5
  <2>7. Promised(Tail(work), pkts', sent, goal, network) BY <2>4, <2>6, PopQuiet DEF Now, t
  <2>8. QED BY <1>2, <2>3, <2>7 DEF t
<1>11. QED BY <1>8, <1>9, <1>10

LEMMA DestroyPromised ==
  ASSUME NEW goal, Now(goal), Destroy
  PROVE  Promised(work', pkts', sent', goal, network)
<1> DEFINE t == Tail(work)
<1>1. Top.op = "destroy" /\ work' = Rest /\ pkts' = Destroyed(pkts, Top.pkt) /\ sent' = sent BY DEF Destroy
<1>2. Top = Head(work) /\ Rest = t /\ Worked(work) \subseteq DOMAIN pkts BY NowShape
<1>3. Others(work, pkts', pkts) BY <1>1, <1>2, DestroyedIs, OthersAre
<1>4. HdrAt(t, pkts', 1) = HdrAt(t, pkts, 1) BY <1>1, <1>2, <1>3, HdrBelow DEF Now
<1>5. TopGives(work, pkts, network, <<>>, HdrAt(t, pkts', 1)) BY <1>1, <1>2, <1>4 DEF TopGives, Gives
<1>6. Promised(Tail(work), pkts', sent, goal, network) BY <1>3, <1>5, PopQuiet DEF Now
<1>7. QED BY <1>1, <1>2, <1>6

-----------------------------------------------------------------------------
(* Groups *)

\* What a list writes has an action of these kinds if the list has one: such an
\* action is replaced only by one of its kind.
LEMMA WrittenHas ==
  ASSUME NEW S, NEW acts, IsList(acts), NEW types, NEW k \in 1..Len(acts), acts[k].type \in types
  PROVE  \E b \in Written(S, acts) : b.type \in types
<1> DEFINE n == Len(acts)
           u == CHOOSE f : f = [i \in 0..n |-> IF i = 0 THEN S ELSE WithAction(f[i - 1], acts[i])]
           K == {i \in k..n : ~\E b \in u[i] : b.type \in types}
<1>1. n \in Nat BY DEF IsList
<1>2. SetsUpto(u, S, acts, n)
  <2>1. \E f : SetsUpto(f, S, acts, n) BY <1>1, SetsUptoExist
  <2>2. QED BY <2>1 DEF SetsUpto
<1>3. Written(S, acts) = u[n] BY DEF Written
<1> HIDE DEF u
<1>4. \A i \in 1..n : u[i] = WithAction(u[i - 1], acts[i]) BY <1>1, <1>2 DEF SetsUpto
<1>5. K = {}
  <2>1. SUFFICES ASSUME NEW x \in K PROVE FALSE OBVIOUS
  <2>2. PICK m \in K : \A j \in K : m <= j
    <3>1. K \in SUBSET Nat OBVIOUS
    <3> HIDE DEF K
    <3>2. QED BY <2>1, <3>1, LeastExists
  <2>3. m \in 1..n /\ m \in k..n /\ k \in 1..n /\ ~\E b \in u[m] : b.type \in types OBVIOUS
  <2>4. u[m] = WithAction(u[m - 1], acts[m]) BY <1>4, <2>3
  <2>5. acts[m] \in u[m] BY <2>4 DEF WithAction
  <2>6. m # k BY <2>3, <2>5
  <2>7. m - 1 \in k..n /\ ~(m <= m - 1) BY <2>3, <2>6
  <2>8. PICK b \in u[m - 1] : b.type \in types BY <2>2, <2>7
  <2>9. b \notin u[m] BY <2>3, <2>8
  <2>10. Replaces(acts[m], b) BY <2>4, <2>8, <2>9 DEF WithAction
  <2>11. acts[m].type = b.type BY <2>10 DEF Replaces
  <2>12. QED BY <2>3, <2>5, <2>8, <2>11
<1>6. n \in k..n BY <1>1
<1>7. QED BY <1>3, <1>5, <1>6

\* A new packet with the actions of a bucket that puts it out.
LEMMA BucketSet ==
  ASSUME NEW b, IsList(b.actions), Sends(b), NEW r, r.set = WriteActions(<<>>, b.actions, -1),
         r.out_group = OFPG_ANY
  PROVE  IsSet(r.set) /\ Left(r) = Written({}, b.actions)
<1> DEFINE types == {"group", "output"}
<1>1. IsSet(r.set) /\ ActsIn(r.set) = Written({}, b.actions)
  <2> DEFINE s == <<>>
  <2>1. IsSet(s) /\ ActsIn(s) = {} BY EmptySet
  <2> HIDE DEF s
  <2>2. IsSet(WriteActions(s, b.actions, -1)) /\ ActsIn(WriteActions(s, b.actions, -1)) = Written(ActsIn(s), b.actions)
    BY <2>1, WriteActionsIs
  <2>3. QED BY <2>1, <2>2 DEF s
<1>2. PICK k \in 1..Len(b.actions) : b.actions[k].type \in types BY DEF Sends
<1>3. \E a \in Written({}, b.actions) : a.type \in types
  <2> HIDE DEF types
  <2>1. QED BY <1>2, WrittenHas
<1>4. HasA(types, r.set) BY <1>1, <1>3, HasIs
<1>5. Noted(r) = {} BY <1>4, NotedIs
<1>6. QED BY <1>1, <1>5 DEF Left

LEMMA GroupIs ==
  ASSUME NEW goal, Now(goal), Top.op = "group"
  PROVE  /\ Top = Head(work) /\ Rest = Tail(work) /\ Top.group \in DOMAIN Groups
         /\ pkts[Top.pkt].set = <<>> /\ pkts[Top.pkt].out_group = OFPG_ANY
         /\ Top.pkt \in Worked(work) /\ Top.pkt \in DOMAIN pkts /\ IsPacket(pkts[Top.pkt])
         /\ Worked(work) \subseteq DOMAIN pkts
<1>1. /\ Shape(Top, pkts[Top.pkt]) /\ Top = Head(work) /\ Rest = Tail(work)
      /\ Top.pkt \in Worked(work) /\ Top.pkt \in DOMAIN pkts /\ IsPacket(pkts[Top.pkt])
      /\ Worked(work) \subseteq DOMAIN pkts
  BY NowShape
<1>2. Top.group \in DOMAIN Groups /\ pkts[Top.pkt].set = <<>> /\ pkts[Top.pkt].out_group = OFPG_ANY
  BY <1>1 DEF Shape
<1>3. QED BY <1>1, <1>2

\* The buckets of a group.
LEMMA BucketIs ==
  ASSUME BucketsSend, NEW g \in DOMAIN Groups
  PROVE  /\ IsStack(Buckets(g)) /\ DOMAIN Buckets(g) = 1..Len(Buckets(g)) /\ Len(Buckets(g)) \in Nat
         /\ \A i \in 1..Len(Buckets(g)) : /\ IsBucket(Buckets(g)[i], Groups[g].type)
                                          /\ IsList(Buckets(g)[i].actions) /\ Sends(Buckets(g)[i])
<1>1. Buckets(g) \in Seq(Range(Buckets(g))) BY GroupsAssumption DEF Buckets
<1>2. DOMAIN Buckets(g) = 1..Len(Buckets(g)) /\ Len(Buckets(g)) \in Nat BY <1>1
<1>3. \A i \in DOMAIN Buckets(g) : IsBucket(Buckets(g)[i], Groups[g].type) BY GroupsAssumption DEF Buckets
<1>4. \A i \in DOMAIN Buckets(g) : Sends(Buckets(g)[i]) BY DEF BucketsSend
<1>5. \A i \in DOMAIN Buckets(g) : IsList(Buckets(g)[i].actions) BY <1>3 DEF IsBucket
<1>6. IsStack(Buckets(g)) BY <1>1 DEF IsStack
<1>7. QED BY <1>2, <1>3, <1>4, <1>5, <1>6

\* The packet is given to one of the buckets that may have it.
LEMMA ToBucketPromised ==
  ASSUME Rules, NEW goal, Now(goal), Top.op = "group", Groups[Top.group].type # "all",
         NEW b, IsList(b.actions), Sends(b), b \in Candidates(Top.group, Ctx(pkts[Top.pkt], network)),
         ToBucket(b), sent' = sent
  PROVE  Promised(work', pkts', sent', goal, network)
<1> DEFINE p == Top.pkt
           h == pkts[p].hdr
           c == Ctx(pkts[p], network)
           r == [pkts[p] EXCEPT !.set = WriteActions(@, b.actions, -1)]
           f == [op |-> "set", pkt |-> p]
           t == Tail(work)
<1>1. /\ Top = Head(work) /\ Rest = t /\ pkts[p].set = <<>> /\ pkts[p].out_group = OFPG_ANY
      /\ p \in DOMAIN pkts /\ IsPacket(pkts[p]) /\ Worked(work) \subseteq DOMAIN pkts
  BY GroupIs
<1>2. pkts' = [pkts EXCEPT ![p] = r] /\ work' = Onto(f, Rest) BY DEF ToBucket, Onto
<1>3. /\ r.hdr = h /\ r.in_port = pkts[p].in_port /\ r.packet_out = pkts[p].packet_out
      /\ r.out_group = OFPG_ANY /\ r.set = WriteActions(<<>>, b.actions, -1)
  BY <1>1 DEF IsPacket
<1>4. f.op = "set" /\ f.pkt = p OBVIOUS
<1> HIDE DEF r, f, t
<1>5. pkts'[p] = r /\ \A q \in Worked(work) : q # p => pkts'[q] = pkts[q] BY <1>1, <1>2
<1>6. Others(work, pkts', pkts) BY <1>1, <1>5, OthersAre
<1>7. IsSet(r.set) /\ Left(r) = Written({}, b.actions) BY <1>3, BucketSet
<1>8. Shape(f, r) BY <1>3, <1>4, <1>7 DEF Shape
<1>9. GroupRule(h, c, Top.group) BY DEF Rules
<1>10. SetOutcomes(h, c, Written({}, b.actions)) \subseteq GroupOutcomes(h, c, Top.group)
  BY <1>9 DEF GroupRule, BucketOutcomes
<1>11. SameAs(work, pkts, f, r, network)
  <2>1. ASSUME NEW x, NEW y, Gives(f, r, r.hdr, HdrAt(t, pkts, 1), network, x, y)
        PROVE  TopGives(work, pkts, network, x, y)
    <3>1. Ctx(r, network) = c BY <1>3 DEF Ctx
    <3>2. y = HdrAt(t, pkts, 1) /\ x \in GroupOutcomes(h, c, Top.group) BY <1>3, <1>4, <1>7, <1>10, <2>1, <3>1 DEF Gives
    <3>3. QED BY <1>1, <3>2 DEF TopGives, Gives, t
  <2>2. QED BY <2>1 DEF SameAs, t
<1>12. Promised(Onto(f, Tail(work)), pkts', sent, goal, network)
  BY <1>1, <1>4, <1>5, <1>6, <1>8, <1>11, StepQuiet DEF Now
<1>13. QED BY <1>1, <1>2, <1>12 DEF t

\* There is no bucket that may have it.
LEMMA NoBucketPromised ==
  ASSUME NEW goal, Now(goal), Top.op \in {"group", "all"}, NoBucket, sent' = sent,
         TopGives(work, pkts, network, <<>>, HdrAt(Tail(work), pkts, 1))
  PROVE  Promised(work', pkts', sent', goal, network)
<1> DEFINE t == Tail(work)
<1>1. work' = Rest /\ pkts' = Destroyed(pkts, Top.pkt) BY DEF NoBucket
<1>2. Top = Head(work) /\ Rest = t /\ Worked(work) \subseteq DOMAIN pkts BY NowShape
<1>3. Others(work, pkts', pkts) BY <1>1, <1>2, DestroyedIs, OthersAre
<1>4. HdrAt(t, pkts', 1) = HdrAt(t, pkts, 1) BY <1>2, <1>3, HdrBelow DEF Now
<1>5. Promised(Tail(work), pkts', sent, goal, network) BY <1>3, <1>4, PopQuiet DEF Now
<1>6. QED BY <1>1, <1>2, <1>5

LEMMA NoneToChoose ==
  ASSUME Rules, NEW goal, Now(goal), Top.op = "group", Groups[Top.group].type # "all", NoBucket, sent' = sent,
         Candidates(Top.group, Ctx(pkts[Top.pkt], network)) = {}
  PROVE  Promised(work', pkts', sent', goal, network)
<1>1. Top = Head(work) BY GroupIs
<1> DEFINE h == pkts[Top.pkt].hdr
           c == Ctx(pkts[Top.pkt], network)
<1>2. GroupRule(h, c, Top.group) BY DEF Rules
<1>3. <<>> \in GroupOutcomes(h, c, Top.group) BY <1>2 DEF GroupRule
<1>4. TopGives(work, pkts, network, <<>>, HdrAt(Tail(work), pkts, 1)) BY <1>1, <1>3 DEF TopGives, Gives
<1>5. QED BY <1>4, NoBucketPromised

\* Whether a bucket may have the packet.
CanHave(g, off, j) ==
  LET alive(i) == Buckets(g)[i].watch_port \in Ports \ off
  IN  /\ Groups[g].type = "select" => Buckets(g)[j].weight > 0
      /\ Groups[g].type = "indirect" => j = 1
      /\ Groups[g].type = "ff" => alive(j) /\ \A k \in 1..(j - 1) : ~alive(k)

LEMMA CandidatesAre ==
  ASSUME NEW g, Groups[g].type \in {"select", "indirect", "ff"}, NEW c
  PROVE  /\ \A j \in DOMAIN Buckets(g) : CanHave(g, c.down, j) => Buckets(g)[j] \in Candidates(g, c)
         /\ (\A j \in DOMAIN Buckets(g) : ~CanHave(g, c.down, j)) => Candidates(g, c) = {}
<1> DEFINE alive(i) == Buckets(g)[i].watch_port \in Ports \ c.down
           able(j) == CASE Groups[g].type = "select" -> Buckets(g)[j].weight > 0
                        [] Groups[g].type = "indirect" -> j = 1
                        [] Groups[g].type = "ff" -> alive(j) /\ \A k \in 1..(j - 1) : ~alive(k)
                        [] OTHER -> FALSE
<1>1. Candidates(g, c) = {Buckets(g)[i] : i \in {j \in DOMAIN Buckets(g) : able(j)}} BY DEF Candidates
<1>2. ASSUME NEW j PROVE able(j) <=> CanHave(g, c.down, j)
  <2>1. CASE Groups[g].type = "select" BY <2>1 DEF CanHave
  <2>2. CASE Groups[g].type = "indirect" BY <2>2 DEF CanHave
  <2>3. CASE Groups[g].type = "ff" BY <2>3 DEF CanHave
  <2>4. QED BY <2>1, <2>2, <2>3
<1> HIDE DEF able
<1>3. QED BY <1>1, <1>2

LEMMA SelectPromised ==
  ASSUME Rules, BucketsSend, WrrsAgree, NEW goal, Now(goal), ExecuteSelect
  PROVE  Promised(work', pkts', sent', goal, network)
<1> DEFINE g == Top.group
           c == Ctx(pkts[Top.pkt], network)
           n == Len(Buckets(g))
<1>1. Top.op = "group" /\ Groups[g].type = "select" /\ sent' = sent BY DEF ExecuteSelect, AtGroup
<1>2. g \in DOMAIN Groups BY <1>1, GroupIs
<1>3. /\ DOMAIN Buckets(g) = 1..n
      /\ \A i \in 1..n : /\ IsBucket(Buckets(g)[i], Groups[g].type)
                         /\ IsList(Buckets(g)[i].actions) /\ Sends(Buckets(g)[i])
  BY <1>2, BucketIs
<1>4. g \in Selecting /\ WrrAgrees(g, wrr[g]) BY <1>1, <1>2 DEF Selecting, WrrsAgree
<1> HIDE DEF g, c, n
<1>5. CASE Turns(g) = 0
  <2>1. NoBucket BY <1>5 DEF ExecuteSelect, g
  <2>2. n \in Nat /\ (Buckets(g) # <<>> => Turns(g) \in 1..n) BY <1>2, <1>4, GroupShape, SelectsOne DEF n
  <2>3. Buckets(g) = <<>> BY <1>5, <2>2
  <2>4. DOMAIN Buckets(g) = {} BY <2>3
  <2>5. Candidates(g, c) = {} BY <1>1, <2>4, CandidatesAre
  <2>6. QED BY <1>1, <2>1, <2>5, NoneToChoose DEF g, c
<1>6. CASE Turns(g) # 0
  <2> DEFINE i == Looked(g, Turns(g)).curr_bucket
             b == Buckets(g)[i]
  <2>1. ToBucket(b) BY <1>6 DEF ExecuteSelect, g
  <2>2. Buckets(g) # <<>>
    <3>1. SUFFICES ASSUME Buckets(g) = <<>> PROVE Turns(g) = 0 BY <1>6
    <3>2. 1..Len(Buckets(g)) = {} BY <3>1
    <3>3. QED BY <3>2 DEF Turns
  <2>3. WrrAgrees(g, Selected(g)) BY <1>4, <2>2, SelectedAgrees
  <2>4. Selected(g).curr_bucket = i BY DEF Selected
  <2>5. i \in 1..n BY <2>2, <2>3, <2>4 DEF WrrAgrees, n
  <2> HIDE DEF i
  <2>6. IsBucket(b, "select") /\ IsList(b.actions) /\ Sends(b) BY <1>1, <1>3, <2>5
  <2>7. b.weight > 0 BY <2>6, Uint16 DEF IsBucket
  <2>8. CanHave(g, c.down, i) BY <1>1, <2>7 DEF CanHave
  <2>9. b \in Candidates(g, c)
    <3>1. i \in DOMAIN Buckets(g) /\ Groups[g].type \in {"select", "indirect", "ff"} BY <1>1, <1>3, <2>5
    <3>2. QED BY <2>8, <3>1, CandidatesAre
  <2> HIDE DEF b
  <2>10. Groups[Top.group].type # "all" BY <1>1 DEF g
  <2>11. b \in Candidates(Top.group, Ctx(pkts[Top.pkt], network)) BY <2>9 DEF g, c
  <2>12. QED BY <1>1, <2>1, <2>6, <2>10, <2>11, ToBucketPromised
<1>7. QED BY <1>5, <1>6

LEMMA IndirectPromised ==
  ASSUME Rules, BucketsSend, NEW goal, Now(goal), ExecuteIndirect
  PROVE  Promised(work', pkts', sent', goal, network)
<1> DEFINE g == Top.group
           c == Ctx(pkts[Top.pkt], network)
           n == Len(Buckets(g))
<1>1. Top.op = "group" /\ Groups[g].type = "indirect" /\ sent' = sent BY DEF ExecuteIndirect, AtGroup
<1>2. g \in DOMAIN Groups BY <1>1, GroupIs
<1>3. /\ DOMAIN Buckets(g) = 1..n /\ IsStack(Buckets(g)) /\ n \in Nat
      /\ \A i \in 1..n : IsList(Buckets(g)[i].actions) /\ Sends(Buckets(g)[i])
  BY <1>2, BucketIs
<1> HIDE DEF g, c, n
<1>4. CASE Buckets(g) = <<>>
  <2>1. NoBucket BY <1>4 DEF ExecuteIndirect, g
  <2>2. DOMAIN Buckets(g) = {} BY <1>4
  <2>3. Candidates(g, c) = {} BY <1>1, <2>2, CandidatesAre
  <2>4. QED BY <1>1, <2>1, <2>3, NoneToChoose DEF g, c
<1>5. CASE Buckets(g) # <<>>
  <2> DEFINE b == Head(Buckets(g))
  <2>1. ToBucket(b) BY <1>5 DEF ExecuteIndirect, g
  <2>2. 1 \in 1..n /\ b = Buckets(g)[1] BY <1>3, <1>5, PopShape DEF n
  <2> HIDE DEF b
  <2>3. IsList(b.actions) /\ Sends(b) BY <1>3, <2>2
  <2>4. CanHave(g, c.down, 1) BY <1>1 DEF CanHave
  <2>5. b \in Candidates(g, c) BY <1>1, <1>3, <2>2, <2>4, CandidatesAre
  <2>6. Groups[Top.group].type # "all" BY <1>1 DEF g
  <2>7. b \in Candidates(Top.group, Ctx(pkts[Top.pkt], network)) BY <2>5 DEF g, c
  <2>8. QED BY <1>1, <2>1, <2>3, <2>6, <2>7, ToBucketPromised
<1>6. QED BY <1>4, <1>5

LEMMA FfPromised ==
  ASSUME Rules, BucketsSend, NEW goal, Now(goal), ExecuteFf
  PROVE  Promised(work', pkts', sent', goal, network)
<1> DEFINE g == Top.group
           c == Ctx(pkts[Top.pkt], network)
           n == Len(Buckets(g))
           alive == {i \in DOMAIN Buckets(g) : IsAlive(Buckets(g)[i])}
<1>1. Top.op = "group" /\ Groups[g].type = "ff" /\ sent' = sent BY DEF ExecuteFf, AtGroup
<1>2. g \in DOMAIN Groups BY <1>1, GroupIs
<1>3. /\ DOMAIN Buckets(g) = 1..n /\ n \in Nat
      /\ \A i \in 1..n : /\ IsBucket(Buckets(g)[i], Groups[g].type)
                         /\ IsList(Buckets(g)[i].actions) /\ Sends(Buckets(g)[i])
  BY <1>2, BucketIs
<1>4. c.down = down BY CtxIs
<1>5. \A i \in 1..n : i \in alive <=> Buckets(g)[i].watch_port \in Ports \ c.down
  <2>1. OFPP_ANY \notin Ports BY PortsAssumption DEF OFPP_ANY
  <2>2. \A i \in 1..n : Buckets(g)[i].watch_port \in Ports \cup {OFPP_ANY} BY <1>3 DEF IsBucket
  <2>3. QED BY <1>3, <1>4, <2>1, <2>2 DEF IsAlive
<1>6. alive \in SUBSET Nat /\ alive \subseteq 1..n BY <1>3
<1>7. IF alive = {} THEN NoBucket ELSE ToBucket(Buckets(g)[CHOOSE i \in alive : \A other \in alive : i <= other])
  BY DEF ExecuteFf
<1> HIDE DEF g, c, n, alive
<1>8. CASE alive = {}
  <2>1. \A i \in DOMAIN Buckets(g) : ~CanHave(g, c.down, i) BY <1>1, <1>3, <1>5, <1>8 DEF CanHave
  <2>2. Candidates(g, c) = {} BY <1>1, <2>1, CandidatesAre
  <2>3. QED BY <1>1, <1>7, <1>8, <2>2, NoneToChoose DEF g, c
<1>9. CASE alive # {}
  <2> DEFINE i == CHOOSE i \in alive : \A other \in alive : i <= other
             b == Buckets(g)[i]
  <2>1. i \in alive /\ \A other \in alive : i <= other
    <3>1. \E j \in alive : \A other \in alive : j <= other BY <1>6, <1>9, LeastExists
    <3>2. QED BY <3>1
  <2>2. ToBucket(b) BY <1>7, <1>9
  <2> HIDE DEF i
  <2>3. i \in 1..n /\ \A k \in 1..(i - 1) : k \in 1..n /\ k \notin alive
    <3>1. i \in 1..n BY <1>6, <2>1
    <3>2. \A k \in 1..(i - 1) : k \in 1..n /\ ~(i <= k) BY <1>3, <3>1
    <3>3. QED BY <2>1, <3>1, <3>2
  <2>4. CanHave(g, c.down, i) BY <1>1, <1>5, <2>1, <2>3 DEF CanHave
  <2>5. b \in Candidates(g, c) BY <1>1, <1>3, <2>3, <2>4, CandidatesAre
  <2>6. IsList(b.actions) /\ Sends(b) BY <1>3, <2>3
  <2> HIDE DEF b
  <2>7. Groups[Top.group].type # "all" BY <1>1 DEF g
  <2>8. b \in Candidates(Top.group, Ctx(pkts[Top.pkt], network)) BY <2>5 DEF g, c
  <2>9. QED BY <1>1, <2>2, <2>6, <2>7, <2>8, ToBucketPromised
<1>10. QED BY <1>8, <1>9

LEMMA AllPromised ==
  ASSUME Rules, BucketsSend, NEW goal, Now(goal), ExecuteAll
  PROVE  Promised(work', pkts', sent', goal, network)
<1> DEFINE p == Top.pkt
           r == pkts[p]
           g == Top.group
           c == Ctx(r, network)
           f == [op |-> "all", pkt |-> p, buckets |-> Buckets(g)]
           t == Tail(work)
<1>1. Top.op = "group" /\ Groups[g].type = "all" /\ work' = Onto(f, Rest) /\ pkts' = pkts /\ sent' = sent
  BY DEF ExecuteAll, AtGroup, Onto
<1>2. Top = Head(work) /\ Rest = t /\ g \in DOMAIN Groups BY <1>1, GroupIs
<1>3. /\ IsStack(Buckets(g))
      /\ \A i \in 1..Len(Buckets(g)) : IsList(Buckets(g)[i].actions) /\ Sends(Buckets(g)[i])
  BY <1>2, BucketIs
<1>4. f.op = "all" /\ f.pkt = p /\ f.buckets = Buckets(g) /\ "buckets" \in DOMAIN f OBVIOUS
<1> HIDE DEF f, t
<1>5. Others(work, pkts, pkts) BY OthersAre DEF Kept
<1>6. Shape(f, r) BY <1>3, <1>4 DEF Shape
<1>7. GroupRule(r.hdr, c, g) BY DEF Rules
<1>8. AllOutcomes(r.hdr, c, Buckets(g)) \subseteq GroupOutcomes(r.hdr, c, g) BY <1>1, <1>7 DEF GroupRule
<1>9. SameAs(work, pkts, f, r, network)
  <2>1. ASSUME NEW x, NEW y, Gives(f, r, r.hdr, HdrAt(t, pkts, 1), network, x, y)
        PROVE  TopGives(work, pkts, network, x, y)
    <3>1. y = HdrAt(t, pkts, 1) /\ x \in GroupOutcomes(r.hdr, c, g) BY <1>4, <1>8, <2>1 DEF Gives
    <3>2. QED BY <1>1, <1>2, <3>1 DEF TopGives, Gives, t
  <2>2. QED BY <2>1 DEF SameAs, t
<1>10. Promised(Onto(f, Tail(work)), pkts, sent, goal, network)
  BY <1>1, <1>2, <1>4, <1>5, <1>6, <1>9, StepQuiet DEF Now
<1>11. QED BY <1>1, <1>2, <1>10 DEF t

LEMMA NextOfAllPromised ==
  ASSUME Rules, NEW goal, Now(goal), NextOfAll
  PROVE  Promised(work', pkts', sent', goal, network)
<1> DEFINE p == Top.pkt
           r == pkts[p]
           h == r.hdr
           c == Ctx(r, network)
           B == Top.buckets
           t == Tail(work)
<1>1. Top.op = "all" /\ sent' = sent BY DEF NextOfAll
<1>2. /\ Shape(Top, r) /\ Top = Head(work) /\ Rest = t /\ p \in Worked(work)
      /\ p \in DOMAIN pkts /\ Worked(work) \subseteq DOMAIN pkts /\ Agree(work, pkts)
  BY NowShape
<1>3. "buckets" \in DOMAIN Top /\ IsStack(B) /\ \A i \in 1..Len(B) : IsList(B[i].actions) /\ Sends(B[i])
  BY <1>1, <1>2 DEF Shape
<1>4. AllRule(h, c, B) BY DEF Rules
<1>5. \A x : x \in AllOutcomes(h, c, B) => TopGives(work, pkts, network, x, HdrAt(t, pkts, 1))
  BY <1>1, <1>2 DEF TopGives, Gives
<1>6. IsStack(Rest) /\ {"op", "pkt"} \subseteq DOMAIN Top BY <1>2, TopShape DEF Now, IsCall
<1> HIDE DEF B, t
<1>7. CASE B = <<>>
  <2>1. NoBucket BY <1>7 DEF NextOfAll, B
  <2>2. <<>> \in AllOutcomes(h, c, B) BY <1>4, <1>7 DEF AllRule
  <2>3. QED BY <1>1, <1>5, <2>1, <2>2, NoBucketPromised DEF t
<1>8. CASE B # <<>>
  <2> DEFINE n == Fresh
             b == Head(B)
             new == [Clone(r) EXCEPT !.set = WriteActions(@, b.actions, -1)]
             f1 == [op |-> "set", pkt |-> n]
             f == [Top EXCEPT !.buckets = Tail(@)]
  <2>1. work' = <<f1, f>> \o Rest /\ pkts' = With(pkts, n, new) BY <1>8 DEF NextOfAll, B
  <2>2. /\ new.hdr = h /\ new.in_port = r.in_port /\ new.packet_out = r.packet_out
        /\ new.set = WriteActions(<<>>, b.actions, -1) /\ new.out_group = OFPG_ANY
    BY DEF Clone, NewPacket
  <2>3. f1.op = "set" /\ f1.pkt = n /\ f1.op \in Calls BY DEF Calls
  <2>4. f.op = "all" /\ f.pkt = p /\ f.buckets = Tail(B) /\ "buckets" \in DOMAIN f BY <1>1, <1>3, <1>6 DEF B
  <2>5. n \notin DOMAIN pkts BY <1>2, FreshIsNew DEF Agree, PacketsAgree
  <2> HIDE DEF n, new, f1, f
  <2>6. work' = Onto(f1, Onto(f, Rest)) BY <1>6, <2>1, PushTwo
  <2>7. With(pkts, n, new)[n] = new /\ \A q \in DOMAIN pkts : q # n => With(pkts, n, new)[q] = pkts[q]
    BY DEF With
  <2>8. pkts'[n] = new /\ pkts'[p] = r /\ \A q \in Worked(work) : pkts'[q] = pkts[q]
    BY <1>2, <2>1, <2>5, <2>7
  <2>9. Others(work, pkts', pkts) BY <1>1, <1>2, <2>8, OthersAre
  <2>10. /\ IsStack(Tail(B)) /\ Len(Tail(B)) \in Nat /\ Len(B) = Len(Tail(B)) + 1 /\ b = B[1]
         /\ \A i \in 1..Len(Tail(B)) : Tail(B)[i] = B[i + 1]
    BY <1>3, <1>8, PopShape
  <2> HIDE DEF b
  <2>11. IsList(b.actions) /\ Sends(b)
    <3>1. 1 \in 1..Len(B) BY <2>10
    <3>2. QED BY <1>3, <2>10, <3>1
  <2>12. \A i \in 1..Len(Tail(B)) : IsList(Tail(B)[i].actions) /\ Sends(Tail(B)[i])
    <3>1. \A i \in 1..Len(Tail(B)) : i + 1 \in 1..Len(B) BY <2>10
    <3>2. QED BY <1>3, <2>10, <3>1
  <2>13. Shape(f, r) BY <2>4, <2>10, <2>12 DEF Shape
  <2>14. IsSet(new.set) /\ Left(new) = Written({}, b.actions) BY <2>2, <2>11, BucketSet
  <2>15. Shape(f1, new) BY <2>2, <2>3, <2>14 DEF Shape
  <2>16. Outcomes(BucketOutcomes(h, c, b), AllOutcomes(h, c, Tail(B))) \subseteq AllOutcomes(h, c, B)
    BY <1>4, <1>8 DEF AllRule, b
  <2>17. GoesOnAsTwo(work, pkts, f1, new, f, r, network)
    <3>1. ASSUME NEW x1, NEW y1, NEW x2, NEW y2, Gives(f1, new, new.hdr, r.hdr, network, x1, y1),
                 Gives(f, r, y1, HdrAt(t, pkts, 1), network, x2, y2)
          PROVE  TopGives(work, pkts, network, x1 \o x2, y2)
      <4>1. Ctx(new, network) = c BY <2>2 DEF Ctx
      <4>2. y1 = h /\ x1 \in BucketOutcomes(h, c, b) BY <2>2, <2>3, <2>14, <3>1, <4>1 DEF Gives, BucketOutcomes
      <4>3. y2 = HdrAt(t, pkts, 1) /\ x2 \in AllOutcomes(h, c, Tail(B)) BY <2>4, <3>1, <4>2 DEF Gives
      <4>4. x1 \o x2 \in Outcomes(BucketOutcomes(h, c, b), AllOutcomes(h, c, Tail(B))) BY <4>2, <4>3, InOutcomes
      <4>5. QED BY <1>5, <2>16, <4>3, <4>4
    <3>2. QED BY <3>1 DEF GoesOnAsTwo, t
  <2>18. HdrAt(Tail(work), pkts', 1) = HdrAt(Tail(work), pkts, 1) BY <1>1, <1>2, <2>9, HdrBelow DEF Now
  <2>19. Promised(Onto(f1, Onto(f, Tail(work))), pkts', sent, goal, network)
    BY <2>3, <2>4, <2>8, <2>9, <2>13, <2>15, <2>17, <2>18, StepCall DEF Now
  <2>20. QED BY <1>1, <1>2, <2>6, <2>19 DEF t
<1>9. QED BY <1>7, <1>8

-----------------------------------------------------------------------------
(* Walks from their beginning to their end *)

\* A step of a walk that is not over keeps the promise.
LEMMA WalkPromised ==
  ASSUME Rules, BucketsSend, Agree(work, pkts), WrrsAgree, FlowsAgree, ~Idle, Walk, ~Return,
         NEW goal, Promised(work, pkts, sent, goal, network)
  PROVE  Promised(work', pkts', sent', goal, network) /\ UNCHANGED <<network, start>>
<1>1. Head(work).op \in Calls
  BY DEF Walk, Process, Table, InstsDone, AtInst, ApplyActions, ClearActions, WriteActionsInst, GotoTable, Meter,
         ListAction, ListDone, SetAction, SetDone, Destroy, AtGroup, ExecuteAll, NextOfAll, ExecuteSelect,
         ExecuteIndirect, ExecuteFf, Calls, Top
<1>2. Now(goal) BY <1>1 DEF Now, At, Idle
<1>3. Promised(work', pkts', sent', goal, network)
  BY <1>2, ProcessPromised, TablePromised, InstsDonePromised, ApplyPromised, ClearPromised, WritePromised,
     GotoPromised, MeterPromised, ListActionPromised, ListDonePromised, SetActionPromised, SetDonePromised,
     DestroyPromised, AllPromised, NextOfAllPromised, SelectPromised, IndirectPromised, FfPromised
     DEF Walk
<1>4. UNCHANGED <<network, start>>
  BY DEF Walk, Process, Table, InstsDone, AtInst, ApplyActions, ClearActions, WriteActionsInst, GotoTable, Meter,
         ListAction, ListDone, SetAction, SetDone, Destroy, AtGroup, ExecuteAll, NextOfAll, ExecuteSelect,
         ExecuteIndirect, ExecuteFf
<1>5. QED BY <1>3, <1>4

\* When the handler is on top nothing else is left.
LEMMA HandlerIsLast ==
  ASSUME NEW w, StackAgrees(w), w # <<>>, Head(w).op = "return"
  PROVE  Len(w) = 1 /\ Tail(w) = <<>>
<1>1. Head(w) = w[1] BY CallPopped
<1>2. 1 \notin Inner(w) BY <1>1 DEF StackAgrees, IsCall, Calls
<1>3. Len(w) # 0 BY EmptyStack DEF StackAgrees
<1>4. Len(w) = 1
  <2>1. Len(w) \in Nat BY PushShape DEF StackAgrees
  <2>2. QED BY <1>2, <1>3, <2>1 DEF Inner
<1>5. IsStack(Tail(w)) /\ Len(Tail(w)) \in Nat /\ Len(w) = Len(Tail(w)) + 1 BY PopShape DEF StackAgrees
<1>6. Len(Tail(w)) = 0 BY <1>4, <1>5
<1>7. QED BY <1>4, <1>5, <1>6, EmptyStack

\* At the end what was put out is what was promised.
LEMMA PromiseKept ==
  ASSUME NEW w, StackAgrees(w), w # <<>>, Head(w).op = "return", NEW ps, NEW s, NEW goal, NEW k,
         Promised(w, ps, s, goal, k)
  PROVE  s \in goal
<1>1. Len(w) = 1 BY HandlerIsLast
<1>2. PICK K : {<<s, HdrAt(w, ps, 1)>>} \subseteq K[1] /\ \A x, y : <<x, y>> \in K[Len(w)] => x \in goal
  BY DEF Promised, Leads
<1>3. <<s, HdrAt(w, ps, 1)>> \in K[1] BY <1>2
<1>4. QED BY <1>1, <1>2, <1>3

\* The handler alone: what was put out is in the goal.
LEMMA HandlerLeads ==
  ASSUME NEW ps, NEW goal, NEW k
  PROVE  Leads(<<Handler>>, ps, goal \X {<<>>}, goal, k) /\ HdrAt(<<Handler>>, ps, 1) = <<>>
<1> DEFINE w == <<Handler>>
           B == goal \X {<<>>}
           K == [i \in {1} |-> B]
<1>1. Len(w) = 1 OBVIOUS
<1> HIDE DEF w
<1>2. Inner(w) = {} BY <1>1 DEF Inner
<1>3. HdrAt(w, ps, 1) = <<>> BY <1>2 DEF HdrAt
<1>4. IsChain(w, ps, K, k) BY <1>2 DEF IsChain
<1>5. K[1] = B /\ K[Len(w)] = B BY <1>1
<1>6. \A x, y : <<x, y>> \in B => x \in goal OBVIOUS
<1> HIDE DEF K, B
<1>7. B \subseteq K[1] /\ \A x, y : <<x, y>> \in K[Len(w)] => x \in goal BY <1>5, <1>6
<1>8. Leads(w, ps, B, goal, k) BY <1>4, <1>7 DEF Leads
<1>9. QED BY <1>3, <1>8 DEF w, B

\* A walk that begins with one call.
LEMMA BeginsWithOne ==
  ASSUME NEW f, f.op # "list", NEW ps, NEW k, NEW goal, Shape(f, ps[f.pkt]),
         \A x, y : Gives(f, ps[f.pkt], ps[f.pkt].hdr, <<>>, k, x, y) => x \in goal
  PROVE  Promised(Onto(f, <<Handler>>), ps, <<>>, goal, k)
<1> DEFINE v == <<Handler>>
           B == goal \X {<<>>}
           r == ps[f.pkt]
           A == {<<<<>>, r.hdr>>}
<1>1. Leads(v, ps, B, goal, k) /\ HdrAt(v, ps, 1) = <<>> BY HandlerLeads
<1>2. IsStack(v) /\ v # <<>> BY HandlerAlone DEF StackAgrees
<1>3. LeadsOver(f, r, A, B, <<>>, k)
  <2>1. ASSUME NEW s, NEW g, NEW x, NEW y, <<s, g>> \in A, IsStack(x), Gives(f, r, g, <<>>, k, x, y)
        PROVE  <<s \o x, y>> \in B
    <3>1. s = <<>> /\ g = r.hdr BY <2>1
    <3>2. s \o x = x BY <2>1, <3>1, Concatenation
    <3>3. y = <<>> BY <2>1 DEF Gives
    <3>4. x \in goal BY <2>1, <3>1
    <3>5. <<x, y>> \in goal \X {<<>>} BY <3>3, <3>4
    <3>6. QED BY <3>2, <3>5
  <2> HIDE DEF A, B
  <2>2. QED BY <2>1 DEF LeadsOver
<1> HIDE DEF v, B, A
<1>4. Leads(Onto(f, v), ps, A, goal, k) BY <1>1, <1>2, <1>3, LeadsUp
<1>5. HdrAt(Onto(f, v), ps, 1) = r.hdr BY <1>2, HdrPushed
<1>6. QED BY <1>4, <1>5, Concatenation DEF Promised, v, A

\* The list of a packet-out: its packet is destroyed after it.
LEMMA BeginsWithList ==
  ASSUME NEW f, f.op = "list", NEW d, d.op = "destroy", d.pkt = f.pkt, NEW ps, NEW k, NEW goal,
         Shape(f, ps[f.pkt]),
         \A l \in ListOutcomes(ps[f.pkt].hdr, Ctx(ps[f.pkt], k), f.acts) : l[1] \in goal
  PROVE  Promised(Onto(f, Onto(d, <<Handler>>)), ps, <<>>, goal, k)
<1> DEFINE u == <<Handler>>
           v == Onto(d, u)
           B == goal \X {<<>>}
           r == ps[f.pkt]
           lists == ListOutcomes(r.hdr, Ctx(r, k), f.acts)
           A == {l \in lists : l = <<l[1], l[2]>>}
           A1 == {<<<<>>, r.hdr>>}
<1>1. Leads(u, ps, B, goal, k) /\ HdrAt(u, ps, 1) = <<>> BY HandlerLeads
<1>2. IsStack(u) /\ u # <<>> BY HandlerAlone DEF StackAgrees
<1>3. \A s, g : <<s, g>> \in A => s \in goal
  <2>1. \A s, g : <<s, g>>[1] = s OBVIOUS
  <2>2. QED BY <2>1
<1>4. \A x, y : <<x, y>> \in lists => <<x, y>> \in A
  <2>1. \A x, y : <<x, y>>[1] = x /\ <<x, y>>[2] = y OBVIOUS
  <2> HIDE DEF lists
  <2>2. QED BY <2>1
<1> HIDE DEF A, lists
<1>5. LeadsOver(d, r, A, B, <<>>, k)
  <2>1. ASSUME NEW s, NEW g, NEW x, NEW y, <<s, g>> \in A, IsStack(s), Gives(d, r, g, <<>>, k, x, y)
        PROVE  <<s \o x, y>> \in B
    <3>1. x = <<>> /\ y = <<>> BY <2>1 DEF Gives
    <3>2. s \o x = s BY <2>1, <3>1, Concatenation
    <3>3. s \in goal BY <1>3, <2>1
    <3>4. <<s, y>> \in goal \X {<<>>} BY <3>1, <3>3
    <3>5. QED BY <3>2, <3>4
  <2>2. Shape(d, r) BY DEF Shape
  <2> HIDE DEF B
  <2>3. QED BY <2>1, <2>2 DEF LeadsOver
<1> HIDE DEF u, B
<1>6. Leads(v, ps, A, goal, k) BY <1>1, <1>2, <1>5, LeadsUp
<1>7. HdrAt(v, ps, 1) = r.hdr /\ IsStack(v) /\ v # <<>> BY <1>2, HdrPushed
<1> HIDE DEF v
<1>8. LeadsOver(f, r, A1, A, HdrAt(v, ps, 1), k)
  <2>1. ASSUME NEW s, NEW g, NEW x, NEW y, <<s, g>> \in A1, IsStack(x), Gives(f, r, g, HdrAt(v, ps, 1), k, x, y)
        PROVE  <<s \o x, y>> \in A
    <3>1. s = <<>> /\ g = r.hdr BY <2>1
    <3>2. s \o x = x BY <2>1, <3>1, Concatenation
    <3>3. <<x, y>> \in lists BY <2>1, <3>1 DEF Gives, lists
    <3>4. QED BY <1>4, <3>2, <3>3
  <2> HIDE DEF A1
  <2>2. QED BY <2>1 DEF LeadsOver
<1> HIDE DEF A1
<1>9. Leads(Onto(f, v), ps, A1, goal, k) BY <1>6, <1>7, <1>8, LeadsUp
<1>10. HdrAt(Onto(f, v), ps, 1) = r.hdr BY <1>7, HdrPushed
<1>11. QED BY <1>9, <1>10, Concatenation DEF Promised, A1, v, u

\* The promise of the walk that is on its way.
WalkPromise == ~Idle /\ start.new => Promised(work, pkts, sent, WalkOutcomes, network)

LEMMA TablesBegin ==
  ASSUME NEW p, NEW r, work' = <<[op |-> "process", pkt |-> p], Handler>>, sent' = <<>>,
         start' = Begins("tables", r, <<>>),
         pkts'[p].hdr = r.hdr, pkts'[p].in_port = r.in_port, pkts'[p].packet_out = r.packet_out,
         IsNew(r) => IsNew(pkts'[p])
  PROVE  WalkPromise'
<1> SUFFICES ASSUME start'.new PROVE Promised(work', pkts', sent', WalkOutcomes', network')
  BY DEF WalkPromise
<1> DEFINE f == [op |-> "process", pkt |-> p]
           q == pkts'[p]
           k == network'
           goal == WalkOutcomes'
           h == <<Handler>>
<1>1. IsNew(q)
  <2>1. start'.new = IsNew(r) BY DEF Begins
  <2>2. QED BY <2>1
<1>2. f.op = "process" /\ f.pkt = p OBVIOUS
<1>3. work' = Onto(f, h) BY HandlerBelow
<1>4. goal = TablesOutcomes(q.hdr, Ctx(q, k))
  <2>1. start'.how = "tables" /\ start'.hdr = r.hdr /\ start'.in_port = r.in_port /\ start'.packet_out = r.packet_out
    BY DEF Begins
  <2>2. goal = TablesOutcomes(start'.hdr, Context(start.in_port, start.packet_out)') BY <2>1 DEF WalkOutcomes
  <2>3. Context(start.in_port, start.packet_out)' = Ctx(q, k) BY <2>1 DEF Context, Ctx, network
  <2>4. start'.hdr = q.hdr BY <2>1
  <2> HIDE DEF goal
  <2>5. QED BY <2>2, <2>3, <2>4
<1> HIDE DEF f, k, goal
<1>5. Shape(f, q) BY <1>1, <1>2 DEF Shape
<1>6. \A x, y : Gives(f, q, q.hdr, <<>>, k, x, y) => x \in goal BY <1>2, <1>4 DEF Gives
<1>7. Promised(Onto(f, <<Handler>>), pkts', <<>>, goal, k) BY <1>2, <1>5, <1>6, BeginsWithOne
<1>8. QED BY <1>3, <1>7 DEF goal, k

LEMMA ListBegins ==
  ASSUME NEW p, NEW r, NEW acts \in Lists,
         work' = <<[op |-> "list", pkt |-> p, acts |-> acts], [op |-> "destroy", pkt |-> p], Handler>>,
         sent' = <<>>, start' = Begins("list", r, acts), pkts'[p] = r
  PROVE  WalkPromise'
<1> SUFFICES ASSUME start'.new PROVE Promised(work', pkts', sent', WalkOutcomes', network')
  BY DEF WalkPromise
<1> DEFINE f == [op |-> "list", pkt |-> p, acts |-> acts]
           d == [op |-> "destroy", pkt |-> p]
           k == network'
           goal == WalkOutcomes'
           h == <<Handler>>
<1>1. NoneNoted(r)
  <2>1. start'.new = IsNew(r) BY DEF Begins
  <2>2. QED BY <2>1 DEF IsNew, NoneNoted
<1>2. f.op = "list" /\ f.pkt = p /\ f.acts = acts /\ d.op = "destroy" /\ d.pkt = p /\ "acts" \in DOMAIN f OBVIOUS
<1>3. work' = Onto(f, Onto(d, h)) BY HandlerBelow
<1>4. goal = {l[1] : l \in ListOutcomes(r.hdr, Ctx(r, k), acts)}
  <2>1. /\ start'.how = "list" /\ start'.hdr = r.hdr /\ start'.in_port = r.in_port
        /\ start'.packet_out = r.packet_out /\ start'.acts = acts
    BY DEF Begins
  <2>2. goal = {l[1] : l \in ListOutcomes(start'.hdr, Context(start.in_port, start.packet_out)', start'.acts)}
    BY <2>1 DEF WalkOutcomes
  <2>3. Context(start.in_port, start.packet_out)' = Ctx(r, k) BY <2>1 DEF Context, Ctx, network
  <2> HIDE DEF goal
  <2>4. QED BY <2>1, <2>2, <2>3
<1> HIDE DEF f, d, k, goal
<1>5. Shape(f, r)
  <2>1. IsList(acts) BY ListsAssumption
  <2>2. QED BY <1>1, <1>2, <2>1 DEF Shape
<1>6. \A l \in ListOutcomes(r.hdr, Ctx(r, k), f.acts) : l[1] \in goal BY <1>2, <1>4
<1>7. pkts'[f.pkt] = r BY <1>2
<1>8. Promised(Onto(f, Onto(d, <<Handler>>)), pkts', <<>>, goal, k) BY <1>2, <1>5, <1>6, <1>7, BeginsWithList
<1>9. QED BY <1>3, <1>8 DEF goal, k

\* A sequence of no elements.
LEMMA NoneLeft ==
  ASSUME NEW e(_)
  PROVE  [i \in DOMAIN <<>> |-> e(i)] = <<>>
OBVIOUS

LEMMA EventPromises ==
  ASSUME Agree(work, pkts), Idle, Event
  PROVE  WalkPromise'
<1>1. CASE Arrive
  <2>1. PICK port \in InPorts, ttl \in TTLs :
          LET r == NewPacket(NewHeader(ttl), port, FALSE) IN
          /\ pkts' = With(pkts, Fresh, r) /\ work' = <<[op |-> "process", pkt |-> Fresh], Handler>>
          /\ sent' = <<>> /\ start' = Begins("tables", r, <<>>)
    BY <1>1 DEF Arrive
  <2> DEFINE r == NewPacket(NewHeader(ttl), port, FALSE)
             n == Fresh
  <2>2. /\ pkts' = With(pkts, n, r) /\ work' = <<[op |-> "process", pkt |-> n], Handler>>
        /\ sent' = <<>> /\ start' = Begins("tables", r, <<>>)
    BY <2>1
  <2> HIDE DEF r, n
  <2>3. pkts'[n] = r BY <2>2 DEF With
  <2>4. QED BY <2>2, <2>3, TablesBegin
<1>2. CASE PacketOut
  <2>1. PICK acts \in Lists, in_port \in InPorts, ttl \in TTLs :
          LET r == NewPacket(NewHeader(ttl), in_port, TRUE) IN
          /\ pkts' = With(pkts, Fresh, r)
          /\ work' = <<[op |-> "list", pkt |-> Fresh, acts |-> acts], [op |-> "destroy", pkt |-> Fresh], Handler>>
          /\ sent' = <<>> /\ start' = Begins("list", r, acts)
    BY <1>2 DEF PacketOut
  <2> DEFINE r == NewPacket(NewHeader(ttl), in_port, TRUE)
             n == Fresh
  <2>2. /\ pkts' = With(pkts, n, r)
        /\ work' = <<[op |-> "list", pkt |-> n, acts |-> acts], [op |-> "destroy", pkt |-> n], Handler>>
        /\ sent' = <<>> /\ start' = Begins("list", r, acts)
    BY <2>1
  <2> HIDE DEF r, n
  <2>3. pkts'[n] = r BY <2>2 DEF With
  <2>4. QED BY <2>2, <2>3, ListBegins
<1>3. CASE PacketOutBuffered
  <2>1. PICK acts \in Lists, p \in Saved :
          /\ pkts' = [pkts EXCEPT ![p] = Retrieved(@)]
          /\ work' = <<[op |-> "list", pkt |-> p, acts |-> acts], [op |-> "destroy", pkt |-> p], Handler>>
          /\ sent' = <<>> /\ start' = Begins("list", Retrieved(pkts[p]), acts)
    BY <1>3 DEF PacketOutBuffered
  <2> DEFINE r == Retrieved(pkts[p])
  <2>2. pkts'[p] = r BY <2>1 DEF Saved
  <2> HIDE DEF r
  <2>3. start' = Begins("list", r, acts) BY <2>1 DEF r
  <2>4. QED BY <2>1, <2>2, <2>3, ListBegins
<1>4. CASE FlowModBuffered
  <2>1. PICK t \in Tables, p \in Saved :
          /\ pkts' = [EntryFreed(pkts, t) EXCEPT ![p] = Retrieved(@)]
          /\ work' = <<[op |-> "process", pkt |-> p], Handler>>
          /\ sent' = <<>> /\ start' = Begins("tables", Retrieved(pkts[p]), <<>>)
    BY <1>4 DEF FlowModBuffered
  <2> DEFINE r == Retrieved(pkts[p])
             q == EntryFreed(pkts, t)[p]
  <2>2. p \in DOMAIN pkts /\ IsPacket(pkts[p]) BY DEF Saved, Agree, PacketsAgree
  <2>3. /\ IsPacket(q) /\ q.hdr = pkts[p].hdr /\ q.in_port = pkts[p].in_port
        /\ q.out_port = pkts[p].out_port /\ q.out_group = pkts[p].out_group
    BY <2>2 DEF EntryFreed, IsPacket
  <2>4. pkts[p].set = <<>> => q.set = <<>>
    <3> DEFINE s == pkts[p].set
               e(i) == IF s[i].owner = t THEN [s[i] EXCEPT !.owner = -2] ELSE s[i]
    <3>1. q.set = [i \in DOMAIN s |-> e(i)] BY <2>2 DEF EntryFreed, IsPacket
    <3> HIDE DEF s, e
    <3>2. s = <<>> => q.set = <<>> BY <3>1, NoneLeft
    <3>3. QED BY <3>2 DEF s
  <2>5. pkts'[p] = Retrieved(q) BY <2>1, <2>2 DEF EntryFreed
  <2> HIDE DEF q
  <2>6. /\ pkts'[p].hdr = r.hdr /\ pkts'[p].in_port = r.in_port /\ pkts'[p].packet_out = r.packet_out
        /\ pkts'[p].out_port = r.out_port /\ pkts'[p].out_group = r.out_group
        /\ pkts'[p].set = q.set /\ r.set = pkts[p].set
    BY <2>2, <2>3, <2>5 DEF Retrieved, IsPacket
  <2>7. start' = Begins("tables", r, <<>>) BY <2>1
  <2> HIDE DEF r
  <2>8. IsNew(r) => IsNew(pkts'[p]) BY <2>4, <2>6 DEF IsNew
  <2>9. QED BY <2>1, <2>6, <2>7, <2>8, TablesBegin
<1>5. CASE FlowMod \/ FlowRemoved \/ PortMod \/ Refill
  <2>1. work' = work BY <1>5 DEF FlowMod, FlowRemoved, PortMod, Refill
  <2>2. QED BY <2>1 DEF WalkPromise, Idle
<1>6. QED BY <1>1, <1>2, <1>3, <1>4, <1>5 DEF Event

\* What the flow-mods brought is what the tables have.
FlowsKept == DOMAIN flows = Tables /\ FlowsAgree

LEMMA FlowsStep == FlowsKept /\ [Next]_vars => FlowsKept'
<1> SUFFICES ASSUME FlowsKept, [Next]_vars PROVE FlowsKept' OBVIOUS
<1>1. \/ flows' = flows
      \/ \E t \in Tables : \E entry \in Entries[t] \cup {NoEntry} : flows' = [flows EXCEPT ![t] = entry]
  BY DEF Next, Walk, Event, vars, network, Process, Table, InstsDone, ApplyActions, ClearActions, WriteActionsInst,
         GotoTable, Meter, ListAction, ListDone, SetAction, SetDone, Destroy, Return, ExecuteAll, NextOfAll,
         ExecuteSelect, ExecuteIndirect, ExecuteFf, Arrive, PacketOut, PacketOutBuffered, FlowMod,
         FlowModBuffered, FlowRemoved, PortMod, Refill
<1>2. CASE flows' = flows BY <1>2 DEF FlowsKept, FlowsAgree
<1>3. ASSUME NEW t \in Tables, NEW entry \in Entries[t] \cup {NoEntry}, flows' = [flows EXCEPT ![t] = entry]
      PROVE  FlowsKept'
  <2>1. entry = NoEntry \/ \A inst \in entry : IsInstruction(inst) BY EntriesAssumption
  <2>2. DOMAIN flows' = Tables /\ flows'[t] = entry /\ \A u \in Tables : u # t => flows'[u] = flows[u]
    BY <1>3 DEF FlowsKept
  <2>3. \A u \in Tables : flows'[u] = NoEntry \/ \A inst \in flows'[u] : IsInstruction(inst)
    BY <2>1, <2>2 DEF FlowsKept, FlowsAgree
  <2>4. QED BY <2>2, <2>3 DEF FlowsKept, FlowsAgree
<1>4. QED BY <1>1, <1>2, <1>3

\* The invariant: the calls and the packets agree, the groups and the tables
\* have what they may have, and the walk keeps its promise.
OutcomesAgree == Agree(work, pkts) /\ WrrsAgree /\ FlowsKept /\ WalkPromise

LEMMA PromiseStep ==
  ASSUME Rules, BucketsSend, OutcomesAgree, [Next]_vars
  PROVE  WalkPromise'
<1> USE DEF OutcomesAgree
<1>1. CASE Idle /\ Event BY <1>1, EventPromises
<1>2. CASE ~Idle /\ Return
  <2>1. work' = Rest /\ Head(work).op = "return" BY <1>2 DEF Return, Top
  <2>2. work' = <<>> BY <1>2, <2>1, HandlerIsLast DEF Agree, Idle, Rest
  <2>3. QED BY <2>2 DEF WalkPromise, Idle
<1>3. CASE ~Idle /\ Walk /\ ~Return
  <2>1. SUFFICES ASSUME start'.new PROVE Promised(work', pkts', sent', WalkOutcomes', network')
    BY DEF WalkPromise
  <2> DEFINE goal == WalkOutcomes
  <2>2. UNCHANGED <<network, start>>
    BY <1>3 DEF Walk, Process, Table, InstsDone, ApplyActions, ClearActions, WriteActionsInst, GotoTable, Meter,
         ListAction, ListDone, SetAction, SetDone, Destroy, ExecuteAll, NextOfAll, ExecuteSelect,
         ExecuteIndirect, ExecuteFf
  <2>3. goal' = goal /\ network' = network BY <2>2 DEF WalkOutcomes, Context, network
  <2>4. Promised(work, pkts, sent, goal, network) BY <1>3, <2>1, <2>2 DEF WalkPromise
  <2> HIDE DEF goal
  <2>5. Promised(work', pkts', sent', goal, network) BY <1>3, <2>4, WalkPromised DEF FlowsKept
  <2>6. QED BY <2>3, <2>5 DEF goal
<1>4. CASE UNCHANGED vars
  <2>1. WalkOutcomes' = WalkOutcomes BY <1>4 DEF vars, network, WalkOutcomes, Context
  <2>2. work' = work /\ pkts' = pkts /\ sent' = sent /\ start' = start /\ network' = network
    BY <1>4 DEF vars, network
  <2>3. QED BY <2>1, <2>2 DEF WalkPromise, Idle
<1>5. QED BY <1>1, <1>2, <1>3, <1>4 DEF Next

\* What a walk has put out when it is over is an outcome that the protocol has
\* for it, whatever outcomes obey the rules: OutputsAsPromised.
THEOREM OutputsHold ==
  ASSUME Rules, BucketsSend
  PROVE  Spec => []OutputsAsPromised
<1>1. Init => FlowsKept /\ WalkPromise
  <2> SUFFICES ASSUME Init PROVE FlowsKept /\ WalkPromise OBVIOUS
  <2>1. FlowsKept BY DEF Init, FlowsKept, FlowsAgree
  <2>2. WalkPromise BY DEF Init, WalkPromise, Idle
  <2>3. QED BY <2>1, <2>2
<1>2. (Agree(work, pkts) /\ WrrsAgree) /\ (FlowsKept /\ WalkPromise) /\ [Next]_vars => (FlowsKept /\ WalkPromise)'
  BY FlowsStep, PromiseStep DEF OutcomesAgree
<1>3. Agree(work, pkts) /\ WalkPromise => OutputsAsPromised
  <2> SUFFICES ASSUME Agree(work, pkts), WalkPromise, ~Idle, Top = Handler, start.new PROVE sent \in WalkOutcomes
    BY DEF OutputsAsPromised
  <2>1. Promised(work, pkts, sent, WalkOutcomes, network) BY DEF WalkPromise
  <2>2. Head(work).op = "return" /\ work # <<>> /\ StackAgrees(work) BY DEF Top, Handler, Idle, Agree
  <2>3. QED BY <2>1, <2>2, PromiseKept
<1>4. Spec => []Agree(work, pkts) BY AgreeHolds
<1>5. Spec => []WrrsAgree BY WrrInit, WrrStep, PTL DEF Spec
<1>6. QED BY <1>1, <1>2, <1>3, <1>4, <1>5, PTL DEF Spec
=============================================================================
