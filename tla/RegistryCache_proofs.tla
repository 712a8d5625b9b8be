------------------------ MODULE RegistryCache_proofs ------------------------
(***************************************************************************)
(* Proofs about RegistryCache, for any number of goroutines, types and     *)
(* calls, and any declarations.                                            *)
(***************************************************************************)
EXTENDS RegistryCache, SequenceTheorems, FiniteSetTheorems, WellFoundedInduction, TLAPS

\* The lock covers the build: who is past Lock holds it, and calls of
\* buildRegistryLocked are open only under it (registry.go:86-112).
Locked ==
    /\ \A g \in Goroutines :
         /\ pc[g] \in {"check", "fill"} => mu = g
         /\ pc[g] = "check" => stack = <<>>
         /\ pc[g] = "fill" => stack # <<>>
    /\ mu = Nobody => stack = <<>>

\* What is not filled, or anchored, belongs to an open call (registry.go:98-108).
Pending ==
    /\ \A r \in Ids : ~regs[r].filled => \E i \in 1 .. Len(stack) : stack[i].reg = r
    /\ \A t \in Types : building[t] # 0 => \E i \in 1 .. Len(stack) : stack[i].typ = t

\* What can be found without the lock is filled (registry.go:82-85, 109-112).
Filled ==
    /\ \A t \in Types : cache[t] # 0 => regs[cache[t]].filled
    /\ \A g \in Goroutines : \A r \in result[g] : regs[r].filled

IInv == TypeOK /\ Locked /\ Pending /\ Filled

Frame == [reg : Ids, typ : Types, next : Nat]

-----------------------------------------------------------------------------
(* Lemmas.                                                                 *)

\* Taking the last call off, or replacing it, leaves a list of calls.
LEMMA FrameLists ==
    ASSUME NEW F, NEW s \in Seq(F), s # <<>>
    PROVE  /\ Len(s) \in Nat \ {0} /\ s[Len(s)] \in F
           /\ SubSeq(s, 1, Len(s) - 1) \in Seq(F)
           /\ Len(SubSeq(s, 1, Len(s) - 1)) = Len(s) - 1
           /\ \A i \in 1 .. Len(s) - 1 : SubSeq(s, 1, Len(s) - 1)[i] = s[i]
<1>1. Len(s) \in Nat \ {0}
  BY EmptySeq, LenProperties
<1>2. \A i \in 1 .. Len(s) : s[i] \in F
  BY ElementOfSeq
<1>. DEFINE n == Len(s) - 1
<1>3. n \in Nat /\ n \in Int /\ \A i \in 1 .. n : s[i] \in F
  BY <1>1, <1>2
<1>4. /\ SubSeq(s, 1, n) \in Seq(F)
      /\ Len(SubSeq(s, 1, n)) = IF 1 <= n THEN n - 1 + 1 ELSE 0
      /\ \A i \in 1 .. n - 1 + 1 : SubSeq(s, 1, n)[i] = s[1 + i - 1]
  <2>. HIDE DEF n
  <2>. QED  BY <1>3, SubSeqProperties
<1>5. Len(SubSeq(s, 1, n)) = n /\ \A i \in 1 .. n : SubSeq(s, 1, n)[i] = s[i]
  <2>. HIDE DEF n
  <2>. QED  BY <1>3, <1>4
<1>. QED  BY <1>1, <1>2, <1>4, <1>5

\* The registry that a call is filling, as TypeOK has it.
LEMMA TopTyped ==
    ASSUME TypeOK, stack # <<>>
    PROVE  /\ Len(stack) \in Nat \ {0}
           /\ Top \in Frame /\ Top.reg \in Ids /\ Top.typ \in Types /\ Top.next \in Nat
           /\ regs[Top.reg] \in Registry
<1>1. stack \in Seq(Frame) /\ regs \in Seq(Registry)
  BY DEF TypeOK, Frame
<1>2. Len(stack) \in Nat \ {0} /\ Top \in Frame
  BY <1>1, FrameLists DEF Top
<1>. QED  BY <1>1, <1>2, ElementOfSeq DEF Frame, Ids

\* A new registry disturbs none there is.
LEMMA OpenTyped ==
    ASSUME TypeOK, NEW t \in Types, Open(t)
    PROVE  /\ Len(regs') = Len(regs) + 1 /\ Ids \subseteq Ids' /\ Len(regs) + 1 \in Ids'
           /\ Ids' = Ids \cup {Len(regs) + 1}
           /\ \A r \in Ids : regs'[r] = regs[r]
           /\ regs'[Len(regs) + 1] = NewRegistry(t)
           /\ regs' \in Seq(Registry)
           /\ \A r \in Ids' : regs'[r].subs \subseteq Ids'
           /\ building' \in [Types -> {0} \cup Ids']
           /\ stack' \in Seq(Frame')
           /\ Len(stack') = Len(stack) + 1
           /\ \A i \in 1 .. Len(stack) : stack'[i] = stack[i]
           /\ stack'[Len(stack) + 1] = [reg |-> Len(regs) + 1, typ |-> t, next |-> 1]
<1>1. NewRegistry(t) \in Registry /\ NewRegistry(t).subs = {}
  BY DEF NewRegistry, Registry
<1>2. regs \in Seq(Registry) /\ regs' = Append(regs, NewRegistry(t)) /\ Len(regs) \in Nat
  BY LenProperties DEF TypeOK, Open
<1>3. /\ Len(regs') = Len(regs) + 1 /\ regs' \in Seq(Registry)
      /\ \A r \in Ids : regs'[r] = regs[r]
      /\ regs'[Len(regs) + 1] = NewRegistry(t)
  BY <1>1, <1>2, AppendProperties DEF Ids
<1>4. Ids' = Ids \cup {Len(regs) + 1}
  BY <1>2, <1>3 DEF Ids
<1>5. \A r \in Ids' : regs'[r].subs \subseteq Ids'
  BY <1>1, <1>3, <1>4 DEF TypeOK
<1>6. building' \in [Types -> {0} \cup Ids']
  BY <1>4 DEF TypeOK, Open
<1>7. stack \in Seq(Frame') /\ Len(stack) \in Nat
  <2>1. Frame \subseteq Frame'
    BY <1>4 DEF Frame
  <2>2. stack \in Seq(Frame)
    BY DEF TypeOK, Frame
  <2>. QED  BY <2>1, <2>2, SeqMonotonic, LenProperties
<1>8. [reg |-> Len(regs) + 1, typ |-> t, next |-> 1] \in Frame'
  BY <1>4 DEF Frame
<1>9. stack' = Append(stack, [reg |-> Len(regs) + 1, typ |-> t, next |-> 1])
  BY DEF Open
<1>10. /\ stack' \in Seq(Frame') /\ Len(stack') = Len(stack) + 1
       /\ \A i \in 1 .. Len(stack) : stack'[i] = stack[i]
       /\ stack'[Len(stack) + 1] = [reg |-> Len(regs) + 1, typ |-> t, next |-> 1]
  BY <1>7, <1>8, <1>9, AppendProperties
<1>. QED  BY <1>3, <1>4, <1>5, <1>6, <1>10

\* Skip moves the innermost call on, and no other.
LEMMA SkipTyped ==
    ASSUME TypeOK, stack # <<>>, stack' = Skip
    PROVE  /\ stack' \in Seq(Frame) /\ Len(stack') = Len(stack) /\ stack' # <<>>
           /\ \A i \in 1 .. Len(stack) :
                stack'[i].reg = stack[i].reg /\ stack'[i].typ = stack[i].typ
<1>1. stack \in Seq(Frame) /\ Len(stack) \in Nat \ {0}
  BY TopTyped DEF TypeOK, Frame
<1>2. \A i \in 1 .. Len(stack) : stack[i] \in Frame
  BY <1>1, ElementOfSeq
<1>. QED  BY <1>1, <1>2 DEF Skip, Frame

\* WithSub adds to one registry and leaves what is filled as it is.
LEMMA WithSubTyped ==
    ASSUME NEW r \in Seq(Registry), NEW frame, frame.reg \in 1 .. Len(r), NEW s \in 1 .. Len(r),
           \A q \in 1 .. Len(r) : r[q].subs \subseteq 1 .. Len(r)
    PROVE  /\ WithSub(r, frame, s) \in Seq(Registry)
           /\ Len(WithSub(r, frame, s)) = Len(r)
           /\ \A q \in 1 .. Len(r) : /\ WithSub(r, frame, s)[q].filled = r[q].filled
                                     /\ WithSub(r, frame, s)[q].subs \subseteq 1 .. Len(r)
<1>1. Len(r) \in Nat /\ \A q \in 1 .. Len(r) : r[q] \in Registry
  BY LenProperties, ElementOfSeq
<1>. DEFINE known == shape[frame.typ].kind = "struct" /\ r[s].err
            new   == [r[frame.reg] EXCEPT !.subs = @ \cup {s}, !.err = @ \/ known]
<1>2. new \in Registry /\ new.filled = r[frame.reg].filled /\ new.subs = r[frame.reg].subs \cup {s}
  <2>. HIDE DEF known
  <2>1. (r[frame.reg].err \/ known) \in BOOLEAN
    OBVIOUS
  <2>2. r[frame.reg].subs \cup {s} \in SUBSET Nat
    BY <1>1 DEF Registry
  <2>. QED  BY <1>1, <2>1, <2>2 DEF Registry
<1>3. WithSub(r, frame, s) = [r EXCEPT ![frame.reg] = new]
  BY DEF WithSub
<1>. HIDE DEF new
<1>4. WithSub(r, frame, s) \in Seq(Registry) /\ Len(WithSub(r, frame, s)) = Len(r)
  BY <1>1, <1>2, <1>3, ExceptSeq
<1>. QED  BY <1>1, <1>2, <1>3, <1>4

-----------------------------------------------------------------------------
(* The invariant.                                                          *)

\* A call that only reads, or takes or gives back the lock with nothing open.
LEMMA NoBuild ==
    ASSUME IInv, NEW g \in Goroutines, NEW t \in Types,
           \/ Call(g, t) \/ LoadHit(g) \/ LoadMiss(g) \/ Lock(g) \/ CheckHit(g)
    PROVE  IInv'
<1>. USE RegistryAssumption DEF IInv
<1>1. UNCHANGED <<shape, cache, building, regs, stack>> /\ Ids' = Ids
  BY DEF Call, LoadHit, LoadMiss, Lock, CheckHit, Ids
<1>2. Hit(g) => Found(g) \in Ids /\ regs[Found(g)].filled
  BY DEF Hit, Found, Filled, TypeOK
<1>3. TypeOK'
  <2>1. CASE Call(g, t)
    BY <1>1, <2>1 DEF Call, TypeOK
  <2>2. CASE LoadHit(g) \/ CheckHit(g)
    <3>1. Answer(g, Found(g)) /\ Found(g) \in Ids /\ UNCHANGED <<typ, calls>>
      BY <1>2, <2>2 DEF LoadHit, CheckHit
    <3>2. mu' \in {mu, Nobody}
      BY <2>2 DEF LoadHit, CheckHit
    <3>3. result' \in [Goroutines -> SUBSET Ids]
      BY <3>1 DEF Answer, TypeOK
    <3>4. pc' \in [Goroutines -> {"idle", "load", "lock", "check", "fill"}]
      BY <3>1 DEF Answer, TypeOK
    <3>. QED  BY <1>1, <3>1, <3>2, <3>3, <3>4 DEF TypeOK
  <2>3. CASE LoadMiss(g)
    BY <1>1, <2>3 DEF LoadMiss, TypeOK
  <2>4. CASE Lock(g)
    BY <1>1, <2>4 DEF Lock, TypeOK
  <2>. QED  BY <2>1, <2>2, <2>3, <2>4
<1>4. Locked'
  <2>1. CASE Call(g, t) \/ LoadHit(g) \/ LoadMiss(g)
    BY <1>1, <2>1 DEF Call, LoadHit, LoadMiss, Answer, Locked, TypeOK
  <2>2. CASE Lock(g)
    BY <1>1, <2>2 DEF Lock, Free, Locked, TypeOK
  <2>3. CASE CheckHit(g)
    BY <1>1, <2>3 DEF CheckHit, Answer, Locked, TypeOK
  <2>. QED  BY <2>1, <2>2, <2>3
<1>5. Pending'
  BY <1>1 DEF Pending
<1>6. Filled'
  <2>1. CASE LoadHit(g) \/ CheckHit(g)
    BY <1>1, <1>2, <2>1 DEF LoadHit, CheckHit, Answer, Filled, TypeOK
  <2>2. CASE Call(g, t) \/ LoadMiss(g) \/ Lock(g)
    BY <1>1, <2>2 DEF Call, LoadMiss, Lock, Filled
  <2>. QED  BY <2>1, <2>2
<1>. QED  BY <1>3, <1>4, <1>5, <1>6

\* A registry is begun: for the type of the call, or for a field's.
LEMMA Begin ==
    ASSUME IInv, NEW g \in Goroutines, CheckMiss(g) \/ NestedField(g)
    PROVE  IInv'
<1>. USE DEF IInv
<1>1. PICK t \in Types : Open(t)
  BY DEF CheckMiss, NestedField, TypeOK
<1>2. pc' \in [Goroutines -> {"idle", "load", "lock", "check", "fill"}]
  BY DEF CheckMiss, NestedField, TypeOK
<1>3. TypeOK'
  <2>1. UNCHANGED <<shape, cache, mu, typ, result, calls>>
    BY DEF CheckMiss, NestedField
  <2>. QED  BY <1>1, <1>2, <2>1, OpenTyped DEF TypeOK, Frame
<1>4. Len(stack) \in Nat /\ stack' # <<>>
  <2>1. stack \in Seq(Frame) /\ stack' \in Seq(Frame') /\ Len(stack') = Len(stack) + 1
    BY <1>1, OpenTyped DEF TypeOK, Frame
  <2>2. Len(stack) \in Nat /\ Len(<<>>) = 0
    BY <2>1, LenProperties
  <2>. QED  BY <2>1, <2>2
<1>5. Locked'
  <2>1. mu' = mu /\ mu = g /\ g # Nobody
    BY RegistryAssumption DEF CheckMiss, NestedField, Locked
  <2>2. pc'[g] = "fill" /\ \A h \in Goroutines \ {g} : pc'[h] = pc[h]
    BY DEF CheckMiss, NestedField, TypeOK
  <2>. QED  BY <1>4, <2>1, <2>2 DEF Locked
<1>. HIDE DEF IInv
<1>6. /\ \A i \in 1 .. Len(stack) : i \in 1 .. Len(stack') /\ stack'[i] = stack[i]
      /\ Len(stack) + 1 \in 1 .. Len(stack')
      /\ stack'[Len(stack) + 1].reg = Len(regs) + 1 /\ stack'[Len(stack) + 1].typ = t
  <2>1. TypeOK
    BY DEF IInv
  <2>2. Len(stack') = Len(stack) + 1
    BY <1>1, <2>1, OpenTyped
  <2>3. /\ \A i \in 1 .. Len(stack) : stack'[i] = stack[i]
        /\ stack'[Len(stack) + 1] = [reg |-> Len(regs) + 1, typ |-> t, next |-> 1]
    BY <1>1, <2>1, OpenTyped
  <2>. QED  BY <1>4, <2>2, <2>3
<1>. USE DEF IInv
<1>7. Pending'
  <2>1. ASSUME NEW r \in Ids', ~regs'[r].filled
        PROVE  \E i \in 1 .. Len(stack') : stack'[i].reg = r
    <3>1. CASE r \in Ids
      <4>1. PICK i \in 1 .. Len(stack) : stack[i].reg = r
        BY <1>1, <2>1, <3>1, OpenTyped DEF Pending
      <4>2. i \in 1 .. Len(stack') /\ stack'[i] = stack[i]
        BY <1>6
      <4>. QED  BY <4>1, <4>2
    <3>2. CASE r = Len(regs) + 1
      <4>1. stack'[Len(stack) + 1].reg = r /\ Len(stack) + 1 \in 1 .. Len(stack')
        BY <1>6, <3>2
      <4>. QED  BY <4>1
    <3>. QED  BY <1>1, <2>1, <3>1, <3>2, OpenTyped
  <2>2. ASSUME NEW u \in Types, building'[u] # 0
        PROVE  \E i \in 1 .. Len(stack') : stack'[i].typ = u
    <3>1. u = t \/ building[u] # 0
      BY <1>1, <2>2 DEF Open, TypeOK
    <3>2. CASE building[u] # 0
      <4>1. PICK i \in 1 .. Len(stack) : stack[i].typ = u
        BY <3>2 DEF Pending
      <4>2. i \in 1 .. Len(stack') /\ stack'[i] = stack[i]
        BY <1>6
      <4>. QED  BY <4>1, <4>2
    <3>3. CASE u = t
      <4>1. stack'[Len(stack) + 1].typ = t /\ Len(stack) + 1 \in 1 .. Len(stack')
        BY <1>6
      <4>. QED  BY <3>3, <4>1
    <3>. QED  BY <3>1, <3>2, <3>3
  <2>. QED  BY <2>1, <2>2 DEF Pending
<1>8. Filled'
  <2>1. UNCHANGED <<cache, result>>
    BY DEF CheckMiss, NestedField
  <2>. QED  BY <1>1, <2>1, OpenTyped DEF Filled, TypeOK
<1>. QED  BY <1>3, <1>5, <1>7, <1>8

\* A field that needs no build of its own.
LEMMA PassField ==
    ASSUME IInv, NEW g \in Goroutines, PlainField(g) \/ BadField(g) \/ AnchoredField(g)
    PROVE  IInv'
<1>. USE DEF IInv
<1>1. stack # <<>> /\ stack' = Skip
  BY DEF Locked, PlainField, BadField, AnchoredField
<1>2. UNCHANGED <<shape, cache, mu, building, pc, typ, result, calls>>
  BY DEF PlainField, BadField, AnchoredField
<1>3. /\ regs' \in Seq(Registry) /\ Len(regs') = Len(regs)
      /\ \A q \in Ids : regs'[q].filled = regs[q].filled /\ regs'[q].subs \subseteq Ids
  <2>1. regs \in Seq(Registry) /\ Len(regs) \in Nat /\ \A q \in Ids : regs[q] \in Registry
    BY LenProperties, ElementOfSeq DEF TypeOK, Ids
  <2>2. CASE PlainField(g)
    BY <2>1, <2>2 DEF PlainField, TypeOK
  <2>3. CASE BadField(g)
    <3>. DEFINE new == [regs[Top.reg] EXCEPT !.err = TRUE]
    <3>1. /\ new \in Registry /\ new.filled = regs[Top.reg].filled
          /\ new.subs = regs[Top.reg].subs
      BY <1>1, TopTyped DEF Registry
    <3>2. regs' = [regs EXCEPT ![Top.reg] = new]
      BY <2>3 DEF BadField
    <3>. HIDE DEF new
    <3>. QED  BY <1>1, <2>1, <3>1, <3>2, TopTyped, ExceptSeq, SMTT(30) DEF TypeOK, Ids
  <2>4. CASE AnchoredField(g)
    <3>1. Anchor(Field) \in Ids /\ regs' = WithSub(regs, Top, Anchor(Field))
      BY <2>4 DEF AnchoredField, Anchor, TypeOK
    <3>2. Top.reg \in 1 .. Len(regs) /\ Anchor(Field) \in 1 .. Len(regs)
      BY <1>1, <3>1, TopTyped DEF Ids
    <3>3. \A q \in 1 .. Len(regs) : regs[q].subs \subseteq 1 .. Len(regs)
      BY DEF TypeOK, Ids
    <3>. HIDE DEF IInv
    <3>. QED  BY <2>1, <3>1, <3>2, <3>3, WithSubTyped DEF Ids
  <2>. QED  BY <2>2, <2>3, <2>4
<1>4. Ids' = Ids /\ Frame' = Frame
  BY <1>3 DEF Ids, Frame
<1>5. TypeOK'
  BY <1>1, <1>2, <1>3, <1>4, SkipTyped DEF TypeOK, Frame
<1>6. Locked'
  BY <1>1, <1>2, SkipTyped DEF Locked
<1>7. Pending'
  BY <1>1, <1>2, <1>3, <1>4, SkipTyped DEF Pending
<1>8. Filled'
  BY <1>2, <1>3 DEF Filled, TypeOK
<1>. QED  BY <1>5, <1>6, <1>7, <1>8

\* The innermost build ends.
LEMMA Ends ==
    ASSUME IInv, NEW g \in Goroutines, Publish(g)
    PROVE  IInv'
<1>. DEFINE outer  == SubSeq(stack, 1, Len(stack) - 1)
            n      == Len(outer)
            filled == [regs EXCEPT ![Top.reg].filled = TRUE]
<1>1. TypeOK /\ Locked /\ Pending /\ Filled
  BY DEF IInv
<1>2. pc[g] = "fill" /\ mu = g /\ g # Nobody /\ stack # <<>>
  BY <1>1, RegistryAssumption DEF Publish, Locked
<1>3. UNCHANGED <<shape, typ, calls>>
  BY DEF Publish
<1>4. /\ Len(stack) \in Nat \ {0} /\ outer \in Seq(Frame) /\ n = Len(stack) - 1
      /\ \A i \in 1 .. n : outer[i] = stack[i] /\ outer[i] \in Frame
  <2>1. stack \in Seq(Frame)
    BY <1>1 DEF TypeOK, Frame
  <2>. QED  BY <1>2, <2>1, FrameLists, ElementOfSeq
<1>5. /\ filled \in Seq(Registry) /\ Len(filled) = Len(regs) /\ Len(regs) \in Nat
      /\ filled[Top.reg].filled
      /\ \A q \in Ids : /\ filled[q].subs \subseteq Ids
                        /\ regs[q].filled \/ q = Top.reg <=> filled[q].filled
  <2>1. regs \in Seq(Registry) /\ Top.reg \in 1 .. Len(regs) /\ regs[Top.reg] \in Registry
    BY <1>1, <1>2, TopTyped DEF TypeOK, Ids
  <2>. DEFINE new == [regs[Top.reg] EXCEPT !.filled = TRUE]
  <2>2. new \in Registry /\ new.filled = TRUE /\ new.subs = regs[Top.reg].subs
    BY <2>1 DEF Registry
  <2>3. filled = [regs EXCEPT ![Top.reg] = new]
    OBVIOUS
  <2>4. \A q \in Ids : regs[q].subs \subseteq Ids
    BY <1>1 DEF TypeOK
  <2>5. Len(regs) \in Nat
    BY <2>1, LenProperties
  <2>. HIDE DEF new, filled
  <2>6. /\ filled \in Seq(Registry) /\ Len(filled) = Len(regs)
        /\ \A q \in 1 .. Len(regs) : filled[q] = IF q = Top.reg THEN new ELSE regs[q]
    BY <2>1, <2>2, <2>3, ExceptSeq
  <2>. QED  BY <2>1, <2>2, <2>4, <2>5, <2>6 DEF Ids
<1>6. Top.reg \in Ids /\ Top.typ \in Types
  BY <1>1, <1>2, TopTyped
<1>7. /\ regs' \in Seq(Registry) /\ Len(regs') = Len(regs)
      /\ \A q \in Ids : regs'[q].subs \subseteq Ids /\ regs'[q].filled = filled[q].filled
      /\ stack' \in Seq(Frame) /\ Len(stack') = n
      /\ \A i \in 1 .. n : stack'[i].reg = stack[i].reg /\ stack'[i].typ = stack[i].typ
      /\ n = 0 <=> stack' = <<>>
  <2>1. CASE n = 0
    <3>1. regs' = filled /\ stack' = outer
      BY <2>1 DEF Publish
    <3>. HIDE DEF filled, outer
    <3>. QED  BY <1>4, <1>5, <2>1, <3>1, EmptySeq
  <2>2. CASE n # 0
    <3>1. /\ regs' = WithSub(filled, outer[n], Top.reg)
          /\ stack' = [outer EXCEPT ![n].next = @ + 1]
      BY <2>2 DEF Publish
    <3>2. n \in 1 .. Len(outer) /\ outer[n] \in Frame
      BY <1>4, <2>2
    <3>. HIDE DEF filled, outer
    <3>3. outer[n].reg \in 1 .. Len(filled) /\ Top.reg \in 1 .. Len(filled)
      BY <1>5, <1>6, <3>2 DEF Frame, Ids
    <3>4. /\ regs' \in Seq(Registry) /\ Len(regs') = Len(filled)
          /\ \A q \in 1 .. Len(filled) : /\ regs'[q].filled = filled[q].filled
                                         /\ regs'[q].subs \subseteq 1 .. Len(filled)
      BY <1>5, <3>1, <3>3, WithSubTyped, ZenonT(30) DEF Ids
    <3>5. /\ stack' \in Seq(Frame) /\ Len(stack') = n
          /\ \A i \in 1 .. n : stack'[i].reg = outer[i].reg /\ stack'[i].typ = outer[i].typ
      <4>. DEFINE new == [outer[n] EXCEPT !.next = @ + 1]
      <4>1. new \in Frame /\ new.reg = outer[n].reg /\ new.typ = outer[n].typ
        BY <3>2 DEF Frame
      <4>2. stack' = [outer EXCEPT ![n] = new]
        BY <3>1
      <4>. HIDE DEF new
      <4>. QED  BY <1>4, <3>2, <4>1, <4>2, ExceptSeq
    <3>6. stack' # <<>>
      BY <2>2, <3>5, EmptySeq
    <3>. QED  BY <1>4, <1>5, <2>2, <3>4, <3>5, <3>6 DEF Ids
  <2>. QED  BY <2>1, <2>2
<1>8. /\ pc' = IF n = 0 THEN [pc EXCEPT ![g] = "idle"] ELSE pc
      /\ result' = IF n = 0 THEN [result EXCEPT ![g] = @ \cup {Top.reg}] ELSE result
      /\ mu' = IF n = 0 THEN Nobody ELSE mu
  <2>1. n = 0 <=> outer = <<>>
    BY <1>4, EmptySeq
  <2>2. mu' = Holder(outer)
    BY DEF Publish
  <2>3. n = 0 => Answer(g, Top.reg)
    BY DEF Publish
  <2>4. n # 0 => UNCHANGED <<pc, result>>
    BY DEF Publish
  <2>. HIDE DEF n, outer
  <2>. QED  BY <2>1, <2>2, <2>3, <2>4 DEF Answer, Holder
<1>9. /\ cache' = [cache EXCEPT ![Top.typ] = Top.reg]
      /\ building' = [building EXCEPT ![Top.typ] = 0]
  BY DEF Publish
<1>. HIDE DEF n, outer, filled
<1>10. Ids' = Ids /\ Frame' = Frame
  BY <1>7 DEF Ids, Frame
<1>11. TypeOK'
  <2>1. cache' \in [Types -> {0} \cup Ids] /\ building' \in [Types -> {0} \cup Ids]
    BY <1>1, <1>6, <1>9 DEF TypeOK
  <2>2. /\ pc' \in [Goroutines -> {"idle", "load", "lock", "check", "fill"}]
        /\ result' \in [Goroutines -> SUBSET Ids] /\ mu' \in Goroutines \cup {Nobody}
    BY <1>1, <1>6, <1>8 DEF TypeOK
  <2>. QED  BY <1>1, <1>3, <1>7, <1>10, <2>1, <2>2 DEF TypeOK, Frame
<1>12. Locked'
  BY <1>1, <1>2, <1>7, <1>8 DEF Locked, TypeOK
<1>13. Pending'
  <2>1. ASSUME NEW r \in Ids, ~regs'[r].filled
        PROVE  \E i \in 1 .. Len(stack') : stack'[i].reg = r
    <3>1. ~regs[r].filled /\ r # Top.reg
      BY <1>5, <1>7, <2>1
    <3>2. PICK i \in 1 .. Len(stack) : stack[i].reg = r
      BY <1>1, <3>1 DEF Pending
    <3>3. i \in 1 .. n
      BY <1>4, <3>1, <3>2 DEF Top
    <3>. QED  BY <1>7, <3>2, <3>3
  <2>2. ASSUME NEW t \in Types, building'[t] # 0
        PROVE  \E i \in 1 .. Len(stack') : stack'[i].typ = t
    <3>1. building[t] # 0 /\ t # Top.typ
      BY <1>1, <1>9, <2>2 DEF TypeOK
    <3>2. PICK i \in 1 .. Len(stack) : stack[i].typ = t
      BY <1>1, <3>1 DEF Pending
    <3>3. i \in 1 .. n
      BY <1>4, <3>1, <3>2 DEF Top
    <3>. QED  BY <1>7, <3>2, <3>3
  <2>. QED  BY <1>10, <2>1, <2>2 DEF Pending
<1>14. Filled'
  <2>1. \A r \in Ids : regs[r].filled \/ r = Top.reg => regs'[r].filled
    BY <1>5, <1>7
  <2>. QED  BY <1>1, <1>6, <1>8, <1>9, <2>1 DEF Filled, TypeOK
<1>. QED  BY <1>11, <1>12, <1>13, <1>14 DEF IInv

-----------------------------------------------------------------------------
(* Theorems.                                                               *)

\* The invariant holds of every behaviour.
THEOREM Invariant == Spec => []IInv
<1>1. Init => IInv
  <2>. SUFFICES ASSUME Init PROVE IInv
    OBVIOUS
  <2>1. Ids = {} /\ regs \in Seq(Registry) /\ stack \in Seq(Frame) /\ Len(stack) = 0
    BY EmptySeq DEF Init, Ids
  <2>2. (CHOOSE t \in Types : TRUE) \in Types
    BY RegistryAssumption
  <2>3. typ \in [Goroutines -> Types]
    BY <2>2 DEF Init
  <2>4. TypeOK
    BY <2>1, <2>3, RegistryAssumption DEF Init, TypeOK, Frame
  <2>5. Locked /\ Pending /\ Filled
    BY <2>1 DEF Init, Locked, Pending, Filled
  <2>. QED  BY <2>4, <2>5 DEF IInv
<1>2. IInv /\ [Next]_vars => IInv'
  <2>. SUFFICES ASSUME IInv, [Next]_vars PROVE IInv'
    OBVIOUS
  <2>1. CASE Next
    <3>1. PICK g \in Goroutines : Build(g) \/ \E t \in Types : Call(g, t)
      BY <2>1 DEF Next
    <3>2. typ[g] \in Types
      BY DEF IInv, TypeOK
    <3>3. CASE \E t \in Types : Call(g, t)
      BY <3>3, NoBuild
    <3>4. CASE LoadHit(g) \/ LoadMiss(g) \/ Lock(g) \/ CheckHit(g)
      BY <3>2, <3>4, NoBuild
    <3>. QED  BY <3>1, <3>3, <3>4, Begin, PassField, Ends DEF Build
  <2>2. CASE UNCHANGED vars
    BY <2>2, ZenonT(30) DEF vars, goVars, IInv, TypeOK, Locked, Pending, Filled, Ids
  <2>. QED  BY <2>1, <2>2
<1>. QED  BY <1>1, <1>2, PTL DEF Spec

\* However calls of BuildRegistry interleave and whatever the types refer to: while
\* nobody holds the lock every registry is filled and none is anchored
\* (registry.go:22, 94-96).
THEOREM IdleMeansBuiltHolds == Spec => []IdleMeansBuilt
<1>1. IInv => IdleMeansBuilt
  <2>. SUFFICES ASSUME IInv, mu = Nobody
                PROVE  /\ \A r \in Ids : regs[r].filled
                       /\ \A t \in Types : building[t] = 0
    BY DEF IdleMeansBuilt
  <2>1. 1 .. Len(stack) = {}
    BY EmptySeq DEF IInv, Locked
  <2>. QED  BY <2>1 DEF IInv, Pending
<1>. QED  BY <1>1, Invariant, PTL

\* No goroutine is ever answered a registry whose own fields are not all in it,
\* although the cache is read without the lock (registry.go:81-85).
THEOREM AnswersAreFilled == Spec => [](\A r \in Returned : r \in Ids /\ regs[r].filled)
<1>1. IInv => \A r \in Returned : r \in Ids /\ regs[r].filled
  BY DEF IInv, TypeOK, Filled, Returned
<1>. QED  BY <1>1, Invariant, PTL

-----------------------------------------------------------------------------
(* Induction, and what a closure is.                                       *)

\* Induction over the natural numbers, on a set of them.
LEMMA NatSets ==
    ASSUME NEW S, 0 \in S, \A n \in Nat : n \in S => n + 1 \in S
    PROVE  Nat \subseteq S
<1>. DEFINE T == {n \in Nat : n \notin S}
            R == OpToRel(<, Nat)
<1>. SUFFICES ASSUME T # {} PROVE FALSE
  OBVIOUS
<1>1. \A x, y \in Nat : <<x, y>> \in R <=> x < y
  BY DEF OpToRel
<1>2. IsWellFoundedOn(R, Nat)
  BY NatLessThanWellFounded
<1>. HIDE DEF R
<1>3. PICK x \in T : \A y \in T : ~(<<y, x>> \in R)
  <2>1. T \subseteq Nat
    OBVIOUS
  <2>. HIDE DEF T
  <2>. QED  BY <1>2, <2>1, WFMin
<1>4. \A y \in T : ~(y < x)
  BY <1>1, <1>3
<1>5. x # 0 /\ x - 1 \in Nat /\ x - 1 < x
  BY <1>3
<1>6. x - 1 \notin T
  BY <1>4, <1>5
<1>. QED  BY <1>3, <1>5, <1>6

\* A, and what one step leads to from it.
Widened(step, A) == A \cup UNION {step[x] : x \in A}

\* g is the sequence of sets that Closure goes through.
Steps(S, step, n, g) ==
    g = [k \in 0 .. n |-> IF k = 0 THEN S ELSE g[k - 1] \cup UNION {step[x] : x \in g[k - 1]}]

\* There is such a sequence, of any length.
LEMMA StepsExist ==
    ASSUME NEW S, NEW step
    PROVE  \A n \in Nat : \E g : Steps(S, step, n, g)
<1>. DEFINE N == {n \in Nat : \E g : Steps(S, step, n, g)}
<1>1. 0 \in N
  <2>. DEFINE g == [k \in {0} |-> S]
  <2>1. Steps(S, step, 0, g)
    BY DEF Steps
  <2>. QED  BY <2>1
<1>2. ASSUME NEW n \in Nat, n \in N PROVE n + 1 \in N
  <2>1. PICK g : Steps(S, step, n, g)
    BY <1>2
  <2>. DEFINE h == [k \in 0 .. (n + 1) |-> IF k <= n THEN g[k] ELSE g[n] \cup UNION {step[x] : x \in g[n]}]
  <2>2. ASSUME NEW k \in 0 .. (n + 1)
        PROVE  h[k] = IF k = 0 THEN S ELSE h[k - 1] \cup UNION {step[x] : x \in h[k - 1]}
    <3>1. CASE k = 0
      BY <2>1, <3>1 DEF Steps
    <3>2. CASE k # 0 /\ k <= n
      <4>1. k - 1 \in 0 .. n /\ k \in 0 .. n
        BY <3>2
      <4>2. h[k] = g[k] /\ h[k - 1] = g[k - 1]
        BY <3>2, <4>1
      <4>3. g[k] = g[k - 1] \cup UNION {step[x] : x \in g[k - 1]}
        BY <2>1, <3>2, <4>1 DEF Steps
      <4>. HIDE DEF h
      <4>. QED  BY <3>2, <4>2, <4>3
    <3>3. CASE k = n + 1
      <4>1. h[k] = g[n] \cup UNION {step[x] : x \in g[n]} /\ h[n] = g[n] /\ k - 1 = n /\ k # 0
        BY <3>3
      <4>. HIDE DEF h
      <4>. QED  BY <4>1
    <3>. QED  BY <3>1, <3>2, <3>3
  <2>3. h = [k \in 0 .. (n + 1) |-> h[k]]
    OBVIOUS
  <2>. HIDE DEF h
  <2>4. Steps(S, step, n + 1, h)
    BY <2>2, <2>3 DEF Steps
  <2>. QED  BY <2>4
<1>. HIDE DEF N
<1>3. Nat \subseteq N
  BY <1>1, <1>2, NatSets
<1>. QED  BY <1>3 DEF N

\* Closure answers the last set of it.
LEMMA ClosureSteps ==
    ASSUME NEW S, NEW step, NEW n \in Nat
    PROVE  \E g : Steps(S, step, n, g) /\ Closure(S, n, step) = g[n]
<1>. DEFINE more[k \in 0 .. n] ==
              IF k = 0 THEN S ELSE more[k - 1] \cup UNION {step[x] : x \in more[k - 1]}
<1>1. more = CHOOSE g : Steps(S, step, n, g)
  BY DEF Steps
<1>2. Closure(S, n, step) = more[n]
  BY DEF Closure
<1>. HIDE DEF more
<1>3. Steps(S, step, n, more)
  BY <1>1, StepsExist
<1>. QED  BY <1>2, <1>3

\* It starts with S and widens step by step.
LEMMA StepsValues ==
    ASSUME NEW S, NEW step, NEW n \in Nat, NEW g, Steps(S, step, n, g)
    PROVE  /\ g[0] = S
           /\ \A k \in 0 .. (n - 1) : g[k + 1] = Widened(step, g[k])
<1>1. g[0] = S
  BY DEF Steps
<1>2. ASSUME NEW k \in 0 .. (n - 1) PROVE g[k + 1] = Widened(step, g[k])
  <2>1. k + 1 \in 0 .. n /\ k + 1 # 0 /\ (k + 1) - 1 = k
    OBVIOUS
  <2>2. g[k + 1] = Widened(step, g[(k + 1) - 1])
    BY <2>1 DEF Steps, Widened
  <2>. QED  BY <2>1, <2>2
<1>. QED  BY <1>1, <1>2

\* A closure lies in every set that holds the start and is closed.
LEMMA ClosureLeast ==
    ASSUME NEW S, NEW step, NEW n \in Nat, NEW M, S \subseteq M, \A x \in M : step[x] \subseteq M
    PROVE  S \subseteq Closure(S, n, step) /\ Closure(S, n, step) \subseteq M
<1>1. PICK g : Steps(S, step, n, g) /\ Closure(S, n, step) = g[n]
  BY ClosureSteps
<1>0. /\ g[0] = S
      /\ \A k \in 0 .. (n - 1) : g[k + 1] = Widened(step, g[k])
  <2>1. Steps(S, step, n, g)
    BY <1>1
  <2>. QED  BY <2>1, StepsValues
<1>. DEFINE N == {k \in Nat : k <= n => S \subseteq g[k] /\ g[k] \subseteq M}
<1>2. 0 \in N
  BY <1>0
<1>3. ASSUME NEW k \in Nat, k \in N PROVE k + 1 \in N
  <2>. SUFFICES ASSUME k + 1 <= n PROVE S \subseteq g[k + 1] /\ g[k + 1] \subseteq M
    OBVIOUS
  <2>1. k \in 0 .. (n - 1) /\ S \subseteq g[k] /\ g[k] \subseteq M
    BY <1>3
  <2>2. g[k + 1] = Widened(step, g[k])
    BY <1>0, <2>1
  <2>. QED  BY <2>1, <2>2 DEF Widened
<1>. HIDE DEF N
<1>4. Nat \subseteq N
  BY <1>2, <1>3, NatSets
<1>. QED  BY <1>1, <1>4 DEF N

\* As many steps as there are elements are enough: the closure is closed.
Closed(step, A) == \A x \in A : step[x] \subseteq A

LEMMA ClosureClosed ==
    ASSUME NEW T, IsFiniteSet(T), NEW S, S \subseteq T, NEW step, Closed(step, T),
           NEW n \in Nat, n = Cardinality(T)
    PROVE  Closed(step, Closure(S, n, step))
<1>1. PICK g : Steps(S, step, n, g) /\ Closure(S, n, step) = g[n]
  BY ClosureSteps
<1>2. /\ g[0] = S
      /\ \A k \in 0 .. (n - 1) : g[k + 1] = Widened(step, g[k])
  <2>1. Steps(S, step, n, g)
    BY <1>1
  <2>. QED  BY <2>1, StepsValues
<1>. DEFINE Fine(k) == g[k] \subseteq T /\ (Closed(step, g[k]) \/ Cardinality(g[k]) >= k)
            N == {k \in Nat : k <= n => Fine(k)}
<1>3. 0 \in N
  <2>1. Cardinality(S) \in Nat
    BY FS_Subset, FS_CardinalityType
  <2>2. Fine(0)
    BY <1>2, <2>1
  <2>. QED  BY <2>2
<1>4. ASSUME NEW k \in Nat, k \in N PROVE k + 1 \in N
  <2>. SUFFICES ASSUME k + 1 <= n PROVE Fine(k + 1)
    OBVIOUS
  <2>1. k \in 0 .. (n - 1) /\ k <= n
    OBVIOUS
  <2>2. g[k + 1] = Widened(step, g[k])
    BY <1>2, <2>1
  <2>3. Fine(k)
    <3>. HIDE DEF Fine
    <3>. QED  BY <1>4, <2>1
  <2>4. g[k + 1] \subseteq T
    BY <2>2, <2>3 DEF Widened, Closed
  <2>5. CASE Closed(step, g[k])
    <3>1. g[k + 1] = g[k]
      BY <2>2, <2>5 DEF Widened, Closed
    <3>. QED  BY <2>4, <2>5, <3>1
  <2>6. CASE ~Closed(step, g[k])
    <3>1. g[k] \subseteq g[k + 1] /\ g[k] # g[k + 1]
      BY <2>2, <2>6 DEF Widened, Closed
    <3>2. IsFiniteSet(g[k + 1]) /\ Cardinality(g[k + 1]) \in Nat
      BY <2>4, FS_Subset, FS_CardinalityType
    <3>3. Cardinality(g[k]) <= Cardinality(g[k + 1]) /\ Cardinality(g[k]) # Cardinality(g[k + 1])
      BY <3>1, <3>2, FS_Subset
    <3>4. Cardinality(g[k]) \in Nat
      BY <2>3, FS_Subset, FS_CardinalityType
    <3>5. Cardinality(g[k + 1]) >= k + 1
      BY <2>3, <2>6, <3>2, <3>3, <3>4
    <3>. QED  BY <2>4, <3>5
  <2>. QED  BY <2>5, <2>6
<1>. HIDE DEF N, Fine
<1>5. Nat \subseteq N
  BY <1>3, <1>4, NatSets
<1>6. Fine(n)
  BY <1>5 DEF N
<1>7. Closed(step, g[n])
  <2>1. g[n] \subseteq T /\ (Closed(step, g[n]) \/ Cardinality(g[n]) >= n)
    BY <1>6 DEF Fine
  <2>2. Cardinality(g[n]) \in Nat /\ Cardinality(g[n]) <= n /\ (Cardinality(g[n]) = n => g[n] = T)
    BY <2>1, FS_Subset, FS_CardinalityType
  <2>3. Cardinality(g[n]) >= n => g[n] = T
    BY <2>2
  <2>. QED  BY <2>1, <2>3
<1>. QED  BY <1>1, <1>7

-----------------------------------------------------------------------------
(* What types use.                                                         *)
\* Uses(t) is the least set that holds what t refers to and is closed.
LEMMA UsesClosed ==
    ASSUME NEW t \in Types
    PROVE  /\ Direct(t) \subseteq Uses(t) /\ Uses(t) \subseteq Types
           /\ \A u \in Uses(t) : Direct(u) \subseteq Uses(t)
<1>. DEFINE step == [u \in Types |-> Direct(u)]
            n == Cardinality(Types)
<1>1. \A u \in Types : Direct(u) \subseteq Types /\ step[u] = Direct(u)
  BY DEF Direct
<1>2. n \in Nat
  BY RegistryAssumption, FS_CardinalityType
<1>3. Uses(t) = Closure(Direct(t), n, step)
  BY DEF Uses
<1>4. n = Cardinality(Types) /\ IsFiniteSet(Types)
  BY RegistryAssumption
<1>. HIDE DEF step, n
<1>5. Direct(t) \subseteq Uses(t) /\ Uses(t) \subseteq Types
  <2>1. Direct(t) \subseteq Types /\ \A x \in Types : step[x] \subseteq Types
    BY <1>1
  <2>. QED  BY <1>2, <1>3, <2>1, ClosureLeast
<1>6. Closed(step, Uses(t))
  <2>1. Direct(t) \subseteq Types /\ Closed(step, Types)
    BY <1>1 DEF Closed
  <2>. QED  BY <1>2, <1>3, <1>4, <2>1, ClosureClosed
<1>. QED  BY <1>1, <1>5, <1>6 DEF Closed

\* It lies in every set that is closed and holds what t refers to.
LEMMA UsesLeast ==
    ASSUME NEW t \in Types, NEW M, Direct(t) \subseteq M, \A u \in M \cap Types : Direct(u) \subseteq M
    PROVE  Uses(t) \subseteq M
<1>. DEFINE step == [u \in Types |-> Direct(u)]
            n == Cardinality(Types)
            K == M \cap Types
<1>1. n \in Nat
  BY RegistryAssumption, FS_CardinalityType
<1>2. Uses(t) = Closure(Direct(t), n, step)
  BY DEF Uses
<1>3. Direct(t) \subseteq K /\ \A x \in K : step[x] \subseteq K
  BY DEF Direct
<1>. HIDE DEF step, n, K
<1>4. Uses(t) \subseteq K
  BY <1>1, <1>2, <1>3, ClosureLeast
<1>. QED  BY <1>4 DEF K

\* What a type uses, it refers to, or something it refers to uses it; and what its
\* uses use.
LEMMA UsesSplit ==
    ASSUME NEW t \in Types
    PROVE  /\ \A u \in Uses(t) : Uses(u) \subseteq Uses(t)
           /\ \A u \in Uses(t) : u \in Direct(t) \/ \E w \in Direct(t) : u \in Uses(w)
<1>1. ASSUME NEW u \in Uses(t) PROVE Uses(u) \subseteq Uses(t)
  <2>1. u \in Types /\ Direct(u) \subseteq Uses(t) /\ \A w \in Uses(t) \cap Types : Direct(w) \subseteq Uses(t)
    BY UsesClosed
  <2>. QED  BY <2>1, UsesLeast
<1>2. \A u \in Uses(t) : u \in Direct(t) \/ \E w \in Direct(t) : u \in Uses(w)
  <2>. DEFINE M == {u \in Types : u \in Direct(t) \/ \E w \in Direct(t) : u \in Uses(w)}
  <2>1. Direct(t) \subseteq M /\ Direct(t) \subseteq Types
    BY DEF Direct
  <2>2. ASSUME NEW u \in M \cap Types PROVE Direct(u) \subseteq M
    <3>1. CASE u \in Direct(t)
      BY <3>1, UsesClosed DEF Direct
    <3>2. CASE \E w \in Direct(t) : u \in Uses(w)
      <4>1. PICK w \in Direct(t) : u \in Uses(w)
        BY <3>2
      <4>2. Direct(u) \subseteq Uses(w) /\ Uses(w) \subseteq Types
        BY <2>1, <4>1, UsesClosed
      <4>. QED  BY <4>2
    <3>. QED  BY <3>1, <3>2
  <2>. HIDE DEF M
  <2>3. Uses(t) \subseteq M
    BY <2>1, <2>2, UsesLeast
  <2>. QED  BY <2>3 DEF M
<1>. QED  BY <1>1, <1>2

-----------------------------------------------------------------------------
(* What a type uses, as a value.                                           *)

Used == [t \in Types |-> Uses(t)]

\* The types that are not recursive, nor use one that is.
Straight == {t \in Types : \A u \in {t} \cup Used[t] : u \notin Used[u]}

\* Of these the ones that are structs and use structs only.
Clean == {t \in Straight : \A u \in {t} \cup Used[t] : shape[u].kind = "struct"}

\* The types with an unsupported field, their own or of a type they use.
Unsound == {t \in Types : \E u \in {t} \cup Used[t] :
                            \E i \in DOMAIN shape[u].fields : shape[u].fields[i] = Bad}

\* The declarations never change, nor what is read off them.
LEMMA SameTypes ==
    ASSUME shape' = shape
    PROVE  Used' = Used /\ Straight' = Straight /\ Clean' = Clean /\ Unsound' = Unsound
<1>1. ASSUME NEW t \in Types PROVE Direct(t)' = Direct(t)
  BY DEF Direct
<1>2. [u \in Types |-> Direct(u)]' = [u \in Types |-> Direct(u)]
  BY <1>1
<1>3. ASSUME NEW t \in Types PROVE Uses(t)' = Uses(t)
  BY <1>1, <1>2 DEF Uses
<1>4. Used' = Used
  BY <1>3 DEF Used
<1>. QED  BY <1>4 DEF Straight, Clean, Unsound

\* The lemmas about Uses, about Used.
LEMMA UsedOf ==
    ASSUME NEW t \in Types
    PROVE  /\ Direct(t) \subseteq Used[t] /\ Used[t] \subseteq Types
           /\ \A u \in Used[t] : Used[u] \subseteq Used[t]
           /\ \A u \in Used[t] : u \in Direct(t) \/ \E w \in Direct(t) : u \in Used[w]
<1>1. \A u \in Types : Used[u] = Uses(u)
  BY DEF Used
<1>2. Direct(t) \subseteq Types
  BY DEF Direct
<1>3. Uses(t) \subseteq Types
  BY UsesClosed
<1>. QED  BY <1>1, <1>2, <1>3, UsesClosed, UsesSplit

\* What a type uses is no worse than the type, and is another type.
LEMMA TypesBelow ==
    ASSUME NEW t \in Types, NEW u \in Used[t]
    PROVE  /\ t \in Straight => u \in Straight /\ u # t
           /\ t \in Clean => u \in Clean
<1>1. u \in Types /\ Used[u] \subseteq Used[t]
  BY UsedOf
<1>2. t \in Straight => u \in Straight /\ u # t
  BY <1>1 DEF Straight
<1>. QED  BY <1>1, <1>2 DEF Clean

\* A type's field that is a type.
LEMMA FieldUsed ==
    ASSUME TypeOK, NEW t \in Types, NEW i \in DOMAIN shape[t].fields
    PROVE  /\ shape[t].fields \in Seq(Types \cup {Plain, Bad})
           /\ DOMAIN shape[t].fields = 1 .. Len(shape[t].fields) /\ Len(shape[t].fields) \in Nat
           /\ shape[t].fields[i] \in Types \cup {Plain, Bad}
           /\ shape[t].fields[i] \in Types => shape[t].fields[i] \in Used[t]
<1>1. shape[t].fields \in Seq(Types \cup {Plain, Bad})
  BY RegistryAssumption DEF TypeOK, Shape
<1>2. DOMAIN shape[t].fields = 1 .. Len(shape[t].fields) /\ Len(shape[t].fields) \in Nat
  BY <1>1, LenProperties
<1>3. shape[t].fields[i] \in Types \cup {Plain, Bad}
  BY <1>1, <1>2, ElementOfSeq
<1>4. shape[t].fields[i] \in Types => shape[t].fields[i] \in Direct(t)
  BY DEF Direct
<1>. QED  BY <1>1, <1>2, <1>3, <1>4, UsedOf

\* A type is unsound because of one of its fields.
LEMMA UnsoundOf ==
    ASSUME TypeOK, NEW t \in Types
    PROVE  t \in Unsound <=> \E i \in DOMAIN shape[t].fields :
                               shape[t].fields[i] = Bad \/ shape[t].fields[i] \in Unsound
<1>1. ASSUME t \in Unsound
      PROVE  \E i \in DOMAIN shape[t].fields : shape[t].fields[i] = Bad \/ shape[t].fields[i] \in Unsound
  <2>1. PICK u \in {t} \cup Used[t] : \E i \in DOMAIN shape[u].fields : shape[u].fields[i] = Bad
    BY <1>1 DEF Unsound
  <2>2. CASE u = t
    BY <2>1, <2>2
  <2>3. CASE u \in Used[t]
    <3>1. PICK w \in Direct(t) : u = w \/ u \in Used[w]
      BY <2>3, UsedOf
    <3>2. w \in Types /\ \E i \in DOMAIN shape[t].fields : shape[t].fields[i] = w
      BY DEF Direct
    <3>3. w \in Unsound
      BY <2>1, <3>1, <3>2 DEF Unsound
    <3>. QED  BY <3>2, <3>3
  <2>. QED  BY <2>1, <2>2, <2>3
<1>2. ASSUME NEW i \in DOMAIN shape[t].fields, shape[t].fields[i] = Bad PROVE t \in Unsound
  BY <1>2 DEF Unsound
<1>3. ASSUME NEW i \in DOMAIN shape[t].fields, shape[t].fields[i] \in Unsound PROVE t \in Unsound
  <2>. DEFINE w == shape[t].fields[i]
  <2>1. w \in Types
    BY <1>3 DEF Unsound
  <2>2. w \in Used[t] /\ Used[w] \subseteq Used[t]
    BY <2>1, FieldUsed, UsedOf
  <2>. HIDE DEF w
  <2>3. w \in Unsound
    BY <1>3 DEF w
  <2>. QED  BY <2>2, <2>3 DEF Unsound
<1>. QED  BY <1>1, <1>2, <1>3

-----------------------------------------------------------------------------
(* What is open, what refers to what, and what is known of errors.         *)
\* A registry refers to registries of the types its type uses, and, unless that is
\* recursive, to finished ones; an anchor is of its type (registry.go:371-393).
Declared ==
    /\ \A r \in Ids : \A s \in regs[r].subs :
         /\ regs[s].typ \in Used[regs[r].typ]
         /\ regs[r].typ \in Straight => regs[s].filled
    /\ \A t \in Types : building[t] # 0 => regs[building[t]].typ = t

\* The open calls: each waits at the field whose type the next one builds, each has a
\* registry of its own, and the types inside are used by the types outside
\* (registry.go:377-391).
Nested ==
    \A i \in 1 .. Len(stack) :
      /\ regs[stack[i].reg].typ = stack[i].typ /\ ~regs[stack[i].reg].filled
      /\ stack[i].next \in 1 .. Len(shape[stack[i].typ].fields) + 1
      /\ i < Len(stack) => /\ stack[i].next \in DOMAIN shape[stack[i].typ].fields
                           /\ shape[stack[i].typ].fields[stack[i].next] = stack[i + 1].typ
      /\ \A j \in i + 1 .. Len(stack) :
           stack[j].reg # stack[i].reg /\ stack[j].typ \in Used[stack[i].typ]

\* An unsupported field among those before the n-th.
BadBefore(t, n) ==
    \E k \in 1 .. n - 1 : shape[t].fields[k] = Bad \/ shape[t].fields[k] \in Unsound

\* The error of a finished registry is right, and of an open one as far as it got
\* (registry.go:384-393).
Known ==
    /\ \A r \in Ids : regs[r].filled /\ regs[r].typ \in Clean =>
                        (regs[r].err <=> regs[r].typ \in Unsound)
    /\ \A i \in 1 .. Len(stack) :
         stack[i].typ \in Clean =>
           (regs[stack[i].reg].err <=> BadBefore(stack[i].typ, stack[i].next))

Deep == IInv /\ Declared /\ Nested /\ Known

\* WithSub, field by field.
LEMMA WithSubValues ==
    ASSUME NEW r \in Seq(Registry), NEW frame, frame.reg \in 1 .. Len(r), NEW s \in 1 .. Len(r)
    PROVE  \A q \in 1 .. Len(r) :
             /\ WithSub(r, frame, s)[q].typ = r[q].typ
             /\ WithSub(r, frame, s)[q].filled = r[q].filled
             /\ WithSub(r, frame, s)[q].subs = IF q = frame.reg THEN r[q].subs \cup {s} ELSE r[q].subs
             /\ WithSub(r, frame, s)[q].err <=>
                  (r[q].err \/ (q = frame.reg /\ shape[frame.typ].kind = "struct" /\ r[s].err))
<1>1. Len(r) \in Nat /\ \A q \in 1 .. Len(r) : r[q] \in Registry
  BY LenProperties, ElementOfSeq
<1>. DEFINE known == shape[frame.typ].kind = "struct" /\ r[s].err
            new   == [r[frame.reg] EXCEPT !.subs = @ \cup {s}, !.err = @ \/ known]
<1>2. /\ new.typ = r[frame.reg].typ /\ new.filled = r[frame.reg].filled /\ new.subs = r[frame.reg].subs \cup {s}
      /\ new.err <=> (r[frame.reg].err \/ known)
  <2>. HIDE DEF known
  <2>. QED  BY <1>1 DEF Registry
<1>3. WithSub(r, frame, s) = [r EXCEPT ![frame.reg] = new]
  BY DEF WithSub
<1>. HIDE DEF new
<1>4. \A q \in 1 .. Len(r) : WithSub(r, frame, s)[q] = IF q = frame.reg THEN new ELSE r[q]
  BY <1>1, <1>3, ExceptSeq
<1>. QED  BY <1>1, <1>2, <1>4

\* Skip, frame by frame.
LEMMA SkipValues ==
    ASSUME TypeOK, stack # <<>>, stack' = Skip
    PROVE  /\ Len(stack') = Len(stack) /\ Len(stack) \in Nat \ {0}
           /\ \A i \in 1 .. Len(stack) :
                /\ stack'[i].reg = stack[i].reg /\ stack'[i].typ = stack[i].typ
                /\ stack'[i].next = IF i = Len(stack) THEN stack[i].next + 1 ELSE stack[i].next
<1>1. stack \in Seq(Frame) /\ Len(stack) \in Nat \ {0}
  BY TopTyped DEF TypeOK, Frame
<1>2. \A i \in 1 .. Len(stack) : stack[i] \in Frame
  BY <1>1, ElementOfSeq
<1>. QED  BY <1>1, <1>2 DEF Skip, Frame

\* Steps that leave registries and open calls alone.
LEMMA DeepSame ==
    ASSUME Deep, IInv', UNCHANGED <<shape, building, regs, stack>>
    PROVE  Deep'
<1>1. Used' = Used /\ Straight' = Straight /\ Clean' = Clean /\ Unsound' = Unsound /\ Ids' = Ids
  BY SameTypes DEF Ids
<1>. QED  BY <1>1 DEF Deep, Declared, Nested, Known, BadBefore

\* The open calls, as TypeOK has them.
LEMMA Frames ==
    ASSUME TypeOK
    PROVE  /\ Len(stack) \in Nat /\ (stack # <<>> => Len(stack) \in 1 .. Len(stack))
           /\ \A i \in 1 .. Len(stack) : /\ stack[i].reg \in Ids /\ stack[i].typ \in Types
                                         /\ stack[i].next \in Nat
                                         /\ regs[stack[i].reg] \in Registry
<1>1. stack \in Seq(Frame) /\ regs \in Seq(Registry)
  BY DEF TypeOK, Frame
<1>2. Len(stack) \in Nat /\ (stack # <<>> => Len(stack) \in 1 .. Len(stack))
  BY <1>1, LenProperties, EmptySeq
<1>3. \A i \in 1 .. Len(stack) : stack[i] \in Frame
  BY <1>1, ElementOfSeq
<1>. QED  BY <1>1, <1>2, <1>3, ElementOfSeq DEF Frame, Ids

\* A registry is begun.
LEMMA DeepBegin ==
    ASSUME Deep, IInv', NEW g \in Goroutines, CheckMiss(g) \/ NestedField(g)
    PROVE  Deep'
<1>. DEFINE n == Len(stack)
            m == Len(regs) + 1
<1>1. TypeOK /\ Locked /\ Declared /\ Nested /\ Known
  BY DEF Deep, IInv
<1>2. PICK t \in Types :
        /\ Open(t)
        /\ n = 0 \/ (stack # <<>> /\ Top.next \in DOMAIN shape[Top.typ].fields
                                  /\ shape[Top.typ].fields[Top.next] = t)
  <2>1. CASE CheckMiss(g)
    <3>1. stack = <<>> /\ typ[g] \in Types /\ Open(typ[g])
      BY <1>1, <2>1 DEF CheckMiss, Locked, TypeOK
    <3>. QED  BY <3>1, EmptySeq
  <2>2. CASE NestedField(g)
    <3>1. stack # <<>> /\ Field \in Types /\ Open(Field) /\ Top.next <= Len(shape[Top.typ].fields)
      BY <1>1, <2>2 DEF NestedField, Locked, AtField
    <3>2. Top.typ \in Types /\ Top.next \in Nat
      BY <1>1, <3>1, TopTyped
    <3>3. Top.next \in 1 .. Len(shape[Top.typ].fields) + 1
      BY <1>1, <3>1, Frames DEF Nested, Top
    <3>4. shape[Top.typ].fields \in Seq(Types \cup {Plain, Bad})
      BY <1>1, <3>2, RegistryAssumption DEF TypeOK, Shape
    <3>5. DOMAIN shape[Top.typ].fields = 1 .. Len(shape[Top.typ].fields) /\ Len(shape[Top.typ].fields) \in Nat
      BY <3>4, LenProperties
    <3>6. Top.next \in DOMAIN shape[Top.typ].fields
      BY <3>1, <3>2, <3>3, <3>5
    <3>. QED  BY <3>1, <3>6 DEF Field
  <2>. QED  BY <2>1, <2>2
<1>3. shape' = shape
  BY DEF CheckMiss, NestedField
<1>4. Used' = Used /\ Straight' = Straight /\ Clean' = Clean /\ Unsound' = Unsound
  BY <1>3, SameTypes
<1>5. /\ Ids' = Ids \cup {m} /\ m \notin Ids
      /\ \A r \in Ids : regs'[r] = regs[r]
      /\ regs'[m].typ = t /\ regs'[m].subs = {} /\ ~regs'[m].filled /\ ~regs'[m].err
  <2>1. Ids' = Ids \cup {m} /\ (\A r \in Ids : regs'[r] = regs[r]) /\ regs'[m] = NewRegistry(t)
    BY <1>1, <1>2, OpenTyped
  <2>2. m \notin Ids
    BY <1>1, LenProperties DEF TypeOK, Ids
  <2>. QED  BY <2>1, <2>2 DEF NewRegistry
<1>6. /\ n \in Nat /\ Len(stack') = n + 1
      /\ \A i \in 1 .. n : stack'[i] = stack[i]
      /\ stack'[n + 1].reg = m /\ stack'[n + 1].typ = t /\ stack'[n + 1].next = 1
  <2>1. n \in Nat
    BY <1>1, Frames
  <2>2. /\ Len(stack') = n + 1 /\ \A i \in 1 .. n : stack'[i] = stack[i]
        /\ stack'[n + 1] = [reg |-> m, typ |-> t, next |-> 1]
    BY <1>1, <1>2, OpenTyped
  <2>. HIDE DEF n, m
  <2>. QED  BY <2>1, <2>2
<1>7. building' = [building EXCEPT ![t] = m]
  BY <1>2 DEF Open
<1>8. \A i \in 1 .. n : stack[i].reg \in Ids /\ stack[i].typ \in Types
  BY <1>1, Frames
<1>9. \A i \in 1 .. n : t \in Used[stack[i].typ]
  <2>. SUFFICES ASSUME NEW i \in 1 .. n PROVE t \in Used[stack[i].typ]
    OBVIOUS
  <2>1. stack # <<>> /\ Top = stack[n] /\ n \in 1 .. n /\ Top.typ \in Types
    BY <1>2, <1>6, <1>8 DEF Top
  <2>2. t \in Used[Top.typ]
    BY <1>1, <1>2, <2>1, FieldUsed
  <2>3. i = n \/ Top.typ \in Used[stack[i].typ]
    BY <1>1, <1>6, <2>1 DEF Nested
  <2>. QED  BY <1>8, <2>1, <2>2, <2>3, UsedOf
<1>10. Declared'
  <2>1. \A r \in Ids : regs[r].subs \subseteq Ids
    BY <1>1 DEF TypeOK
  <2>2. \A r \in Ids' : \A s \in regs'[r].subs :
          /\ regs'[s].typ \in Used[regs'[r].typ]
          /\ regs'[r].typ \in Straight => regs'[s].filled
    BY <1>1, <1>5, <2>1 DEF Declared
  <2>3. \A u \in Types : building'[u] # 0 => regs'[building'[u]].typ = u
    BY <1>1, <1>5, <1>7 DEF Declared, TypeOK
  <2>. QED  BY <1>4, <2>2, <2>3 DEF Declared
<1>. HIDE DEF n, m
<1>11. \A i \in 1 .. n + 1 : i \in 1 .. n \/ i = n + 1
  BY <1>6
<1>12. Nested'
  <2>1. ASSUME NEW i \in 1 .. n
        PROVE  /\ regs'[stack'[i].reg].typ = stack'[i].typ /\ ~regs'[stack'[i].reg].filled
               /\ stack'[i].next \in 1 .. Len(shape[stack'[i].typ].fields) + 1
               /\ stack'[i].next \in DOMAIN shape[stack'[i].typ].fields
               /\ shape[stack'[i].typ].fields[stack'[i].next] = stack'[i + 1].typ
               /\ \A j \in i + 1 .. n + 1 :
                    stack'[j].reg # stack'[i].reg /\ stack'[j].typ \in Used[stack'[i].typ]
    <3>1. stack'[i] = stack[i] /\ stack[i].reg \in Ids /\ regs'[stack[i].reg] = regs[stack[i].reg]
      BY <1>5, <1>6, <1>8
    <3>2. /\ regs[stack[i].reg].typ = stack[i].typ /\ ~regs[stack[i].reg].filled
          /\ stack[i].next \in 1 .. Len(shape[stack[i].typ].fields) + 1
      BY <1>1 DEF Nested, n
    <3>3. stack'[i].next \in DOMAIN shape[stack'[i].typ].fields /\ shape[stack'[i].typ].fields[stack'[i].next] = stack'[i + 1].typ
      <4>1. CASE i = n
        BY <1>2, <1>6, <3>1, <4>1 DEF Top, n
      <4>2. CASE i # n
        <5>1. i < n /\ i + 1 \in 1 .. n
          BY <1>6, <4>2
        <5>2. stack'[i + 1] = stack[i + 1]
          BY <1>6, <5>1
        <5>. QED  BY <1>1, <3>1, <5>1, <5>2 DEF Nested, n
      <4>. QED  BY <4>1, <4>2
    <3>4. ASSUME NEW j \in i + 1 .. n + 1
          PROVE  stack'[j].reg # stack'[i].reg /\ stack'[j].typ \in Used[stack'[i].typ]
      <4>1. CASE j = n + 1
        BY <1>5, <1>6, <1>9, <3>1, <4>1
      <4>2. CASE j # n + 1
        <5>1. j \in i + 1 .. n /\ j \in 1 .. n
          BY <1>6, <4>2
        <5>2. stack'[j] = stack[j]
          BY <1>6, <5>1
        <5>. QED  BY <1>1, <3>1, <5>1, <5>2 DEF Nested, n
      <4>. QED  BY <4>1, <4>2
    <3>. QED  BY <3>1, <3>2, <3>3, <3>4
  <2>2. /\ regs'[stack'[n + 1].reg].typ = stack'[n + 1].typ /\ ~regs'[stack'[n + 1].reg].filled
        /\ stack'[n + 1].next \in 1 .. Len(shape[stack'[n + 1].typ].fields) + 1
    <3>1. Len(shape[t].fields) \in Nat
      BY <1>1, RegistryAssumption, LenProperties DEF TypeOK, Shape
    <3>. QED  BY <1>5, <1>6, <3>1
  <2>3. n + 1 + 1 .. n + 1 = {} /\ ~(n + 1 < n + 1)
    BY <1>6
  <2>. QED  BY <1>3, <1>4, <1>6, <1>11, <2>1, <2>2, <2>3 DEF Nested
<1>13. Known'
  <2>1. \A r \in Ids' : regs'[r].filled /\ regs'[r].typ \in Clean => (regs'[r].err <=> regs'[r].typ \in Unsound)
    BY <1>1, <1>5 DEF Known
  <2>2. \A i \in 1 .. n : stack'[i].typ \in Clean =>
           (regs'[stack'[i].reg].err <=> BadBefore(stack'[i].typ, stack'[i].next))
    BY <1>1, <1>5, <1>6, <1>8 DEF Known, n
  <2>3. ~BadBefore(t, 1) /\ ~regs'[stack'[n + 1].reg].err
    BY <1>5, <1>6 DEF BadBefore
  <2>4. \A i \in 1 .. n + 1 : stack'[i].typ \in Clean =>
           (regs'[stack'[i].reg].err <=> BadBefore(stack'[i].typ, stack'[i].next))
    BY <1>6, <1>11, <2>2, <2>3
  <2>. QED  BY <1>3, <1>4, <1>6, <2>1, <2>4 DEF Known, BadBefore
<1>. QED  BY <1>10, <1>12, <1>13 DEF Deep

\* One field more is before the next.
LEMMA BadBeforeNext ==
    ASSUME NEW t, NEW n \in Nat \ {0}
    PROVE  BadBefore(t, n + 1) <=> \/ BadBefore(t, n)
                                   \/ shape[t].fields[n] = Bad \/ shape[t].fields[n] \in Unsound
<1>1. 1 .. (n + 1) - 1 = (1 .. n - 1) \cup {n}
  OBVIOUS
<1>. QED  BY <1>1 DEF BadBefore

\* The field the innermost call is at.
LEMMA FieldTyped ==
    ASSUME TypeOK, Nested, stack # <<>>, AtField
    PROVE  /\ Top.next \in DOMAIN shape[Top.typ].fields /\ Top.next \in Nat \ {0}
           /\ Field = shape[Top.typ].fields[Top.next]
           /\ Top.next + 1 \in 1 .. Len(shape[Top.typ].fields) + 1
           /\ Field \in Types => Field \in Used[Top.typ]
<1>1. Top.typ \in Types /\ Top.next \in Nat /\ Top = stack[Len(stack)] /\ Len(stack) \in 1 .. Len(stack)
  BY TopTyped, Frames DEF Top
<1>2. Top.next \in 1 .. Len(shape[Top.typ].fields) + 1
  BY <1>1 DEF Nested
<1>3. shape[Top.typ].fields \in Seq(Types \cup {Plain, Bad})
  BY <1>1, RegistryAssumption DEF TypeOK, Shape
<1>4. DOMAIN shape[Top.typ].fields = 1 .. Len(shape[Top.typ].fields) /\ Len(shape[Top.typ].fields) \in Nat
  BY <1>3, LenProperties
<1>5. Top.next \in DOMAIN shape[Top.typ].fields /\ Top.next \in Nat \ {0}
      /\ Top.next + 1 \in 1 .. Len(shape[Top.typ].fields) + 1
  BY <1>1, <1>2, <1>4 DEF AtField
<1>. QED  BY <1>1, <1>5, FieldUsed DEF Field

\* What is anchored is being built further out, or here: the type is recursive.
LEMMA AnchorLoops ==
    ASSUME TypeOK, Pending, Nested, stack # <<>>, AtField, Field \in Types, building[Field] # 0
    PROVE  Top.typ \notin Straight
<1>1. Field \in Used[Top.typ] /\ Top.typ \in Types /\ Used[Top.typ] \subseteq Types
  BY FieldTyped, TopTyped, UsedOf
<1>2. PICK i \in 1 .. Len(stack) : stack[i].typ = Field
  BY DEF Pending
<1>3. Len(stack) \in 1 .. Len(stack) /\ Len(stack) \in Nat /\ Top = stack[Len(stack)]
  BY Frames DEF Top
<1>4. Field = Top.typ \/ Top.typ \in Used[Field]
  <2>1. CASE i = Len(stack)
    BY <1>2, <1>3, <2>1
  <2>2. CASE i # Len(stack)
    <3>1. Len(stack) \in i + 1 .. Len(stack)
      BY <1>3, <2>2
    <3>. QED  BY <1>2, <1>3, <3>1 DEF Nested
  <2>. QED  BY <2>1, <2>2
<1>5. Top.typ \in Used[Top.typ]
  BY <1>1, <1>4, UsedOf
<1>. QED  BY <1>5 DEF Straight

\* A field that needs no build of its own.
LEMMA DeepPass ==
    ASSUME Deep, IInv', NEW g \in Goroutines, PlainField(g) \/ BadField(g) \/ AnchoredField(g)
    PROVE  Deep'
<1>. DEFINE n == Len(stack)
            f == Top.reg
            T == Top.typ
<1>1. TypeOK /\ Locked /\ Pending /\ Declared /\ Nested /\ Known
  BY DEF Deep, IInv
<1>2. stack # <<>> /\ stack' = Skip /\ AtField /\ shape' = shape /\ building' = building
  BY <1>1 DEF Locked, PlainField, BadField, AnchoredField
<1>3. Used' = Used /\ Straight' = Straight /\ Clean' = Clean /\ Unsound' = Unsound
  BY <1>2, SameTypes
<1>4. /\ n \in Nat \ {0} /\ Len(stack') = n /\ Top = stack[n] /\ n \in 1 .. n
      /\ f \in Ids /\ T \in Types
      /\ \A i \in 1 .. n : /\ stack'[i].reg = stack[i].reg /\ stack'[i].typ = stack[i].typ
                           /\ stack'[i].next = IF i = n THEN stack[i].next + 1 ELSE stack[i].next
                           /\ stack[i].reg \in Ids /\ stack[i].next \in Nat
  BY <1>1, <1>2, SkipValues, TopTyped, Frames DEF Top
<1>5. /\ Top.next \in DOMAIN shape[T].fields /\ Top.next \in Nat \ {0}
      /\ Field = shape[T].fields[Top.next]
      /\ Top.next + 1 \in 1 .. Len(shape[T].fields) + 1
  BY <1>1, <1>2, FieldTyped
<1>. DEFINE Gains(X) ==
              /\ Ids' = Ids
              /\ \A q \in Ids : /\ regs'[q].typ = regs[q].typ /\ regs'[q].filled = regs[q].filled
                                /\ regs'[q].subs = IF q = f THEN regs[q].subs \cup X ELSE regs[q].subs
                                /\ q # f => (regs'[q].err <=> regs[q].err)
              /\ T \in Clean => (regs'[f].err <=> (regs[f].err \/ Field = Bad \/ Field \in Unsound))
              /\ X # {} => T \notin Straight
              /\ \A s \in X : regs[s].typ \in Used[T]
<1>6. PICK X \in SUBSET Ids : Gains(X)
  <2>1. regs \in Seq(Registry) /\ Len(regs) \in Nat /\ f \in 1 .. Len(regs) /\ \A q \in Ids : regs[q] \in Registry
    BY <1>1, <1>4, LenProperties, ElementOfSeq DEF TypeOK, Ids
  <2>2. CASE PlainField(g)
    <3>1. regs' = regs /\ Field = Plain
      BY <2>2 DEF PlainField
    <3>2. Field # Bad /\ Field \notin Unsound
      BY <3>1, RegistryAssumption DEF Plain, Bad, Unsound
    <3>3. Ids' = Ids
      BY <3>1 DEF Ids
    <3>4. Gains({})
      BY <3>1, <3>2, <3>3
    <3>. HIDE DEF Gains
    <3>. QED  BY <3>4
  <2>3. CASE BadField(g)
    <3>. DEFINE new == [regs[f] EXCEPT !.err = TRUE]
    <3>1. new \in Registry /\ new.filled = regs[f].filled /\ new.subs = regs[f].subs /\ new.typ = regs[f].typ /\ new.err
      BY <1>4, <2>1 DEF Registry
    <3>2. regs' = [regs EXCEPT ![f] = new] /\ Field = Bad
      BY <2>3 DEF BadField
    <3>. HIDE DEF new, f
    <3>3. /\ Len(regs') = Len(regs)
          /\ \A q \in 1 .. Len(regs) : regs'[q] = IF q = f THEN new ELSE regs[q]
      BY <2>1, <3>1, <3>2, ExceptSeq
    <3>4. Ids' = Ids
      BY <3>3 DEF Ids
    <3>5. /\ \A q \in Ids : /\ regs'[q].typ = regs[q].typ /\ regs'[q].filled = regs[q].filled
                            /\ regs'[q].subs = regs[q].subs
                            /\ q # f => (regs'[q].err <=> regs[q].err)
          /\ regs'[f].err
      BY <1>4, <3>1, <3>3 DEF Ids
    <3>6. Gains({})
      BY <3>2, <3>4, <3>5
    <3>. HIDE DEF Gains
    <3>. QED  BY <3>6
  <2>4. CASE AnchoredField(g)
    <3>. DEFINE s == building[Field]
    <3>1. Field \in Types /\ s # 0 /\ s \in Ids /\ regs' = WithSub(regs, Top, s)
      BY <1>1, <2>4 DEF AnchoredField, Anchor, TypeOK
    <3>2. regs[s].typ = Field /\ Field \in Used[T] /\ T \notin Straight
      BY <1>1, <1>2, <3>1, FieldTyped, AnchorLoops DEF Declared
    <3>3. T \notin Clean
      BY <3>2 DEF Clean
    <3>. HIDE DEF s
    <3>4. s \in 1 .. Len(regs)
      BY <3>1 DEF Ids
    <3>5. \A q \in 1 .. Len(regs) :
             /\ regs'[q].typ = regs[q].typ /\ regs'[q].filled = regs[q].filled
             /\ regs'[q].subs = IF q = f THEN regs[q].subs \cup {s} ELSE regs[q].subs
             /\ q # f => (regs'[q].err <=> regs[q].err)
      <4>1. \A q \in 1 .. Len(regs) :
             /\ WithSub(regs, Top, s)[q].typ = regs[q].typ
             /\ WithSub(regs, Top, s)[q].filled = regs[q].filled
             /\ WithSub(regs, Top, s)[q].subs = IF q = f THEN regs[q].subs \cup {s} ELSE regs[q].subs
             /\ WithSub(regs, Top, s)[q].err <=>
                  (regs[q].err \/ (q = f /\ shape[Top.typ].kind = "struct" /\ regs[s].err))
        BY <2>1, <3>4, WithSubValues
      <4>. QED  BY <3>1, <4>1
    <3>6. Len(regs') = Len(regs)
      BY <1>1, <2>1, <3>1, <3>4, WithSubTyped DEF TypeOK, Ids
    <3>7. Ids' = Ids
      BY <3>6 DEF Ids
    <3>8. Gains({s})
      BY <3>2, <3>3, <3>5, <3>7 DEF Ids
    <3>. HIDE DEF Gains
    <3>. QED  BY <3>1, <3>8
  <2>. QED  BY <1>2, <2>2, <2>3, <2>4
<1>. HIDE DEF n, f, T
<1>7. T = Top.typ /\ f = Top.reg /\ T = stack[n].typ /\ f = stack[n].reg
  BY <1>4 DEF T, f
<1>8. regs[f].typ = T /\ ~regs[f].filled /\ \A i \in 1 .. n : i # n => stack[i].reg # f
  <2>1. regs[f].typ = T /\ ~regs[f].filled
    BY <1>1, <1>4, <1>7 DEF Nested, n
  <2>2. ASSUME NEW i \in 1 .. n, i # n PROVE stack[i].reg # f
    <3>1. n \in i + 1 .. n
      BY <1>4, <2>2
    <3>. QED  BY <1>1, <1>7, <3>1 DEF Nested, n
  <2>. QED  BY <2>1, <2>2
<1>9. Declared'
  <2>1. \A r \in Ids : regs[r].subs \subseteq Ids
    BY <1>1 DEF TypeOK
  <2>2. ASSUME NEW r \in Ids, NEW s \in regs'[r].subs
        PROVE  /\ regs'[s].typ \in Used[regs'[r].typ]
               /\ regs'[r].typ \in Straight => regs'[s].filled
    <3>1. s \in Ids /\ (s \in regs[r].subs \/ (r = f /\ s \in X))
      BY <1>6, <2>1, <2>2
    <3>2. regs'[s].typ = regs[s].typ /\ regs'[s].filled = regs[s].filled /\ regs'[r].typ = regs[r].typ
      BY <1>6, <3>1
    <3>3. CASE s \in regs[r].subs
      BY <1>1, <3>2, <3>3 DEF Declared
    <3>4. CASE r = f /\ s \in X
      BY <1>6, <1>8, <3>2, <3>4
    <3>. QED  BY <3>1, <3>3, <3>4
  <2>3. \A t \in Types : building[t] # 0 => regs'[building[t]].typ = t
    BY <1>1, <1>6 DEF Declared, TypeOK
  <2>. QED  BY <1>2, <1>3, <1>6, <2>2, <2>3 DEF Declared
<1>10. Nested'
  <2>1. \A i \in 1 .. n : regs'[stack[i].reg].typ = stack[i].typ /\ ~regs'[stack[i].reg].filled
    <3>. SUFFICES ASSUME NEW i \in 1 .. n
                  PROVE  regs'[stack[i].reg].typ = stack[i].typ /\ ~regs'[stack[i].reg].filled
      OBVIOUS
    <3>1. stack[i].reg \in Ids
      BY <1>4
    <3>2. regs[stack[i].reg].typ = stack[i].typ /\ ~regs[stack[i].reg].filled
      BY <1>1 DEF Nested, n
    <3>. QED  BY <1>6, <3>1, <3>2
  <2>2. \A i \in 1 .. n : /\ stack'[i].next \in 1 .. Len(shape[stack[i].typ].fields) + 1
                          /\ i < n => /\ stack'[i].next \in DOMAIN shape[stack[i].typ].fields
                                      /\ shape[stack[i].typ].fields[stack'[i].next] = stack[i + 1].typ
    <3>. SUFFICES ASSUME NEW i \in 1 .. n
                  PROVE  /\ stack'[i].next \in 1 .. Len(shape[stack[i].typ].fields) + 1
                         /\ i < n => /\ stack'[i].next \in DOMAIN shape[stack[i].typ].fields
                                     /\ shape[stack[i].typ].fields[stack'[i].next] = stack[i + 1].typ
      OBVIOUS
    <3>1. CASE i = n
      BY <1>4, <1>5, <1>7, <3>1
    <3>2. CASE i # n
      <4>1. stack'[i].next = stack[i].next
        BY <1>4, <3>2
      <4>. QED  BY <1>1, <4>1 DEF Nested, n
    <3>. QED  BY <3>1, <3>2
  <2>3. \A i \in 1 .. n : i < n => stack'[i + 1].typ = stack[i + 1].typ
    BY <1>4
  <2>4. ASSUME NEW i \in 1 .. n, NEW j \in i + 1 .. n
        PROVE  stack'[j].reg # stack'[i].reg /\ stack'[j].typ \in Used[stack'[i].typ]
    <3>1. j \in 1 .. n
      BY <1>4
    <3>2. stack[j].reg # stack[i].reg /\ stack[j].typ \in Used[stack[i].typ]
      BY <1>1 DEF Nested, n
    <3>. QED  BY <1>4, <3>1, <3>2
  <2>5. \A i \in 1 .. n :
          /\ regs'[stack'[i].reg].typ = stack'[i].typ /\ ~regs'[stack'[i].reg].filled
          /\ stack'[i].next \in 1 .. Len(shape[stack'[i].typ].fields) + 1
          /\ i < n => /\ stack'[i].next \in DOMAIN shape[stack'[i].typ].fields
                      /\ shape[stack'[i].typ].fields[stack'[i].next] = stack'[i + 1].typ
    BY <1>4, <2>1, <2>2, <2>3
  <2>. QED  BY <1>2, <1>3, <1>4, <2>4, <2>5 DEF Nested
<1>11. Known'
  <2>1. \A r \in Ids : regs'[r].filled /\ regs'[r].typ \in Clean => (regs'[r].err <=> regs'[r].typ \in Unsound)
    BY <1>1, <1>6, <1>8 DEF Known
  <2>2. ASSUME NEW i \in 1 .. n, stack[i].typ \in Clean
        PROVE  regs'[stack[i].reg].err <=> BadBefore(stack[i].typ, stack'[i].next)
    <3>1. CASE i = n
      <4>1. regs[f].err <=> BadBefore(T, Top.next)
        BY <1>1, <1>4, <1>7, <2>2, <3>1 DEF Known, n
      <4>2. regs'[f].err <=> (regs[f].err \/ Field = Bad \/ Field \in Unsound)
        BY <1>6, <1>7, <2>2, <3>1
      <4>3. BadBefore(T, Top.next + 1) <=> (BadBefore(T, Top.next) \/ Field = Bad \/ Field \in Unsound)
        BY <1>5, BadBeforeNext
      <4>4. stack'[i].next = Top.next + 1
        BY <1>4, <3>1
      <4>. QED  BY <1>7, <3>1, <4>1, <4>2, <4>3, <4>4
    <3>2. CASE i # n
      <4>1. stack'[i].next = stack[i].next /\ stack[i].reg \in Ids /\ stack[i].reg # f
        BY <1>4, <1>8, <3>2
      <4>2. regs'[stack[i].reg].err <=> regs[stack[i].reg].err
        BY <1>6, <4>1
      <4>. QED  BY <1>1, <2>2, <4>1, <4>2 DEF Known, n
    <3>. QED  BY <3>1, <3>2
  <2>3. \A i \in 1 .. n : stack'[i].typ \in Clean =>
           (regs'[stack'[i].reg].err <=> BadBefore(stack'[i].typ, stack'[i].next))
    BY <1>4, <2>2
  <2>. QED  BY <1>2, <1>3, <1>4, <1>6, <2>1, <2>3 DEF Known, BadBefore
<1>. QED  BY <1>9, <1>10, <1>11 DEF Deep

\* All fields of the innermost call's type are done: its registry knows the error.
LEMMA TopKnown ==
    ASSUME TypeOK, Nested, Known, stack # <<>>, ~AtField, Top.typ \in Clean
    PROVE  regs[Top.reg].err <=> Top.typ \in Unsound
<1>1. Top.typ \in Types /\ Top.next \in Nat /\ Top = stack[Len(stack)] /\ Len(stack) \in 1 .. Len(stack)
  BY TopTyped, Frames DEF Top
<1>2. Top.next \in 1 .. Len(shape[Top.typ].fields) + 1
  BY <1>1 DEF Nested
<1>3. shape[Top.typ].fields \in Seq(Types \cup {Plain, Bad})
  BY <1>1, RegistryAssumption DEF TypeOK, Shape
<1>4. DOMAIN shape[Top.typ].fields = 1 .. Len(shape[Top.typ].fields) /\ Len(shape[Top.typ].fields) \in Nat
  BY <1>3, LenProperties
<1>5. 1 .. Top.next - 1 = DOMAIN shape[Top.typ].fields
  BY <1>1, <1>2, <1>4 DEF AtField
<1>6. regs[Top.reg].err <=> BadBefore(Top.typ, Top.next)
  BY <1>1 DEF Known
<1>. QED  BY <1>1, <1>5, <1>6, UnsoundOf DEF BadBefore

\* What Publish does to the registries and to the calls further out.
LEMMA PublishValues ==
    ASSUME TypeOK, stack # <<>>, NEW g \in Goroutines, Publish(g),
           NEW n, n = Len(stack) - 1
    PROVE  /\ n \in Nat /\ Len(stack') = n /\ Ids' = Ids
           /\ \A i \in 1 .. n :
                /\ stack'[i].reg = stack[i].reg /\ stack'[i].typ = stack[i].typ
                /\ stack'[i].next = IF i = n THEN stack[i].next + 1 ELSE stack[i].next
           /\ \A q \in Ids :
                /\ regs'[q].typ = regs[q].typ
                /\ regs'[q].filled <=> (regs[q].filled \/ q = Top.reg)
                /\ regs'[q].subs = IF n # 0 /\ q = stack[n].reg THEN regs[q].subs \cup {Top.reg}
                                   ELSE regs[q].subs
                /\ regs'[q].err <=> \/ regs[q].err
                                    \/ n # 0 /\ q = stack[n].reg
                                       /\ shape[stack[n].typ].kind = "struct" /\ regs[Top.reg].err
<1>. DEFINE outer  == SubSeq(stack, 1, Len(stack) - 1)
            filled == [regs EXCEPT ![Top.reg].filled = TRUE]
<1>1. /\ Len(stack) \in Nat \ {0} /\ outer \in Seq(Frame) /\ Len(outer) = n /\ n \in Nat
      /\ \A i \in 1 .. n : outer[i] = stack[i] /\ outer[i] \in Frame
  <2>1. stack \in Seq(Frame)
    BY DEF TypeOK, Frame
  <2>. QED  BY <2>1, FrameLists, ElementOfSeq
<1>2. /\ filled \in Seq(Registry) /\ Len(filled) = Len(regs) /\ Len(regs) \in Nat /\ Top.reg \in Ids
      /\ \A q \in Ids : /\ filled[q].subs = regs[q].subs /\ filled[q].typ = regs[q].typ
                        /\ filled[q].err = regs[q].err
                        /\ filled[q].filled <=> (regs[q].filled \/ q = Top.reg)
  <2>1. regs \in Seq(Registry) /\ Top.reg \in 1 .. Len(regs) /\ regs[Top.reg] \in Registry
    BY TopTyped DEF TypeOK, Ids
  <2>. DEFINE new == [regs[Top.reg] EXCEPT !.filled = TRUE]
  <2>2. /\ new \in Registry /\ new.filled = TRUE /\ new.subs = regs[Top.reg].subs
        /\ new.typ = regs[Top.reg].typ /\ new.err = regs[Top.reg].err
    BY <2>1 DEF Registry
  <2>3. filled = [regs EXCEPT ![Top.reg] = new]
    OBVIOUS
  <2>4. Len(regs) \in Nat
    BY <2>1, LenProperties
  <2>. HIDE DEF new, filled
  <2>5. /\ filled \in Seq(Registry) /\ Len(filled) = Len(regs)
        /\ \A q \in 1 .. Len(regs) : filled[q] = IF q = Top.reg THEN new ELSE regs[q]
    BY <2>1, <2>2, <2>3, ExceptSeq
  <2>. QED  BY <2>1, <2>2, <2>4, <2>5 DEF Ids
<1>3. CASE n = 0
  <2>1. regs' = filled /\ stack' = outer
    BY <1>1, <1>3 DEF Publish
  <2>. HIDE DEF filled, outer
  <2>2. Ids' = Ids
    BY <1>2, <2>1 DEF Ids
  <2>. QED  BY <1>1, <1>2, <1>3, <2>1, <2>2
<1>4. CASE n # 0
  <2>1. regs' = WithSub(filled, outer[n], Top.reg) /\ stack' = [outer EXCEPT ![n].next = @ + 1]
    BY <1>1, <1>4 DEF Publish
  <2>. HIDE DEF filled, outer
  <2>2. n \in 1 .. Len(outer) /\ outer[n] \in Frame /\ outer[n] = stack[n]
    BY <1>1, <1>4
  <2>3. /\ outer[n].reg \in 1 .. Len(filled) /\ Top.reg \in 1 .. Len(filled)
        /\ \A q \in 1 .. Len(filled) : filled[q].subs \subseteq 1 .. Len(filled)
    BY <1>2, <2>2 DEF Frame, Ids, TypeOK
  <2>4. Len(regs') = Len(filled)
    BY <1>2, <2>1, <2>3, WithSubTyped
  <2>5. \A q \in 1 .. Len(filled) :
          /\ WithSub(filled, outer[n], Top.reg)[q].typ = filled[q].typ
          /\ WithSub(filled, outer[n], Top.reg)[q].filled = filled[q].filled
          /\ WithSub(filled, outer[n], Top.reg)[q].subs =
               IF q = outer[n].reg THEN filled[q].subs \cup {Top.reg} ELSE filled[q].subs
          /\ WithSub(filled, outer[n], Top.reg)[q].err <=>
               (filled[q].err \/ (q = outer[n].reg /\ shape[outer[n].typ].kind = "struct" /\ filled[Top.reg].err))
    BY <1>2, <2>3, WithSubValues, ZenonT(30)
  <2>6. \A q \in Ids :
          /\ regs'[q].typ = filled[q].typ
          /\ regs'[q].filled = filled[q].filled
          /\ regs'[q].subs = IF q = stack[n].reg THEN filled[q].subs \cup {Top.reg} ELSE filled[q].subs
          /\ regs'[q].err <=>
               (filled[q].err \/ (q = stack[n].reg /\ shape[stack[n].typ].kind = "struct" /\ filled[Top.reg].err))
    <3>1. \A q \in Ids : q \in 1 .. Len(filled)
      BY <1>2 DEF Ids
    <3>2. outer[n].reg = stack[n].reg /\ outer[n].typ = stack[n].typ
      BY <2>2
    <3>3. ASSUME NEW q \in Ids
          PROVE  /\ regs'[q].typ = filled[q].typ /\ regs'[q].filled = filled[q].filled
                 /\ regs'[q].subs = IF q = stack[n].reg THEN filled[q].subs \cup {Top.reg} ELSE filled[q].subs
      BY <2>1, <2>5, <3>1, <3>2, ZenonT(30)
    <3>4. ASSUME NEW q \in Ids
          PROVE  regs'[q].err <=>
                   (filled[q].err \/ (q = stack[n].reg /\ shape[stack[n].typ].kind = "struct" /\ filled[Top.reg].err))
      <4>1. q \in 1 .. Len(filled)
        BY <3>1
      <4>2. WithSub(filled, outer[n], Top.reg)[q].err <=>
               (filled[q].err \/ (q = outer[n].reg /\ shape[outer[n].typ].kind = "struct" /\ filled[Top.reg].err))
        BY <2>5, <4>1
      <4>. QED  BY <2>1, <2>2, <4>2
    <3>. QED  BY <3>3, <3>4
  <2>7. Ids' = Ids
    BY <1>2, <2>4 DEF Ids
  <2>8. /\ Len(stack') = n
        /\ \A i \in 1 .. n :
                /\ stack'[i].reg = stack[i].reg /\ stack'[i].typ = stack[i].typ
                /\ stack'[i].next = IF i = n THEN stack[i].next + 1 ELSE stack[i].next
    <3>. DEFINE new == [outer[n] EXCEPT !.next = @ + 1]
    <3>1. /\ new \in Frame /\ new.reg = outer[n].reg /\ new.typ = outer[n].typ
          /\ new.next = outer[n].next + 1
      BY <2>2 DEF Frame
    <3>2. stack' = [outer EXCEPT ![n] = new]
      BY <2>1
    <3>. HIDE DEF new
    <3>3. Len(stack') = n /\ \A i \in 1 .. n : stack'[i] = IF i = n THEN new ELSE outer[i]
      BY <1>1, <2>2, <3>1, <3>2, ExceptSeq
    <3>. QED  BY <1>1, <2>2, <3>1, <3>3
  <2>. QED  BY <1>1, <1>2, <1>4, <2>6, <2>7, <2>8, ZenonT(30)
<1>. QED  BY <1>1, <1>3, <1>4

\* The innermost build ends.
LEMMA DeepEnds ==
    ASSUME Deep, IInv', NEW g \in Goroutines, Publish(g)
    PROVE  Deep'
<1>. DEFINE n == Len(stack) - 1
            p == Top.reg
            P == Top.typ
<1>1. TypeOK /\ Locked /\ Declared /\ Nested /\ Known
  BY DEF Deep, IInv
<1>2. /\ stack # <<>> /\ ~AtField /\ shape' = shape
      /\ building' = [building EXCEPT ![P] = 0]
  BY <1>1 DEF Locked, Publish
<1>3. Used' = Used /\ Straight' = Straight /\ Clean' = Clean /\ Unsound' = Unsound
  BY <1>2, SameTypes
<1>4. /\ p \in Ids /\ P \in Types /\ Top = stack[n + 1] /\ Len(stack) = n + 1
      /\ \A i \in 1 .. n + 1 : stack[i].reg \in Ids /\ stack[i].next \in Nat /\ stack[i].typ \in Types
  BY <1>1, <1>2, TopTyped, Frames DEF Top
<1>5. P \in Clean => (regs[p].err <=> P \in Unsound)
  BY <1>1, <1>2, TopKnown
<1>6. n = Len(stack) - 1 /\ p = Top.reg /\ P = Top.typ
  OBVIOUS
<1>. HIDE DEF n, p, P
<1>7. /\ n \in Nat /\ Len(stack') = n /\ Ids' = Ids
      /\ \A i \in 1 .. n :
           /\ stack'[i].reg = stack[i].reg /\ stack'[i].typ = stack[i].typ
           /\ stack'[i].next = IF i = n THEN stack[i].next + 1 ELSE stack[i].next
  BY <1>1, <1>2, <1>6, PublishValues
<1>8. \A q \in Ids :
         /\ regs'[q].typ = regs[q].typ
         /\ regs'[q].filled <=> (regs[q].filled \/ q = p)
         /\ regs'[q].subs = IF n # 0 /\ q = stack[n].reg THEN regs[q].subs \cup {p} ELSE regs[q].subs
         /\ regs'[q].err <=> \/ regs[q].err
                             \/ n # 0 /\ q = stack[n].reg
                                /\ shape[stack[n].typ].kind = "struct" /\ regs[p].err
  BY <1>1, <1>2, <1>6, PublishValues
<1>9. /\ regs[p].typ = P
      /\ \A i \in 1 .. n : /\ stack[i].reg # p /\ P \in Used[stack[i].typ] /\ i \in 1 .. n + 1
                           /\ i # n => stack[i].reg # stack[n].reg
  <2>1. n + 1 \in 1 .. Len(stack)
    BY <1>4, <1>7
  <2>2. regs[p].typ = P
    BY <1>1, <1>4, <1>6, <2>1 DEF Nested
  <2>3. ASSUME NEW i \in 1 .. n
        PROVE  /\ stack[i].reg # p /\ P \in Used[stack[i].typ] /\ i \in 1 .. n + 1
               /\ i # n => stack[i].reg # stack[n].reg
    <3>1. i \in 1 .. Len(stack) /\ n + 1 \in i + 1 .. Len(stack) /\ (i # n => n \in i + 1 .. Len(stack))
      BY <1>4, <1>7
    <3>. QED  BY <1>1, <1>4, <1>6, <3>1 DEF Nested
  <2>. QED  BY <2>2, <2>3
<1>10. Declared'
  <2>1. \A r \in Ids : regs[r].subs \subseteq Ids
    BY <1>1 DEF TypeOK
  <2>2. ASSUME NEW r \in Ids, NEW s \in regs'[r].subs
        PROVE  /\ regs'[s].typ \in Used[regs'[r].typ]
               /\ regs'[r].typ \in Straight => regs'[s].filled
    <3>1. s \in Ids /\ (s \in regs[r].subs \/ (n # 0 /\ r = stack[n].reg /\ s = p))
      <4>1. regs'[r].subs = IF n # 0 /\ r = stack[n].reg THEN regs[r].subs \cup {p} ELSE regs[r].subs
        BY <1>8
      <4>2. regs[r].subs \subseteq Ids
        BY <2>1
      <4>. QED  BY <1>4, <2>2, <4>1, <4>2
    <3>2. /\ regs'[s].typ = regs[s].typ /\ regs'[r].typ = regs[r].typ
          /\ regs[s].filled \/ s = p => regs'[s].filled
      BY <1>8, <3>1
    <3>3. CASE s \in regs[r].subs
      BY <1>1, <3>2, <3>3 DEF Declared
    <3>4. CASE n # 0 /\ r = stack[n].reg /\ s = p
      <4>1. n \in 1 .. n /\ n \in 1 .. Len(stack)
        BY <1>4, <1>7, <3>4
      <4>2. regs[r].typ = stack[n].typ
        BY <1>1, <3>4, <4>1 DEF Nested
      <4>. QED  BY <1>9, <3>2, <3>4, <4>1, <4>2
    <3>. QED  BY <3>1, <3>3, <3>4
  <2>3. \A t \in Types : building'[t] # 0 => building'[t] = building[t] /\ building[t] \in Ids
    BY <1>1, <1>2, <1>4 DEF TypeOK
  <2>4. ASSUME NEW t \in Types, building'[t] # 0 PROVE regs'[building'[t]].typ = t
    <3>1. building'[t] = building[t] /\ building[t] \in Ids /\ building[t] # 0
      BY <2>3, <2>4
    <3>2. regs[building[t]].typ = t
      BY <1>1, <3>1 DEF Declared
    <3>3. regs'[building[t]].typ = regs[building[t]].typ
      BY <1>8, <3>1
    <3>. QED  BY <3>1, <3>2, <3>3
  <2>. QED  BY <1>3, <1>7, <2>2, <2>4 DEF Declared
<1>11. Nested'
  <2>1. ASSUME NEW i \in 1 .. n
        PROVE  /\ regs'[stack'[i].reg].typ = stack'[i].typ /\ ~regs'[stack'[i].reg].filled
               /\ stack'[i].next \in 1 .. Len(shape[stack'[i].typ].fields) + 1
               /\ i < n => /\ stack'[i].next \in DOMAIN shape[stack'[i].typ].fields
                           /\ shape[stack'[i].typ].fields[stack'[i].next] = stack'[i + 1].typ
    <3>1. /\ stack'[i].reg = stack[i].reg /\ stack'[i].typ = stack[i].typ
          /\ stack[i].reg \in Ids /\ stack[i].reg # p /\ i \in 1 .. Len(stack) /\ i < Len(stack)
          /\ stack[i].typ \in Types /\ stack[i].next \in Nat
      BY <1>4, <1>7, <1>9
    <3>2. regs'[stack'[i].reg].typ = stack'[i].typ /\ ~regs'[stack'[i].reg].filled
      <4>1. regs[stack[i].reg].typ = stack[i].typ /\ ~regs[stack[i].reg].filled
        BY <1>1, <3>1 DEF Nested
      <4>2. /\ regs'[stack[i].reg].typ = regs[stack[i].reg].typ
            /\ regs'[stack[i].reg].filled <=> regs[stack[i].reg].filled
        BY <1>8, <3>1
      <4>. QED  BY <3>1, <4>1, <4>2
    <3>3. stack[i].next \in DOMAIN shape[stack[i].typ].fields /\ shape[stack[i].typ].fields[stack[i].next] = stack[i + 1].typ
      BY <1>1, <3>1 DEF Nested
    <3>4. DOMAIN shape[stack[i].typ].fields = 1 .. Len(shape[stack[i].typ].fields) /\ Len(shape[stack[i].typ].fields) \in Nat
      <4>1. shape[stack[i].typ].fields \in Seq(Types \cup {Plain, Bad})
        BY <1>1, <3>1, RegistryAssumption DEF TypeOK, Shape
      <4>. QED  BY <4>1, LenProperties
    <3>5. stack'[i].next \in 1 .. Len(shape[stack'[i].typ].fields) + 1
      <4>1. stack'[i].next \in {stack[i].next, stack[i].next + 1}
        BY <1>7
      <4>2. stack[i].next \in 1 .. Len(shape[stack[i].typ].fields)
        BY <3>3, <3>4
      <4>3. stack'[i].next \in 1 .. Len(shape[stack[i].typ].fields) + 1
        <5>1. PICK L \in Nat : L = Len(shape[stack[i].typ].fields)
          BY <3>4
        <5>2. stack[i].next \in 1 .. L
          BY <4>2, <5>1
        <5>3. stack[i].next \in 1 .. L + 1 /\ stack[i].next + 1 \in 1 .. L + 1
          BY <5>2
        <5>. QED  BY <4>1, <5>1, <5>3
      <4>. QED  BY <3>1, <4>3
    <3>6. i < n => stack'[i].next = stack[i].next /\ stack'[i + 1].typ = stack[i + 1].typ
      BY <1>7
    <3>. QED  BY <3>1, <3>2, <3>3, <3>5, <3>6
  <2>2. ASSUME NEW i \in 1 .. n, NEW j \in i + 1 .. n
        PROVE  stack'[j].reg # stack'[i].reg /\ stack'[j].typ \in Used[stack'[i].typ]
    <3>1. j \in 1 .. n /\ i \in 1 .. Len(stack) /\ j \in i + 1 .. Len(stack)
      BY <1>4, <1>7
    <3>2. stack[j].reg # stack[i].reg /\ stack[j].typ \in Used[stack[i].typ]
      BY <1>1, <3>1 DEF Nested
    <3>. QED  BY <1>7, <3>1, <3>2
  <2>. QED  BY <1>2, <1>3, <1>7, <2>1, <2>2 DEF Nested
<1>12. Known'
  <2>1. ASSUME NEW r \in Ids, regs'[r].filled, regs'[r].typ \in Clean
        PROVE  regs'[r].err <=> regs'[r].typ \in Unsound
    <3>1. regs'[r].typ = regs[r].typ /\ (regs[r].filled \/ r = p)
      BY <1>8, <2>1
    <3>2. n # 0 => r # stack[n].reg
      <4>. SUFFICES ASSUME n # 0 PROVE r # stack[n].reg
        OBVIOUS
      <4>1. n \in 1 .. n /\ n \in 1 .. Len(stack)
        BY <1>4, <1>7
      <4>2. ~regs[stack[n].reg].filled /\ stack[n].reg # p
        BY <1>1, <1>9, <4>1 DEF Nested
      <4>. QED  BY <3>1, <4>2
    <3>3. regs'[r].err <=> regs[r].err
      BY <1>8, <3>2
    <3>4. CASE r = p
      BY <1>5, <1>9, <2>1, <3>1, <3>3, <3>4
    <3>5. CASE r # p
      BY <1>1, <2>1, <3>1, <3>3, <3>5 DEF Known
    <3>. QED  BY <3>4, <3>5
  <2>2. ASSUME NEW i \in 1 .. n, stack[i].typ \in Clean
        PROVE  regs'[stack[i].reg].err <=> BadBefore(stack[i].typ, stack'[i].next)
    <3>1. i \in 1 .. Len(stack) /\ stack[i].reg \in Ids /\ stack[i].typ \in Types /\ stack[i].next \in Nat /\ i < Len(stack)
      BY <1>4, <1>7
    <3>2. regs[stack[i].reg].err <=> BadBefore(stack[i].typ, stack[i].next)
      BY <1>1, <2>2, <3>1 DEF Known
    <3>3. CASE i = n
      <4>1. shape[stack[i].typ].fields[stack[i].next] = P /\ stack[i].next \in 1 .. Len(shape[stack[i].typ].fields) + 1
        BY <1>1, <1>4, <1>6, <3>1, <3>3 DEF Nested
      <4>2. stack[i].next \in Nat \ {0}
        BY <3>1, <4>1
      <4>3. P # Bad
        BY <1>4, RegistryAssumption DEF Bad
      <4>4. BadBefore(stack[i].typ, stack[i].next + 1) <=> (BadBefore(stack[i].typ, stack[i].next) \/ P \in Unsound)
        BY <4>1, <4>2, <4>3, BadBeforeNext
      <4>5. P \in Clean /\ shape[stack[i].typ].kind = "struct"
        <5>1. P \in Used[stack[i].typ]
          BY <1>9
        <5>2. P \in Clean
          BY <2>2, <3>1, <5>1, TypesBelow
        <5>. QED  BY <2>2, <5>2 DEF Clean
      <4>6. regs'[stack[i].reg].err <=> (regs[stack[i].reg].err \/ regs[p].err)
        <5>1. n # 0
          BY <1>7, <3>3
        <5>. QED  BY <1>8, <3>1, <3>3, <4>5, <5>1
      <4>7. stack'[i].next = stack[i].next + 1
        BY <1>7, <3>3
      <4>. QED  BY <1>5, <3>2, <4>4, <4>5, <4>6, <4>7
    <3>4. CASE i # n
      <4>1. stack'[i].next = stack[i].next /\ stack[i].reg # stack[n].reg
        BY <1>7, <1>9, <3>4
      <4>2. regs'[stack[i].reg].err <=> regs[stack[i].reg].err
        BY <1>8, <3>1, <4>1
      <4>. QED  BY <3>2, <4>1, <4>2
    <3>. QED  BY <3>3, <3>4
  <2>3. \A i \in 1 .. n : stack'[i].typ \in Clean =>
           (regs'[stack'[i].reg].err <=> BadBefore(stack'[i].typ, stack'[i].next))
    BY <1>7, <2>2
  <2>. QED  BY <1>2, <1>3, <1>7, <2>1, <2>3 DEF Known, BadBefore
<1>. QED  BY <1>10, <1>11, <1>12 DEF Deep

-----------------------------------------------------------------------------
(* The theorems about what was returned.                                   *)
\* The stronger invariant holds of every behaviour.
THEOREM DeepInvariant == Spec => []Deep
<1>1. Init /\ IInv => Deep
  <2>. SUFFICES ASSUME Init, IInv PROVE Deep
    OBVIOUS
  <2>1. Ids = {} /\ 1 .. Len(stack) = {} /\ \A t \in Types : building[t] = 0
    BY EmptySeq DEF Init, Ids
  <2>. QED  BY <2>1 DEF Deep, Declared, Nested, Known
<1>2. Deep /\ IInv' /\ [Next]_vars => Deep'
  <2>. SUFFICES ASSUME Deep, IInv', [Next]_vars PROVE Deep'
    OBVIOUS
  <2>1. CASE UNCHANGED <<shape, building, regs, stack>>
    BY <2>1, DeepSame
  <2>2. CASE Next
    <3>1. PICK g \in Goroutines : Build(g) \/ \E t \in Types : Call(g, t)
      BY <2>2 DEF Next
    <3>2. CASE \/ \E t \in Types : Call(g, t)
               \/ LoadHit(g) \/ LoadMiss(g) \/ Lock(g) \/ CheckHit(g)
      BY <2>1, <3>2 DEF Call, LoadHit, LoadMiss, Lock, CheckHit
    <3>. QED  BY <3>1, <3>2, DeepBegin, DeepPass, DeepEnds DEF Build
  <2>. QED  BY <2>1, <2>2 DEF vars, goVars
<1>. QED  BY <1>1, <1>2, Invariant, PTL DEF Spec

\* Straight and Clean, in the words of the properties.
LEMMA StraightIs ==
    ASSUME NEW t \in Types
    PROVE  /\ Recursive(t) <=> t \notin Straight
           /\ t \in Clean <=> ~Recursive(t) /\ \A u \in {t} \cup Uses(t) : shape[u].kind = "struct"
           /\ t \in Unsound <=> \E u \in {t} \cup Uses(t) :
                                  \E i \in DOMAIN shape[u].fields : shape[u].fields[i] = Bad
<1>1. Uses(t) \subseteq Types
  BY UsesClosed
<1>2. \A u \in Types : Used[u] = Uses(u)
  BY DEF Used
<1>. QED  BY <1>1, <1>2 DEF Recursive, Straight, Clean, Unsound

\* From a registry that is filled, of a type that is not recursive, only filled
\* registries are reached.
LEMMA ReachesFilled ==
    ASSUME Deep, NEW r \in Ids, regs[r].filled, regs[r].typ \in Straight
    PROVE  Reaches(r) \subseteq {q \in Ids : regs[q].filled}
<1>. DEFINE T == regs[r].typ
            M == {q \in Ids : regs[q].filled /\ regs[q].typ \in {T} \cup Used[T]}
            step == [q \in Ids |-> regs[q].subs]
<1>1. Declared /\ (\A q \in Ids : regs[q].subs \subseteq Ids) /\ T \in Types
  BY DEF Deep, IInv, TypeOK, Straight
<1>2. {r} \subseteq M
  OBVIOUS
<1>3. ASSUME NEW q \in M, NEW s \in regs[q].subs PROVE s \in M
  <2>1. q \in Ids /\ s \in Ids /\ regs[q].typ \in {T} \cup Used[T] /\ regs[q].typ \in Types
    BY <1>1, <1>3, UsedOf
  <2>2. regs[q].typ \in Straight
    BY <1>1, <2>1, TypesBelow
  <2>3. regs[s].filled /\ regs[s].typ \in Used[regs[q].typ]
    BY <1>1, <2>1, <2>2 DEF Declared
  <2>4. regs[s].typ \in Used[T]
    BY <1>1, <2>1, <2>3, UsedOf
  <2>. QED  BY <2>1, <2>3, <2>4
<1>4. \A q \in M : step[q] \subseteq M
  BY <1>3
<1>5. Reaches(r) = Closure({r}, Cardinality(Types), step) /\ Cardinality(Types) \in Nat
  BY RegistryAssumption, FS_CardinalityType DEF Reaches
<1>6. M \subseteq {q \in Ids : regs[q].filled}
  OBVIOUS
<1>. HIDE DEF M, step
<1>7. Reaches(r) \subseteq M
  BY <1>2, <1>4, <1>5, ClosureLeast
<1>. QED  BY <1>6, <1>7

\* What was returned is there, and filled.
LEMMA ReturnedTyped ==
    ASSUME IInv, NEW r \in Returned
    PROVE  r \in Ids /\ regs[r].filled /\ regs[r].typ \in Types
<1>1. r \in Ids /\ regs[r].filled
  BY DEF IInv, TypeOK, Filled, Returned
<1>2. regs[r] \in Registry
  <2>1. regs \in Seq(Registry) /\ r \in 1 .. Len(regs)
    BY <1>1 DEF IInv, TypeOK, Ids
  <2>. QED  BY <2>1, ElementOfSeq
<1>. QED  BY <1>1, <1>2 DEF Registry

\* A returned registry and every registry it can come to are filled, unless types are
\* recursive: for any declarations, calls and interleaving (registry.go:20, 81, 94-96).
THEOREM BuiltWhenReturnedHolds == Spec => []BuiltWhenReturned
<1>1. Deep => BuiltWhenReturned
  <2>. SUFFICES ASSUME Deep, NEW r \in Returned, ~Recursive(regs[r].typ)
                PROVE  \A q \in Reaches(r) : regs[q].filled
    BY ReturnedTyped DEF Deep, BuiltWhenReturned
  <2>1. r \in Ids /\ regs[r].filled /\ regs[r].typ \in Types
    BY ReturnedTyped DEF Deep
  <2>2. regs[r].typ \in Straight
    BY <2>1, StraightIs
  <2>. QED  BY <2>1, <2>2, ReachesFilled
<1>. QED  BY <1>1, DeepInvariant, PTL

\* A returned registry answers Err exactly when an unsupported field lies in its type
\* or a type it uses, for struct types that are not recursive, however often and by
\* whom the nested ones were built (registry.go:67-72, 384-393).
THEOREM ErrorsPropagateHolds == Spec => []ErrorsPropagate
<1>1. Deep => ErrorsPropagate
  <2>. SUFFICES ASSUME Deep, NEW r \in Returned, ~Recursive(regs[r].typ),
                       \A u \in {regs[r].typ} \cup Uses(regs[r].typ) : shape[u].kind = "struct"
                PROVE  regs[r].err <=> \E u \in {regs[r].typ} \cup Uses(regs[r].typ) :
                                         \E i \in DOMAIN shape[u].fields : shape[u].fields[i] = Bad
    BY DEF ErrorsPropagate
  <2>1. r \in Ids /\ regs[r].filled /\ regs[r].typ \in Types
    BY ReturnedTyped DEF Deep
  <2>2. regs[r].typ \in Clean
    BY <2>1, StraightIs
  <2>3. regs[r].err <=> regs[r].typ \in Unsound
    BY <2>1, <2>2 DEF Deep, Known
  <2>. QED  BY <2>1, <2>3, StraightIs
<1>. QED  BY <1>1, DeepInvariant, PTL

\* No step changes a registry that is filled.
LEMMA FilledIsConstant ==
    ASSUME Deep, Next, NEW q \in Ids, regs[q].filled
    PROVE  regs'[q] = regs[q]
<1>1. TypeOK /\ Locked /\ Nested
  BY DEF Deep, IInv
<1>2. regs \in Seq(Registry) /\ DOMAIN regs = Ids
  BY <1>1, LenProperties DEF TypeOK, Ids
<1>3. ASSUME stack # <<>> PROVE q # Top.reg /\ \A i \in 1 .. Len(stack) : q # stack[i].reg
  BY <1>1, <1>3, Frames DEF Nested, Top
<1>4. \A r, frame, s : q \in DOMAIN r /\ q # frame.reg => WithSub(r, frame, s)[q] = r[q]
  BY DEF WithSub
<1>5. PICK g \in Goroutines : Build(g) \/ \E t \in Types : Call(g, t)
  BY DEF Next
<1>6. CASE \/ \E t \in Types : Call(g, t)
           \/ LoadHit(g) \/ LoadMiss(g) \/ Lock(g) \/ CheckHit(g) \/ PlainField(g)
  BY <1>6 DEF Call, LoadHit, LoadMiss, Lock, CheckHit, PlainField
<1>7. CASE CheckMiss(g) \/ NestedField(g)
  <2>1. PICK t \in Types : Open(t)
    BY <1>1, <1>7 DEF CheckMiss, NestedField, TypeOK
  <2>. QED  BY <1>1, <2>1, OpenTyped
<1>8. CASE BadField(g) \/ AnchoredField(g)
  <2>1. stack # <<>>
    BY <1>1, <1>8 DEF Locked, BadField, AnchoredField
  <2>2. CASE BadField(g)
    BY <1>2, <1>3, <2>1, <2>2 DEF BadField
  <2>3. CASE AnchoredField(g)
    <3>1. regs' = WithSub(regs, Top, Anchor(Field))
      BY <2>3 DEF AnchoredField
    <3>. QED  BY <1>2, <1>3, <1>4, <2>1, <3>1
  <2>. QED  BY <1>8, <2>2, <2>3
<1>9. CASE Publish(g)
  <2>. DEFINE outer  == SubSeq(stack, 1, Len(stack) - 1)
              filled == [regs EXCEPT ![Top.reg].filled = TRUE]
  <2>1. stack # <<>>
    BY <1>1, <1>9 DEF Locked, Publish
  <2>2. /\ Len(stack) \in Nat \ {0} /\ Len(outer) = Len(stack) - 1
        /\ \A i \in 1 .. Len(stack) - 1 : outer[i] = stack[i]
    <3>1. stack \in Seq(Frame)
      BY <1>1 DEF TypeOK, Frame
    <3>. QED  BY <2>1, <3>1, FrameLists
  <2>3. q \in DOMAIN filled /\ filled[q] = regs[q]
    BY <1>2, <1>3, <2>1
  <2>4. CASE Len(outer) = 0
    BY <1>9, <2>3, <2>4 DEF Publish
  <2>5. CASE Len(outer) # 0
    <3>1. regs' = WithSub(filled, outer[Len(outer)], Top.reg)
      BY <1>9, <2>5 DEF Publish
    <3>2. outer[Len(outer)] = stack[Len(stack) - 1] /\ Len(stack) - 1 \in 1 .. Len(stack)
      <4>. HIDE DEF outer
      <4>. QED  BY <2>2, <2>5
    <3>. HIDE DEF outer, filled
    <3>. QED  BY <1>3, <1>4, <2>1, <2>3, <3>1, <3>2
  <2>. QED  BY <2>4, <2>5
<1>. QED  BY <1>5, <1>6, <1>7, <1>8, <1>9 DEF Build

\* A returned registry of a type that is not recursive never changes again, nor does
\* any it refers to: readers need no lock (registry.go:80-82).
THEOREM ReturnedIsConstantHolds == Spec => ReturnedIsConstant
<1>1. Deep /\ [Next]_vars =>
        [\A r \in Returned : ~Recursive(regs[r].typ) => \A q \in Reaches(r) : regs'[q] = regs[q]]_vars
  <2>. SUFFICES ASSUME Deep, Next, NEW r \in Returned, ~Recursive(regs[r].typ), NEW q \in Reaches(r)
                PROVE  regs'[q] = regs[q]
    OBVIOUS
  <2>1. r \in Ids /\ regs[r].filled /\ regs[r].typ \in Types
    BY ReturnedTyped DEF Deep
  <2>2. regs[r].typ \in Straight
    BY <2>1, StraightIs
  <2>3. q \in Ids /\ regs[q].filled
    BY <2>1, <2>2, ReachesFilled
  <2>. QED  BY <2>3, FilledIsConstant
<1>. QED  BY <1>1, DeepInvariant, PTL DEF Spec, ReturnedIsConstant
=============================================================================
