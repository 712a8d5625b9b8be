--------------------------- MODULE RegistryCache ---------------------------
(***************************************************************************)
(* BuildRegistry (src/registry.go:20-485): goroutines look a type up in a  *)
(* cache without a lock, or build its registry under one, and with it the  *)
(* registries of all struct types it refers to.  A map of registries under *)
(* construction ties the knot of recursive types.                          *)
(*                                                                         *)
(* A type is a struct, whose fields are plain, of an unsupported type, or  *)
(* refer to a type (a struct, a pointer or a slice of either: the code     *)
(* treats them alike), or a slice of a struct type.  What a registry holds *)
(* besides its fields, and the tags that hide fields, are left out.        *)
(***************************************************************************)
EXTENDS Integers, Sequences, FiniteSets

CONSTANTS
    Goroutines,
    Types,
    Shapes,       \* the declarations to consider: type -> [kind, fields]
    MaxCalls,     \* calls of BuildRegistry
    MaxRegistries \* registries ever built

Plain == "plain"
Bad   == "bad"

Nobody == "nobody"

Shape == [Types -> [kind : {"struct", "slice"}, fields : Seq(Types \cup {Plain, Bad})]]

ASSUME RegistryAssumption ==
    /\ IsFiniteSet(Types) /\ Types # {} /\ Types \cap {Plain, Bad} = {} /\ Nobody \notin Goroutines
    /\ Shapes \subseteq Shape
    /\ MaxCalls \in Nat /\ MaxRegistries \in Nat

VARIABLES
    shape,        \* the declarations
    cache,        \* globalRegistryCache: type -> registry, 0 if there is none
    mu,           \* the goroutine that holds globalRegistryMu, or Nobody
    building,     \* buildingRegistry: type -> registry, 0 if there is none
    regs,         \* the registries, numbered in the order they were made
    pc, typ,      \* goroutine -> where it is, the type it wants
    stack,        \* the open calls of buildRegistryLocked, innermost last
    result,       \* goroutine -> the registries returned to it
    calls         \* calls made so far

goVars == <<pc, typ, stack, result, calls>>
vars == <<shape, cache, mu, building, regs, goVars>>

Ids == 1 .. Len(regs)

Top == stack[Len(stack)]

\* The field the innermost call is at.
Field == shape[Top.typ].fields[Top.next]

AtField == Top.next <= Len(shape[Top.typ].fields)

Init ==
    /\ shape \in Shapes
    /\ cache = [t \in Types |-> 0] /\ building = [t \in Types |-> 0]
    /\ mu = Nobody /\ regs = <<>>
    /\ pc = [g \in Goroutines |-> "idle"]
    /\ typ = [g \in Goroutines |-> CHOOSE t \in Types : TRUE]
    /\ stack = <<>> /\ result = [g \in Goroutines |-> {}] /\ calls = 0

-----------------------------------------------------------------------------
(* BuildRegistry.                                                          *)

Call(g, t) ==
    /\ pc[g] = "idle" /\ calls < MaxCalls
    /\ pc' = [pc EXCEPT ![g] = "load"] /\ typ' = [typ EXCEPT ![g] = t]
    /\ calls' = calls + 1
    /\ UNCHANGED <<shape, cache, mu, building, regs, stack, result>>

Answer(g, r) ==
    /\ result' = [result EXCEPT ![g] = @ \cup {r}]
    /\ pc' = [pc EXCEPT ![g] = "idle"]

\* Mutant of Found: a registry under construction is found too.
FoundAnchored(g) == IF cache[typ[g]] # 0 THEN cache[typ[g]] ELSE building[typ[g]]

Found(g) == cache[typ[g]]

Hit(g) == Found(g) # 0

\* The cache is read without the lock.
LoadHit(g) ==
    /\ pc[g] = "load" /\ Hit(g)
    /\ Answer(g, Found(g))
    /\ UNCHANGED <<shape, cache, mu, building, regs, typ, stack, calls>>

LoadMiss(g) ==
    /\ pc[g] = "load" /\ ~Hit(g)
    /\ pc' = [pc EXCEPT ![g] = "lock"]
    /\ UNCHANGED <<shape, cache, mu, building, regs, typ, stack, result, calls>>

\* Mutant of Free: the lock is not taken into account.
AlwaysFree == TRUE

Free == mu = Nobody

Lock(g) ==
    /\ pc[g] = "lock" /\ Free
    /\ mu' = g /\ pc' = [pc EXCEPT ![g] = "check"]
    /\ UNCHANGED <<shape, cache, building, regs, typ, stack, result, calls>>

\* Another goroutine built it in the meantime.
CheckHit(g) ==
    /\ pc[g] = "check" /\ Hit(g)
    /\ Answer(g, Found(g))
    /\ mu' = Nobody
    /\ UNCHANGED <<shape, cache, building, regs, typ, stack, calls>>

-----------------------------------------------------------------------------
(* buildRegistryLocked.                                                    *)

NewRegistry(t) == [typ |-> t, subs |-> {}, err |-> FALSE, filled |-> FALSE]

\* A registry is made and anchored; its fields are looked at from the first on.
Open(t) ==
    /\ Len(regs) < MaxRegistries
    /\ regs' = Append(regs, NewRegistry(t))
    /\ building' = [building EXCEPT ![t] = Len(regs) + 1]
    /\ stack' = Append(stack, [reg |-> Len(regs) + 1, typ |-> t, next |-> 1])

\* Nothing is anchored when the lock was free.
CheckMiss(g) ==
    /\ pc[g] = "check" /\ ~Hit(g) /\ building[typ[g]] = 0
    /\ Open(typ[g])
    /\ pc' = [pc EXCEPT ![g] = "fill"]
    /\ UNCHANGED <<shape, cache, mu, typ, result, calls>>

Skip == [stack EXCEPT ![Len(stack)].next = @ + 1]

\* Mutant of WithSub: the error of the other type is not taken over.
WithSubOnly(r, frame, s) == [r EXCEPT ![frame.reg].subs = @ \cup {s}]

\* A field that refers to another type takes over its error, as far as it is
\* known; a slice type does not.
WithSub(r, frame, s) ==
    [r EXCEPT ![frame.reg].subs = @ \cup {s},
              ![frame.reg].err  = @ \/ (shape[frame.typ].kind = "struct" /\ r[s].err)]

PlainField(g) ==
    /\ pc[g] = "fill" /\ AtField /\ Field = Plain
    /\ stack' = Skip
    /\ UNCHANGED <<shape, cache, mu, building, regs, pc, typ, result, calls>>

BadField(g) ==
    /\ pc[g] = "fill" /\ AtField /\ Field = Bad
    /\ regs' = [regs EXCEPT ![Top.reg].err = TRUE]
    /\ stack' = Skip
    /\ UNCHANGED <<shape, cache, mu, building, pc, typ, result, calls>>

\* Mutant of Anchor: registries under construction are not looked for.
NoAnchor(t) == 0

Anchor(t) == building[t]

\* The type is being built further out: its registry is used as it is.
AnchoredField(g) ==
    /\ pc[g] = "fill" /\ AtField /\ Field \in Types /\ Anchor(Field) # 0
    /\ regs' = WithSub(regs, Top, Anchor(Field))
    /\ stack' = Skip
    /\ UNCHANGED <<shape, cache, mu, building, pc, typ, result, calls>>

\* The cache is not consulted: the type is built, again if need be.
NestedField(g) ==
    /\ pc[g] = "fill" /\ AtField /\ Field \in Types /\ Anchor(Field) = 0
    /\ Open(Field)
    /\ UNCHANGED <<shape, cache, mu, pc, typ, result, calls>>

\* Mutant of Holder: a nested build gives the lock back, too.
HolderNone(outer) == Nobody

\* The lock is held until the outermost build returns.
Holder(outer) == IF outer = <<>> THEN Nobody ELSE mu

\* The innermost registry is complete: it is no longer anchored, and published.
\* The call outside goes on with its next field, or the lock is given back.
Publish(g) ==
    /\ pc[g] = "fill" /\ ~AtField
    /\ building' = [building EXCEPT ![Top.typ] = 0]
    /\ cache' = [cache EXCEPT ![Top.typ] = Top.reg]
    /\ LET filled == [regs EXCEPT ![Top.reg].filled = TRUE]
           outer  == SubSeq(stack, 1, Len(stack) - 1)
           n      == Len(outer)
       IN  /\ IF n = 0
              THEN /\ regs' = filled /\ stack' = outer
                   /\ Answer(g, Top.reg)
              ELSE /\ regs' = WithSub(filled, outer[n], Top.reg)
                   /\ stack' = [outer EXCEPT ![n].next = @ + 1]
                   /\ UNCHANGED <<pc, result>>
           /\ mu' = Holder(outer)
    /\ UNCHANGED <<shape, typ, calls>>

Build(g) ==
    \/ LoadHit(g) \/ LoadMiss(g) \/ Lock(g) \/ CheckHit(g) \/ CheckMiss(g)
    \/ PlainField(g) \/ BadField(g) \/ AnchoredField(g) \/ NestedField(g) \/ Publish(g)

Next == \E g \in Goroutines : Build(g) \/ \E t \in Types : Call(g, t)

Spec == Init /\ [][Next]_vars

\* A goroutine inside BuildRegistry runs; calls are few, so the lock comes free.
FairSpec == Spec /\ \A g \in Goroutines : WF_vars(Build(g))

-----------------------------------------------------------------------------
(* Properties.                                                             *)

Registry == [typ : Types, subs : SUBSET Nat, err : BOOLEAN, filled : BOOLEAN]

\* Types; anchors, cache and results name registries that exist.
TypeOK ==
    /\ shape \in Shapes
    /\ regs \in Seq(Registry)
    /\ \A r \in Ids : regs[r].subs \subseteq Ids
    /\ cache \in [Types -> {0} \cup Ids] /\ building \in [Types -> {0} \cup Ids]
    /\ mu \in Goroutines \cup {Nobody}
    /\ pc \in [Goroutines -> {"idle", "load", "lock", "check", "fill"}]
    /\ typ \in [Goroutines -> Types]
    /\ stack \in Seq([reg : Ids, typ : Types, next : Nat])
    /\ result \in [Goroutines -> SUBSET Ids]
    /\ calls \in 0 .. MaxCalls

\* The types type t refers to, directly or not.
Direct(t) == {u \in Types : \E i \in DOMAIN shape[t].fields : shape[t].fields[i] = u}

\* S and what n steps lead to from it.
Closure(S, n, step) ==
    LET more[k \in 0 .. n] ==
          IF k = 0 THEN S ELSE more[k - 1] \cup UNION {step[x] : x \in more[k - 1]}
    IN  more[n]

Uses(t) == Closure(Direct(t), Cardinality(Types), [u \in Types |-> Direct(u)])

Recursive(t) == \E u \in {t} \cup Uses(t) : u \in Uses(u)

\* The registries a decode with registry r can come to.  A registry refers to
\* registries of other types, or closes a cycle.
Reaches(r) == Closure({r}, Cardinality(Types), [q \in Ids |-> regs[q].subs])

Returned == UNION {result[g] : g \in Goroutines}

\* A registry that was returned is filled, and so is each it refers to, unless
\* types are recursive (registry.go:20, 81, 94-96).
BuiltWhenReturned ==
    \A r \in Returned :
      /\ regs[r].filled
      /\ Recursive(regs[r].typ) \/ \A q \in Reaches(r) : regs[q].filled

\* While nobody builds, every registry there is, recursive or not, is filled, and
\* nothing is anchored (registry.go:22, 94-96).
IdleMeansBuilt ==
    mu = Nobody => /\ \A r \in Ids : regs[r].filled
                   /\ \A t \in Types : building[t] = 0

\* A registry answers Err exactly when an unsupported field lies in its type or a
\* type it refers to, however many calls and goroutines built them
\* (registry.go:67-72, 384-393).  Slice types leave it to the element's registry,
\* and recursive types may be finished before the error is found.
ErrorsPropagate ==
    \A r \in Returned :
      LET t == regs[r].typ
      IN  ~Recursive(t) /\ (\A u \in {t} \cup Uses(t) : shape[u].kind = "struct") =>
            (regs[r].err <=> \E u \in {t} \cup Uses(t) :
                               \E i \in DOMAIN shape[u].fields : shape[u].fields[i] = Bad)

\* Registries are shared without a lock: one that was returned does not change,
\* nor does any it refers to, unless types are recursive (registry.go:80-82).
ReturnedIsConstant ==
    [][\A r \in Returned :
         ~Recursive(regs[r].typ) => \A q \in Reaches(r) : regs'[q] = regs[q]]_vars

\* Every call returns, recursive types or not (registry.go:98-102).
CallsReturn == \A g \in Goroutines : pc[g] # "idle" ~> pc[g] = "idle"

\* Statement of registry.go:81: the returned registry is always fully built.
FullyBuilt == \A r \in Returned : \A q \in Reaches(r) : regs[q].filled
=============================================================================
