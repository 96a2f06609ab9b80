---------------------------- MODULE NativeLayer -----------------------------
(***************************************************************************)
(* The configuration of INativeLayer<T> (src/include/layers/layers.h)      *)
(* composed with the memory model of the NDArrays it holds.                *)
(*                                                                         *)
(* A layer holds ten NDArray members (_params, _bias, _input, ...), made   *)
(* by the constructor with NDArray() and deleted by the destructor.  The   *)
(* setters and setParameters/setInput/setOutput/configureLayerFF/BP rebind *)
(* members onto a caller's memory with replacePointers(.., true), which    *)
(* deletes what a member owns: a member comes to own memory when a caller  *)
(* works on it through a getter (getInput()->transposei(), ...).           *)
(*                                                                         *)
(* Member maps the names of the members a model follows to NDArray        *)
(* objects of NDArrayMemory.  A member left out is only ever rebound onto *)
(* a caller's memory, which frees nothing, so leaving it out loses no     *)
(* behaviour of the others.  The remaining arrays are the caller's.        *)
(*                                                                         *)
(* A call of several replacePointers is a sequence of steps, `pc' holds   *)
(* what remains of it; the caller waits for the call to return (pc = <<>>) *)
(* since everything is synchronous.  The pure virtual validators return   *)
(* any result.                                                             *)
(***************************************************************************)
EXTENDS Integers, Sequences, FiniteSets

CONSTANTS
  Arrays, BufBlocks, ShpBlocks, Null, Extents, Shapes, CallerBufs,
  CallerShps, SelfReplace,
  Member,       \* member name -> NDArray object, for the members modelled
  Rngs,         \* RandomBuffer objects a caller may pass
  PInputs       \* values a caller passes for pDropOut / pDropConnect

VARIABLES
  status, origin, size, info, arr, faults, foreignShapeWrites,
  layer,        \* the layer object exists
  pc,           \* the steps left of the call in progress
  rng,          \* _rng
  pDropOut, pDropConnect, dropOut, dropConnect

Mem == INSTANCE NDArrayMemory

memVars == <<status, origin, size, info, arr, faults, foreignShapeWrites>>
cfgVars == <<rng, pDropOut, pDropConnect, dropOut, dropConnect>>
vars == <<memVars, layer, pc, cfgVars>>

MemberNames == {"params", "bias", "input", "epsilon", "mask", "output",
                "gradientW", "gradientB", "epsilonNext", "preOutput"}

ASSUME DOMAIN Member \subseteq MemberNames

Members == {Member[m] : m \in DOMAIN Member}

CallerArrays == Arrays \ Members

(* The pure virtual validators a call ends with.                          *)
Validators == {"validateParameters", "validateInput", "validateOutput",
               "validateGradients"}

(* The steps of a call: its replacePointers on the members modelled and    *)
(* its validator calls.                                                    *)
Modelled(s) == SelectSeq(s, LAMBDA m : m \in Validators \/ m \in DOMAIN Member)

TypeOK ==
  /\ Mem!TypeOK
  /\ layer \in BOOLEAN
  /\ pc \in Seq(MemberNames \cup Validators)
  /\ rng \in Rngs \cup {Null}
  /\ pDropOut \in PInputs \cup {0} /\ pDropConnect \in PInputs \cup {0}
  /\ dropOut \in BOOLEAN /\ dropConnect \in BOOLEAN

Idle == layer /\ pc = <<>>

-----------------------------------------------------------------------------
(* Constructor and destructor.                                             *)

(* INativeLayer(): every member is new NDArray<T>() (null pointers, not    *)
(* owning), a fresh object each time, no rng, no dropout.                  *)
INativeLayer ==
  /\ ~layer
  /\ arr' = [a \in Arrays |-> IF a \in Members
                                THEN [Mem!NoArray EXCEPT !.alive = TRUE]
                                ELSE arr[a]]
  /\ layer' = TRUE
  /\ rng' = Null /\ pDropOut' = 0 /\ pDropConnect' = 0
  /\ dropOut' = FALSE /\ dropConnect' = FALSE
  /\ UNCHANGED <<status, origin, size, info, faults, foreignShapeWrites, pc>>

(* Caller contract for the destructor: no array of the caller views the  *)
(* memory a member owns.  Members viewing each other are deleted together, *)
(* and deleting a non-owning member touches no memory, so the order of the *)
(* deletes does not matter.                                                *)
ViewedOnlyByMembers(a) ==
  \A o \in Arrays \ Members : arr[o].alive => Mem!RefBy(o) \cap Mem!RefBy(a) = {}

(* Variant of the destructor forgetting to delete _output.                 *)
DestroyLayerKeepingOutput ==
  /\ Idle
  /\ LET D == Members \ {Member[m] : m \in DOMAIN Member \cap {"output"}}
         F == UNION {Mem!RefBy(a) : a \in {d \in D : arr[d].allocated}}
     IN /\ \A a \in D : arr[a].allocated => ViewedOnlyByMembers(a)
        /\ Mem!Release(F)
        /\ faults' = faults \cup Mem!FreeFaults(F)
        /\ arr' = [a \in Arrays |-> IF a \in D THEN Mem!NoArray ELSE arr[a]]
  /\ layer' = FALSE
  /\ UNCHANGED <<foreignShapeWrites, pc, cfgVars>>

(* ~INativeLayer(): delete of every member, each ~NDArray deleting the     *)
(* buffer and shapeInfo it owns.                                           *)
DestroyLayer ==
  /\ Idle
  /\ LET F == UNION {Mem!RefBy(a) : a \in {d \in Members : arr[d].allocated}}
     IN /\ \A a \in Members : arr[a].allocated => ViewedOnlyByMembers(a)
        /\ Mem!Release(F)
        /\ faults' = faults \cup Mem!FreeFaults(F)
        /\ arr' = [a \in Arrays |-> IF a \in Members THEN Mem!NoArray ELSE arr[a]]
  /\ layer' = FALSE
  /\ UNCHANGED <<foreignShapeWrites, pc, cfgVars>>

-----------------------------------------------------------------------------
(* Rebinding members.                                                      *)

(* setParams(other) ... setGradientB(other): the member is rebound onto    *)
(* other->getBuff(), other->getShapeInfo() with releaseExisting = true.     *)
SetMember(m, o) ==
  /\ Idle /\ arr[o].alive
  /\ Mem!ReplacePointers(Member[m], <<arr[o].buf, arr[o].shp>>, TRUE)
  /\ UNCHANGED <<layer, pc, cfgVars>>

(* setParameters(params, .., bias, ..), setInput(input, .., mask, ..),     *)
(* setOutput(output, ..) and configureLayerBP(..): replacePointers on      *)
(* each member in turn, then the validator's code is returned            *)
(* (configureLayerBP calls validateGradients() again to return its code).   *)
(* Caller contract for a call: a member it will release is not viewed by  *)
(* another live array.                                                     *)
Releasing(s) == {Member[s[i]] : i \in {j \in DOMAIN s : s[j] \in DOMAIN Member}}

CallAllowed(s) ==
  \A a \in Releasing(s) : arr[a].allocated => Mem!Releasable(a)

Call(members) ==
  /\ Idle
  /\ CallAllowed(Modelled(members))
  /\ pc' = Modelled(members)
  /\ UNCHANGED <<memVars, layer, cfgVars>>

setParameters == Call(<<"params", "bias", "validateParameters">>)
setInput == Call(<<"input", "mask", "validateInput">>)
setOutput == Call(<<"output", "validateOutput">>)
configureLayerBP ==
  Call(<<"epsilonNext", "preOutput", "gradientW", "gradientB", "epsilon",
         "validateGradients">>)

(* configureLayerFF(input, .., output, .., pDropOut, pDropConnect, ptrRng): *)
(* the rng is replaced only by a non-null pointer, the probabilities are    *)
(* clamped at 0 and the flags set, all before BAD_RNG is returned when     *)
(* dropping has no rng; then _input is rebound, BAD_INPUT may be returned, *)
(* then _output is rebound.                                                *)
FFSteps == <<"input", "validateInput", "output", "validateOutput">>

configureLayerFF ==
  /\ Idle
  /\ \E pD, pC \in PInputs, ptr \in Rngs \cup {Null} :
       LET r == IF ptr # Null THEN ptr ELSE rng
           pD0 == IF pD > 0 THEN pD ELSE 0
           pC0 == IF pC > 0 THEN pC ELSE 0
       IN /\ rng' = r
          /\ pDropOut' = pD0 /\ pDropConnect' = pC0
          /\ dropOut' = (pD0 > 0) /\ dropConnect' = (pC0 > 0)
          /\ IF (pD0 > 0 \/ pC0 > 0) /\ r = Null
               THEN pc' = <<>>
               ELSE /\ CallAllowed(Modelled(FFSteps))
                    /\ pc' = Modelled(FFSteps)
  /\ UNCHANGED <<memVars, layer>>

(* The next step of the call in progress: a member's replacePointers with *)
(* the pointers the caller passed (memory it holds, or nullptr, but not   *)
(* memory a later step of the call releases), or                          *)
(* a validator, after which the call returns unless it is OK.             *)
Step ==
  /\ layer /\ pc # <<>>
  /\ \/ /\ Head(pc) \in Validators
        /\ pc' \in {Tail(pc), <<>>}
        /\ UNCHANGED memVars
     \/ /\ Head(pc) \notin Validators
        /\ \E p \in Mem!Pointers :
             /\ {p[1], p[2]} \cap UNION {Mem!RefBy(a) : a \in Releasing(Tail(pc))} = {}
             /\ Mem!ReplacePointers(Member[Head(pc)], p, TRUE)
        /\ pc' = Tail(pc)
  /\ UNCHANGED <<layer, cfgVars>>

-----------------------------------------------------------------------------
(* Plain setters of the configuration.                                     *)

setDropOut == Idle /\ \E b \in BOOLEAN : dropOut' = b
                   /\ UNCHANGED <<memVars, layer, pc, rng, pDropOut, pDropConnect, dropConnect>>
setDropConnect == Idle /\ \E b \in BOOLEAN : dropConnect' = b
                       /\ UNCHANGED <<memVars, layer, pc, rng, pDropOut, pDropConnect, dropOut>>
setpDropOut == Idle /\ \E x \in PInputs : pDropOut' = x
                    /\ UNCHANGED <<memVars, layer, pc, rng, pDropConnect, dropOut, dropConnect>>
setpDropConnect == Idle /\ \E x \in PInputs : pDropConnect' = x
                        /\ UNCHANGED <<memVars, layer, pc, rng, pDropOut, dropOut, dropConnect>>
setRng == Idle /\ \E r \in Rngs \cup {Null} : rng' = r
               /\ UNCHANGED <<memVars, layer, pc, pDropOut, pDropConnect, dropOut, dropConnect>>

-----------------------------------------------------------------------------
(* The caller, between calls of the layer: anything NDArray offers on its *)
(* own arrays, and, through getParams() .. getPreOutput(), on a member:    *)
(* in-place operations and operations that read it into a caller array.    *)

InCall == pc # <<>>

Reachable == CallerArrays \cup (IF layer THEN Members ELSE {})

CallerOps(withAssign) ==
  /\ ~InCall
  /\ \/ \E a \in CallerArrays :
          \/ Mem!NDArrayBorrowed(a) \/ Mem!NDArrayAlloc(a) \/ Mem!Destroy(a)
          \/ \E o \in Reachable :
               \/ Mem!NDArrayCopy(a, o) \/ Mem!dup(o, a)
               \/ Mem!transpose(o, a) \/ Mem!reduceAlongDimension(o, a)
     \/ \E a \in Reachable :
          \/ Mem!replacePointers(a) \/ Mem!transposei(a)
          \/ withAssign /\ \E o \in Reachable : Mem!OperatorAssign(a, o)
  /\ UNCHANGED <<layer, pc, cfgVars>>

Init ==
  /\ Mem!Init
  /\ layer = FALSE /\ pc = <<>>
  /\ rng = Null /\ pDropOut = 0 /\ pDropConnect = 0
  /\ dropOut = FALSE /\ dropConnect = FALSE

LayerNext ==
  \/ INativeLayer \/ DestroyLayer
  \/ \E m \in DOMAIN Member, o \in Reachable : SetMember(m, o)
  \/ setParameters \/ setInput \/ setOutput \/ configureLayerBP
  \/ configureLayerFF \/ Step
  \/ setDropOut \/ setDropConnect \/ setpDropOut \/ setpDropConnect \/ setRng

Next == LayerNext \/ CallerOps(TRUE)

NextWithoutOperatorAssign == LayerNext \/ CallerOps(FALSE)

Spec == Init /\ [][Next]_vars

SpecWithoutOperatorAssign == Init /\ [][NextWithoutOperatorAssign]_vars

-----------------------------------------------------------------------------
(* Properties.                                                             *)

(* Every block the library allocated and has not deleted is owned by an    *)
(* array still reachable: a caller's array or a member of a live layer.    *)
(* Memory a member came to own (transposei on a borrowed member, operator= *)
(* into it) is deleted when the member is rebound or the layer destroyed. *)
LayerNoLeak ==
  \A b \in Mem!Blocks :
    (status[b] = "live" /\ origin[b] = "lib") =>
      \E a \in Reachable : arr[a].alive /\ arr[a].allocated /\ b \in Mem!RefBy(a)

====
