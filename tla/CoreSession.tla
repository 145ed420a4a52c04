---------------------------- MODULE CoreSession ----------------------------
(***************************************************************************)
(* An application that hosts several Core objects and calls their methods  *)
(* in any order and as often as it likes, as the tests do with two of them *)
(* (test/source/e2e_tests.cpp) and the client program with one.            *)
(*                                                                         *)
(* A Core is copied member by member: the copies have clear data of their  *)
(* own and share the encryptor, which initializeAnalyticsScheme allocates  *)
(* and nobody frees.  `encryptors` is the memory they live in, as far as   *)
(* somebody can reach it; a pointer is identified with the key of the      *)
(* encryptor it points to.                                                 *)
(***************************************************************************)
EXTENDS Core

CONSTANTS
  Handle,       \* the variables of the application that may hold a Core
  Key,          \* bound: a key pair for every encryptor it may make
  Params,       \* the scheme parameters it may be given
  Label, Value, \* the clear data it may set
  MaxList,      \* bound: public data documents in one list
  MaxReleased,  \* bound: analytics data documents released
  Bound         \* the bound of the analysis

ASSUME SessionAssumption ==
  /\ nullptr \notin Key
  /\ Params \subseteq [index : Nat, participantsCount : Nat, bound : Nat]
  /\ Value \subseteq Nat

VARIABLES
  cores,        \* a function from the handles of live objects to their members
  encryptors,   \* a function from pointers to encryptors
  published,    \* the public data documents obtained so far
  released      \* the analytics data documents obtained so far

vars == <<cores, encryptors, published, released>>

Live == DOMAIN cores

\* The object behind a handle, its encryptor looked up.
Object(h) ==
  [cores[h] EXCEPT
     !.encryptor = IF @ = nullptr THEN nullptr ELSE encryptors[@]]

\* What `core` has become is written back to where h points.
WriteBack(h, core) ==
  encryptors' = [encryptors EXCEPT ![cores[h].encryptor] = core.encryptor]

\* Objects and memory afterwards.  What nobody points to any more is leaked, and
\* of no consequence.
Memory(objects, allocated) ==
  /\ cores' = objects
  /\ encryptors' =
       Restrict(allocated, {objects[h].encryptor : h \in DOMAIN objects}
                             \cap DOMAIN allocated)

\* A process that died leaves what others got from it.
Crash ==
  /\ cores' = <<>>
  /\ encryptors' = <<>>
  /\ UNCHANGED <<published, released>>

----------------------------------------------------------------------------
Construct(h) ==
  /\ h \notin Live
  /\ cores' = Assigned(cores, h, NewCore)
  /\ UNCHANGED <<encryptors, published, released>>

\* The implicit copy constructor and copy assignment.
Copy(h, from) ==
  /\ from \in Live \ {h}
  /\ Memory(Assigned(cores, h, cores[from]), encryptors)
  /\ UNCHANGED <<published, released>>

\* Mutant of Freed: the destructor deletes the encryptor.
EncryptorDeleted(core) == {core.encryptor}

\* "delete mEncryptor" is commented out.
Freed(core) == {}

Destroy(h) ==
  /\ h \in Live
  /\ Memory(Restrict(cores, Live \ {h}),
            Restrict(encryptors, DOMAIN encryptors \ Freed(cores[h])))
  /\ UNCHANGED <<published, released>>

\* Nobody has drawn the key so far.
Fresh ==
  {key \in Key \ DOMAIN encryptors :
     /\ \A c \in published : c.pubKey # key
     /\ \A d \in released : Joined(d.fdKey)[1].key # key}

Initialize(h, params) ==
  /\ h \in Live
  /\ \E key \in Fresh :
       LET core == initializeAnalyticsScheme(Object(h), params, key)
       IN  Memory([cores EXCEPT ![h].encryptor = key],
                  Assigned(encryptors, key, core.encryptor))
  /\ UNCHANGED <<published, released>>

Publish(h) ==
  /\ h \in Live
  /\ ~Uninitialized(Object(h))
  /\ published' = published \cup {getPublicData(Object(h))}
  /\ UNCHANGED <<cores, encryptors, released>>

\* A rejected list changes nothing.  After an insertion past the end the process
\* is dead, the share is nobody's, or a later entry is rejected.
Provide(h, list) ==
  /\ h \in Live
  /\ LET core == Object(h)
         status == ProvideStatus(core, list)
         Share(encryptor) ==
           /\ WriteBack(h, [core EXCEPT !.encryptor = encryptor])
           /\ UNCHANGED <<cores, published, released>>
     IN  \/ /\ status = "kOk"
            /\ Share(provideParticipantsPublicData(core, list).encryptor)
         \/ /\ status = "undefined"
            /\ \/ Crash
               \/ Share([core.encryptor EXCEPT !.peers = NoPeers])
               \/ UNCHANGED vars
         \/ status \in {"kBadParams", "kSchemeUninitialized"} /\ UNCHANGED vars

SetClear(h, label, value) ==
  /\ h \in Live
  /\ cores' = [cores EXCEPT ![h].data =
                 setClearAnalyticsData(Object(h), label, value).data]
  /\ UNCHANGED <<encryptors, published, released>>

\* Nothing asks for clear data or for a share.
Release(h) ==
  /\ h \in Live
  /\ ~Uninitialized(Object(h))
  /\ released' = released \cup {getEncryptedAnalyticsData(Object(h))}
  /\ UNCHANGED <<cores, encryptors, published>>

\* The lists an application may put together, in any order and with repetitions.
Lists == UNION {[1 .. n -> published] : n \in 0 .. MaxList}

Init == cores = <<>> /\ encryptors = <<>> /\ published = {} /\ released = {}

\* A call of some method of the object behind h.
Call(h) ==
  \/ Construct(h)
  \/ \E from \in Handle : Copy(h, from)
  \/ Destroy(h)
  \/ \E params \in Params : Initialize(h, params)
  \/ Publish(h)
  \/ \E list \in Lists : Provide(h, list)
  \/ \E label \in Label, value \in Value : SetClear(h, label, value)
  \/ Release(h)

\* The application is watched until it has as many documents as the bound says.
Next == Cardinality(released) < MaxReleased /\ \E h \in Handle : Call(h)

Spec == Init /\ [][Next]_vars
=============================================================================
