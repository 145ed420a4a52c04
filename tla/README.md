# A TLA+ specification of Prinsight

Prinsight lets a group of clients hand encrypted numbers to a server that can
decrypt their sum and nothing else.  The cryptography (decentralised
multi-client functional encryption, DMCFE) comes from the library CiFEr.  What
Prinsight itself adds, and what this directory specifies, is everything around
it: who is registered, whose public keys a share is computed from, which
documents are stored in which order, what is sent back when something fails,
and what the analysis makes of whatever it is handed.

Line numbers refer to `src/`; `server` means `src/server/source/main.cpp`,
`client` means `src/client/source/main.cpp`, `core` means `src/source/core.cpp`.

## 1. The system

| part | state | operations | talks to |
|---|---|---|---|
| **Coordinating server**, class `AnalyticsService` (server 39-256) | in memory, under one mutex: `participants`, `participantsIndex`, `mParticipantsAnalyticsDataList` | six REST handlers (server 75-241), process start | clients and an analyst over HTTP; `serializeParticipantsPublicDataList` and `getInnerProductAnalysis` of the SDK |
| **Client program** (client 81-148) | where in `main` it is; a `Core`; the strings of the answers | five HTTP calls in a fixed order, a sleep of 20 s | the server; `Core` |
| **`Core`** (core 24-152) | pointer to a `DMCFEncryptor`, the clear data by label | initialise, public data, take in the others' public data, set clear data, encrypt | the encryptor |
| **Inner-product analysis** (core 167-229) | none; a function of the stored documents | sorts ciphers and key parts into vectors, decrypts label by label | the decryptor |
| **`DMCFEncryptor` / `DMCFDecryptor`** (`src/source/dmcfe`) | key pair, index, length, share | set public keys, encrypt, derive a key part; decrypt | CiFEr |
| **Models and conversions** (`src/source/models`, `dmcfe.cpp`, `utils.cpp`) | none | JSON and base64 forms | - |
| CiFEr, Pistache, restincurl, the network, the people who start processes | external | | |

A client registers (and is given an index), fetches the parameters of the
scheme, makes a key pair, publishes its public key, sleeps, fetches the list of
all public keys, computes its share from it, encrypts, derives its part of the
decryption key and posts the document.  An analyst asks for `/analysis`.

### What is hard about it

* **Order and timing.** Nothing but a sleep makes the clients meet. Documents
  are kept in the order they arrive, while the analysis inserts each at its
  index, which is only defined when they arrive in index order.
* **Handlers that go on after a refusal.** Registration (79-81), the list
  (169-171) and the analysis (234-236) send an error and then carry on.
* **Failure.** Calls time out while their request is handled later; clients are
  killed and leave a registered participant behind; every status is ignored by
  the client; the registry dies with the server while clients keep their index.
* **Boundaries.** Batch size reached or exceeded; first and last index; lists
  shorter than the batch or the policy; a label that not everybody measured;
  documents that are sent twice; a bound beyond half of what a `long` holds.
* **Checks that are not made.** The decoder's result is ignored, a document is
  accepted for its index, an index that occurs twice in a list is a FIXME
  (core 92, 190), a key part is derived whether or not a share was set.
* **Copies.** A `Core` is copied with its pointer, and the tests destroy the
  originals.

`PROJECT.json` lists each hazard at its line with the properties about it.

### What makes each part correct

* Server: indexes are positions, client ids are distinct, data is filed under
  its own index, nothing is withdrawn while the process lives; a list that a
  client takes for an answer is complete and in index order; an answer to
  `/analysis` counts every participant exactly once.
* Analysis: it gives the sums for a coherent list in index order, and a sum
  comes out of no list but over a whole group of mutually agreeing participants.
* `Core`: the same for documents from any sequence of calls; a call changes the
  object it is made on and no other, except that copies share their encryptor and
  so the share it is given.
* Clients and server together: no two clients work under one index; all shares
  are computed from one list of keys, which holds the client's own key; the
  number that comes out is the sum over one agreed group, never over part of
  it; less than the whole group's documents decrypt to nothing; every client
  process ends.

## 2. Modules

| module | models | how it corresponds to the code |
|---|---|---|
| `Dmcfe` | `DMCFEncryptor`, `DMCFDecryptor`, and of CiFEr what they rely on | Group elements are opaque. A key pair is its identity; a cipher is what was encrypted by whom and under which label; a key part is who derived it from which public keys for which policy. A buffer, like its base64 text, is the sequence of the one element in it, or empty when it was zeroed or damaged; the decoder may leave a buffer as it was. Integers are cut to an `unsigned long` where the code hands them to GMP. A share is a sum of one mask per other participant, added for those before the client and subtracted for those after it; `cfe_dmcfe_decrypt` finds the sum when all masks cancel and the key parts belong to the ciphers, otherwise nothing. Of a key part without a share nothing is known. A buffer without an element is not converted, and its place in the decryptor's array stays memory that nobody wrote (`Written`): the decryption then gives any number or none. |
| `InnerProduct` | `getInnerProductAnalysis` | The function from a list of documents to the *set* of its possible outcomes: more than one where the code has undefined behaviour (an insertion past the end, a read past the cipher list) or depends on the order of an `unordered_map`. |
| `CoreSession`, `CoreSessionProperties` | an application of the SDK | Handles hold `Core` objects that point into the memory of encryptors. One action per method, and construction, copy and destruction. Lists are put together from whatever was published; documents are collected. |
| `Core` | `Core` | One operator per method, from the object and its input to the object afterwards; `ProvideStatus` is the status of `provideParticipantsPublicData`. |
| `AnalysisBatches` | the callers of `getInnerProductAnalysis` | The list grows by any document, in any order, with repetition. Holds the properties of the analysis. |
| `AnalyticsService` | the server process | One action per handler, atomic because each holds the mutex from its first access to its last. `exchange` keeps the last request and *all* responses sent to it; the client reads the first. `Start` and `Stop` of the process empty the registry. |
| `AnalyticsServiceProperties` | - | The properties of the server, whatever it is sent. |
| `AnalyticsAnswers` | - | What its answers say when the documents it is sent were made by encryptors of clients. |
| `AnalyticsServiceProofs`, `AnalyticsAnswersProofs` | - | The proofs of the one and the other. |
| `InnerProductProofs` | - | What the folds, the masks and the analysis compute, for lists of every length. |
| `GroupProofs` | - | What insertion at an index makes of lists in any order, which sets of key parts cancel, and what follows for the analysis. |
| `AnalysisBatchesProofs`, `CoreSessionProofs` | - | The properties of the analysis and of the application of the SDK. |
| `Prinsight` | client program, network, server and analyst together | Instantiates `AnalyticsService` and extends `Core`. One client action from the return of one call to the start of the next; requests travel in `requests`, a handled request answers the call if its sender still waits in it. |
| `SecureSum` | the abstract promise | Members of a group release their data for this group; the sum is revealed when all have released. |
| `PrinsightProperties` | - | The properties of the system; `Promise` is the refinement mapping to `SecureSum`. |
| `PrinsightProofs`, `PrinsightAnswerProofs` | - | The inductive invariants of the system; what comes out of the stored documents, and the steps of `SecureSum`. |
| `MCAnalysisBatches`, `MCAnalyticsService`, `MCCoreSession`, `MCPrinsight` | - | Constants for TLC. |

Definitions commented "Mutant of X" are wrong variants of the definition below
them. They are used nowhere; put in the place of X each one makes TLC find a
property violated (the list is in `PROJECT.json`), which shows that the
property depends on the code it is about.

Some abstractions that deserve a word:

* **First response.** Where a handler sends twice, the HTTP connection carries
  two responses and the client reads the first. Later ones stay in
  `exchange.sent`, so that properties can speak of them.
* **A refused registration.** It leaves the client with the empty string for an
  index; the next request is for `/analytics/scheme/`, which matches no route,
  and parsing the empty answer throws. `Abort` takes this as one step because
  no state of anybody else is read or written in between.
* **Identity.** A client draws a random id and a fresh key pair. Both are
  identified with the run of the program, so two runs never share them.
* **Numbers.** The value under each label is the same for all clients, as in
  `client` 136-137. `AnalysisBatches` has different values per client.
* **Incomplete documents.** One without `encData` or `fdKey` is accepted by the
  server (191-201) and makes the analysis throw; nothing in the handler catches
  it, and the HTTP library answers. In the model it is a record without these
  members.
* **Leaks.** An encryptor nobody points to any more is never freed (core 27). It
  has no influence, and `CoreSession` forgets it; one that is still pointed to
  would be missed, and `CopiesStandAlone` would see it.
* **Undefined insertion in a client** (core 100): the process is killed, or the
  share is of nobody's keys. `ListsAlwaysAccepted` shows that with this server
  it does not occur.

## 3. Runs

Passing runs:

| run | instance | what it shows |
|---|---|---|
| `analysis_batches` | lists of up to 4 documents; 3 participants of whom one was initialised twice, and what it made before was not computed from its later key; two labels; documents with a damaged cipher, a damaged or missing half of the key part, without members, from before the share was set; policies of 2 and 3, each shorter than, as long as and longer than some list; bounds 3, 13 and 29, of which the last is beyond half of `ULongRange = 32` | `CoherentBatchIsSummed`, `NumberOnlyForCoherentGroup`, `DefinedIffInIndexOrder`: which lists give the sums, and where a number can come from |
| `analytics_service` | 3 client ids for a batch of 2, up to 3 documents out of 5, one of them incomplete, any request at any time, malformed bodies and a `:regId` that is no number, server stopped, restarted or dead of an analysis | the server's invariants and action properties, for clients of any make; an overfull registry and a set of documents that does not fit together are final |
| `core_session` | 2 handles, up to 3 key pairs known to others, 2 indexes, one value, lists of up to 2, calls until 2 documents are out | `SumOfMutualGroup`, `CopiesStandAlone`: no sequence of calls makes a sum out of anything but a mutual group, and no call changes another object than its own, but for the share that copies have in common |
| `system_faults` | 3 clients for 2 places, one server process, timeouts, lost and late requests, killed clients | the clients that release anything agree on one group, and the system implements `SecureSum` |
| `system_trio` | 3 clients for 3 places, same faults | `IndividualDataStaysHidden` for parts of more than one document, and `SecureSum` where a group may be released in part |
| `system_restarts` | as `system_faults`, and the server starts twice | lists stay acceptable and answers stay group sums though the registry was lost |
| `system_timely` | 2 clients, two labels, no faults | both get through, and the sum is learnt unless documents arrive out of index order |
| `system_termination` | 2 clients, late server, two starts, all faults | every client process ends |

Runs that show where the code does not do what the repository says of it
(each is a finding in `PROJECT.json`):

| run | says | does |
|---|---|---|
| `batch_never_overfull` | "batch is full" (server 78-80) | the client is added all the same, and the batch never serves again |
| `refusal_is_the_answer` | "return only if we have enough participants" (server 168) | refuses, and then sends the incomplete list |
| `lengths_checked` | "check if length of ciphers, keys and policies are same" (`dmcfe_decryptor.cpp` 22) | no check; the cipher list is read past its end |
| `sum_is_learnt` | "server learns the sum" (`README.md` 44) | only if the documents arrive in index order |

More disagreements show in the model and have no run of their own.  "retry"
(server 170): a client that is refused parses the empty string and ends in an
uncaught exception (`Abort`).  "correctly indexed" (core 88): a list with an
index twice is accepted with `kOk`; `SumOfMutualGroup` shows that no number
comes of it.  The guard of server 224 counts documents, so that two of one participant stand for
two participants; `AnswerCountsEveryone` shows that no number comes of it.  The
walk-through starts the clients before the server (`README.md` 65-72), and they
end in an uncaught exception; `system_termination` covers that start.  A client
that outlives the server it registered with may compute its share from a list
without its own key, against the comment of core 87: `OwnKeyListed` and
`OneKeyListForAll` are properties of one server process, and `AnswerIsGroupSum`
is what remains true across a restart.

### Bounds, and why they are enough

* `BatchSize = 2` is the server's own constant (server 276). With a third
  client every case of the batch occurs: incomplete, complete, overfull. In a
  batch of two no proper part of a group has more than one member; `system_trio`
  has three for that reason. The registry's theorems hold for any size.
* `MaxSubmissions = 3`: fewer, as many and more documents than the batch.
* `MaxBatch = 4` documents for 3 participants: first, middle and last index,
  every permutation, and a list with one document too many in any place.
  The participant that was initialised twice has documents of its second key for
  groups of two, and others know that key in a group of three as well. Two labels
  are in the documents of one group of two.
* `ULongRange = 32` where bounds are varied, so that half the range is among
  them; elsewhere 1024, which every value and bound fits, as 64 bits do.
* `CoreSession`: two participants are the smallest group; a third key pair makes
  one participant that was initialised twice, or a stranger of the same index.
  Two handles hold both participants, or two copies of one. All values are 1:
  `AnalysisBatches` has different ones. The application is watched until `MaxReleased`
  documents are out; what is out already depends on no later call, and the
  theorems hold for any `MaxReleased`.
* `MaxStarts = 2`: one registry is lost and a second one lives among clients of
  the first. A second loss leaves nothing more behind than the first did.
* `Bound = 100` in the system, where sums are at most 15: the search always
  finds them, as with the server's 100000. `analysis_batches` crosses the bound.
* `Cardinality(Client)` limits the documents in `Prinsight`; it is no
  restriction, as each run of the client posts one.
* Client ids and clients are symmetric. Symmetry is used in runs whose
  properties are invariants or action properties only, never with liveness.

Deadlock is checked for the server, which always answers. The system stops when
all clients have ended and the server is down for good, and lists of documents
stop growing at the bound: those configurations say `CHECK_DEADLOCK FALSE`.

### Fairness

Weak fairness for: each client's own steps (a process runs; a call returns, if
only with an error, which the HTTP library's time-out sees to); each client's
request being handled or refused (two server threads serve connections, and a
handler waits for nothing but the mutex, which every handler releases); the
analyst's question (whoever wants the sum asks again, the reply says "retry");
and the server being started when it is down, as the walk-through of the
repository does. There is no fairness for losing messages, killing clients or
stopping the server. Liveness under "no faults" (`system_timely`) assumes in
addition that clients are launched together so that the 20 s of sleep cover
the others' publication (`Timely`); without that assumption a
client that is early is refused and ends.

## 4. Proofs

Every theorem holds for any number of clients, any batch size, any loss, delay,
repetition and death that the model has, and, where nothing else is said, any
number of restarts of the server.

The assumptions are about constants only.

* `BatchSizeAssumption`: the batch size is a positive number.
* `BodyAssumption`: the values that stand for "no data" and "malformed" are not
  bodies.
* `ULongAssumption`: an `unsigned long` has a positive number of values.
* `SystemAssumption`: the same for the composed system, which starts at least once.
* `ClearDataAssumption`: a client has data under at least one label, natural
  numbers whose sum over a batch fits an `unsigned long` (`client` 136-137 sets 1
  and 5).
* `SessionAssumption`: the null pointer points to no encryptor; parameters and
  clear data are unsigned numbers.
* `MakersAssumption` (server) and `BatchesAssumption` (analysis): the documents
  were made by encryptors (`MadeBy`), the texts in them whole or damaged in any
  way, or without members; and of these encryptors `NoKeyEarly` holds: a key
  belongs to one index, and no key in a share stands before the index of its
  owner. The second is what `std::vector::insert` at the index leaves of any list
  that core 86-101 takes in, also one with an index twice: later insertions move
  a key up, never down. `CoreSessionProofs` proves both of the documents of an
  arbitrary application (`MadeNotEarly`, `IInv`), so they are not taken on trust.
  Neither asks for a share: documents may be from before it was set
  (`peers = NoPeers`, core 138), and `MCAnalysisBatches` has one of them.

### The server alone

`AnalyticsServiceProofs`, for every set of clients and bodies and every sequence
of requests and restarts:

| theorem | statement |
|---|---|
| `Invariance`, `ServiceTypeCorrect`, `RegistryCorrect` | `TypeOK` and `RegistryInv` are invariants |
| `OwnIndexAcknowledged` | `AckCarriesOwnIndex` is an invariant: an acknowledged client is in the registry under the index it was told |
| `ListsUsable` | `PublicDataListUsable` is an invariant |
| `Persistence` | `NothingWithdrawn` |
| `Wedged` | `OverfullNeverServes` |
| `RecordsAgree` | `RecordIsLatestArrival` is an invariant |
| `HopelessForGood` | `FailureIsFinal` |
| `NumbersCountEveryone` (`AnalyticsAnswersProofs`) | `AnswerCountsEveryone` is an invariant, for documents of clients |

The inductive invariant is `Inv == TypeOK /\ RegistryInv`. None of its parts
stands alone: a new participant is given `participantsIndex`, and this is its
position only by `IndexIsPosition`; a registration finds nobody of the same id
exactly when `ClientIdsDistinct` is kept; a body is filed at the *first*
participant with its index, and `FiledUnderOwnIndex` holds of the replaced
record because that participant's index is the body's. `LostWithProcess` makes
the restart an ordinary step. `ListsUsable` then follows for the one step that
sends a list: not refused means `participantsIndex = BatchSize`, so by
`IndexIsPosition` the list has `BatchSize` entries; serialised means nobody's
data is missing, so by `FiledUnderOwnIndex` entry k carries index k - 1.
`Persistence` goes through the handlers one by one. `Wedged` needs only that
`participantsIndex` grows while the process lives, and that both refusals test
for equality. `RecordsAgree` adds `ListedAreRegistered` to the invariant: every
document in the list belongs to a registered participant, so a new one finds
none of its index there. `HopelessForGood` rests on the same: a list that is
left alone keeps its outcomes, one that grows is longer than the batch, and a
process with documents has participants and so is not about to start. It uses
nothing of the definition of `getInnerProductAnalysis`.

`NumbersCountEveryone` does. The guard (server 224) only counts documents, and
documents of one participant sent twice make up the number as well. A number
that comes out is the sum over documents in index order (`SumsAreOfGroups`,
below); these are as many as the batch has places, so there is exactly one of
each index; and then `RecordInv` says that the document in the list is the one on
record, because it is the last to arrive with its index.

### The analysis

`InnerProductProofs` is about the operators of `Dmcfe` and `InnerProduct`, for
lists of every length.

| theorem | statement |
|---|---|
| `InsertedInOrder` | insertion of entries in index order (core 199-213) gives the list of their items |
| `CancellingIsMutual` | when the masks cancel, every key in the list of a key part, but the own one, has a key part here too, and that one's list names the first |
| `FewerNeverCancel` | the masks of fewer key parts than the lists have names never cancel |
| `OrderlySum` | the documents of a whole group in index order give the sum under each label, when it is within the bound, and nothing else |

A fold of the community modules is a `CHOOSE` of a function with a recursive
equation, so each of them is first shown to exist and to satisfy its equation
(`FoldExists`, `EqualSum`), by induction over a subset of the numbers
(`LeastNumber`, `Induction`), because the library's induction theorems take an
operator as a parameter. The fold over the positions takes the largest first
(`MaxIs`), that over the values takes them in an order of its own.
`CancellingIsMutual` is what the cryptography needs of the bookkeeping: each
added mask of a pair of keys has a subtracted one somewhere; that one comes from
another encryptor, because the place of a key in a list is the index of its
owner; hence it comes from the key in question. `FewerNeverCancel` follows, as
every place of the list is then the index of some key part.

`GroupProofs` gives up the order. Documents come as they come: from encryptors
that were replaced, with damaged texts, with indexes that repeat.

| theorem | statement |
|---|---|
| `ArrangedAlike` | insertion of two vectors at the same indexes puts the items of each entry at the same place, whatever the indexes are, and none before its own index |
| `OnlyMutualMasksCancel` | if no key in a share stands before its owner's index, masks cancel only for key parts that stand at their indexes and list each other at theirs |
| `MutualMasksCancel` | the converse |
| `SumsAreOfGroups` | a number that the analysis gives, and that is not stray memory, is the sum over documents in index order whose key parts list each other |

The difficulty is that an insertion at an index that was passed already moves
everything behind it. `ArrangedAlike` is by induction over the entries
(`MadeRoom` says what one insertion does), so that cipher and key part of one
document stay together, provided that the same documents carry the label: that
is what `LengthsAgree`, a full count of ciphers, implies. That a damaged text
decrypts to nothing, also when the buffer still holds the cipher of another
label (core 184), is because a cipher knows its label (`SecretsMatch`). `OnlyMutualMasksCancel` is a
counting argument. Let n key parts be in the vector, each at or after its index.
A mask is added for every place of a list before the own index and subtracted
for every place after it, and each added one is matched with a subtracted one of
the same two keys. The added ones lie below the diagonal of parts and places,
since a part stands at its index or later; all of the triangle above it is
subtracted. The two triangles are of one size (`Mirrored`), so both are filled
and the part in place k has index k - 1 (`PartsInPlace`). The same count for the
pairs of keys that reach as high as a place t, by `HighMatched`, leaves nothing
but the key with index t - 1 at place t of the list of everybody before it
(`LaterInPlace`). The keys before the own place follow, as each of these pairs is
matched by a key part that lists the other way.

`AnalysisBatchesProofs` draws the conclusions for lists of every length:
`NumbersOfGroupsOnly` (`NumberOnlyForCoherentGroup`), `CoherentSummed`
(`CoherentBatchIsSummed`) and `DefinedWhenSorted`
(`DefinedIffInIndexOrder`: entry k goes to place `index` + 1, which is no further
than k only if nobody of a lower index is missing before it).  `NumbersOfGroupsOnly`
holds whatever the status is and whatever is in the list.  Its exception, a number
from memory that nobody wrote, is not an excuse: when the documents were taken in,
the arrays are long enough, no text is damaged and every key part has a share
(`Readable`), there is no such number (`NothingMissing`), so that one is always
traced to what is missing.  `CoherentSummed` is an equivalence: by
`MutualMasksCancel` a mutual group gives its sums and nothing else if each is
within the bound and the bound is below half of `ULongRange`; if not, some label
may end in an error, a bound from there on being handed on as a negative number
(`AsLong`).

### An application of the SDK

| theorem | statement |
|---|---|
| `SessionTypeCorrect` | `TypeOK` of `CoreSession` is an invariant |
| `SumsOfMutualGroups` | `SumOfMutualGroup` is an invariant, for any number of objects, keys, lists and documents |
| `CopiesAreIndependent` | `CopiesStandAlone` |

The inductive invariant `IInv` says what can be got out of the objects. `ObjectsOK`:
an object points to nothing or to an encryptor that is there. `EncryptorsOK`: a
share was computed from public data that was published, no key before its index.
`ReleasedOK`: a document was made whole by one encryptor (`Maker`), which may
be gone by now or have another share. `Identify`: a key has one index for ever,
wherever it is found. The last is what re-initialisation (core 43) could break
if keys were not fresh, and it must speak of objects, public data and documents
at once (`Owners`), because each outlives the others. `IInv` implies `NoKeyEarly`
for the makers of all documents (`MadeNotEarly`), with `NoPeers` for those from before the
share was set, so `SumsAreOfGroups` applies.

`CopiesStandAlone` names the object a call is made on. Any other object stays what
it was, unless the call is `provideParticipantsPublicData` on a copy of it: then it
has the same new share and is otherwise unchanged (or the process died of the list). Its
proof has one step per method: only `Provide` writes to an encryptor that exists
(`ProvideSets`), and who points to that encryptor gets what the called object
gets (`ProvideSharedByCopies`); every other method changes the members of its own
object, and memory that is still pointed to is not freed (`MemoryLeavesOthers`,
`KeptAsBefore`).

### The system

| theorem | statement |
|---|---|
| `TypeCorrect` | `TypeOK` is an invariant |
| `ListsAccepted` | `ListsAlwaysAccepted`: every list a client is given is one its `Core` takes in, index by index |
| `IndexesStayDistinct` | `IndexesDistinct`, while the first server process lives |
| `OneListOfKeys`, `OwnKeysListed` | `OneKeyListForAll` and `OwnKeyListed`, while the first server process lives |
| `AnswersAreSums` | `AnswerIsGroupSum`: a number that the analyst gets for documents in index order is the sum over one whole group, each of whom knew the others' keys |
| `DataStaysHidden` | `IndividualDataStaysHidden`: no choice of fewer stored documents than a batch decrypts to anything |
| `Refinement` | the system implements `SecureSum` as long as there is one server process |

There are two inductive invariants, both checked by TLC before they were proved.

`Inv` holds across restarts. Nothing in the code remembers where a value came
from: a public key or a document is copied from a `Core` into a request, from
there into the registry, into a reply and into another `Core`, any of which may
outlive the others. So `Inv` says of each of these places that what is in it is
what some client's `Core` says (`Genuine`, `GenuineDocument`), of each `Core` that
it carries its own key and, once it has a share, a list of keys whose owners
have the indexes at which they stand (`GenuineKeys`), and of each client that its
`Core` is as far as its program counter (`PlaceInv`). It is inductive because a
`Core` keeps its index for good and, from the share on, everything
(`GenuineStays`). It contains `Inv` of the server, whose handlers are the same
definitions, so that `AnalyticsServiceProofs` is used through `INSTANCE`.
`AnswersAreSums` needs nothing else: the handler asks for as many documents as a
batch has (server 224); every one comes from a client with a share, so that
`OrderlySum` applies and gives the sum, and `CancellingIsMutual` says that each of
them was computed from the others' keys. `DataStaysHidden` is `FewerNeverCancel`
for the stored documents.

`EpochInv` holds while one server process lives (`starts <= 1`) and is false
afterwards, as the next process gives the indexes away again. `OwnershipInv`:
wherever the index of a client is under way, the registry has this client at
this index. `KeysInv`: whoever has, or is about to have, a list of keys has the
first `BatchSize` clients of the registry, itself among them. `DormantInv`:
nobody has an answer before the first process runs. `KeysInv` is inductive
because a list is sent out when everybody's data is there, and the registry only
grows. `IndexesStayDistinct` and `OneListOfKeys` are what these say of the `Core`s.

`Refinement` takes the steps apart: `Submit` is `Release` (`SubmitReleases`), the
analysis is `Reveal` when it succeeds with documents in index order, since then
all of the group have released (`AllReleased`, `AskReveals`), and `Forget`
otherwise; any other step of the server is `Forget`, for the last answer is
replaced; everything else is a stutter. `SecureSum` without fairness is meant;
that the sum is learnt in the end is `system_timely`'s.

### Only model-checked

Liveness and everything about `ENABLED` are out of the prover's reach:
`EveryoneSubmits`, `SumUnlessOutOfOrder` and `Termination` are left to TLC. So are
the runs that expect a violation; a counterexample is a proof of its own. Every
invariant and every action property of the passing runs is proved, and the
refinement of `SecureSum`, which is stated without fairness.

`IndexesDistinct`, `OneKeyListForAll`, `OwnKeyListed` and the refinement are proved
for the first server process (`starts <= 1`). This is no weakness of the proof:
after a restart they are false, see section 3. The runs that check them have
one process for the same reason.

## 5. Not modelled

* The text of JSON and base64, octet by octet: a body is malformed, or a record
  with or without its members; a base64 text is whole or damaged. Public data
  without a key, and damaged public keys, are not among the inputs.
* The order of labels in the reply (core 217), which `README.md` 79 and
  `e2e_tests.cpp` 48-52 assume; a result is a function from labels.
* The loss of a value of more than 32 bits where `unsigned long` has no more
  (`dmcfe_encryptor.cpp` 68): `encrypt` truncates, but the values in the runs
  fit. Weights other than one.
* `SchemeParamsModel`'s constructor with three arguments, which ignores them and
  which nobody calls; getters, setters, printing.
* CiFEr's arithmetic, and whether DMCFE is secure.
* Build scripts, CMake files, documentation; the end-to-end test, which is one
  behaviour of `CoreSession`.

## 6. Plan

Done: `Dmcfe`, `InnerProduct`, `Core`, `CoreSession`, `AnalysisBatches`,
`AnalyticsService`, `Prinsight`, `SecureSum`, their runs, and the theorems of
section 4. What is left:

1. An abstract registry (a partial function from client ids to indexes, and a
   log of documents) that `AnalyticsService` is proved to implement.
2. The assumptions of `AnalyticsAnswers` discharged for the composed system by
   instantiation: `AnswersAreSums` has its own route today.
3. A lower bound on what the application of the SDK can learn: fewer documents
   than a group decrypt to nothing in `CoreSession`, as `DataStaysHidden` says of
   the system.
