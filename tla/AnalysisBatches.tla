-------------------------- MODULE AnalysisBatches --------------------------
(***************************************************************************)
(* getInnerProductAnalysis over every bounded list of analytics data       *)
(* documents.  The list `ds` grows by any document at a time, in any       *)
(* order, with repetitions: what a caller of the SDK may have collected    *)
(* from clients that were restarted, initialised twice, had no share yet,  *)
(* or measured different labels.                                           *)
(***************************************************************************)
EXTENDS InnerProduct

CONSTANTS
  Encryptors,   \* the encryptors that clients have had, with a share or without
  Documents,    \* the analytics data documents that clients may produce
  MaxBatch,     \* bound: documents in one list
  Policies,     \* the lengths of the policies an analysis is asked for with
  Bounds        \* the bounds it is asked for with

ASSUME BatchesAssumption ==
  /\ NoKeyEarly(Encryptors)
  /\ \A d \in Documents : \E e \in Encryptors : MadeBy(e, d)
  /\ MaxBatch \in Nat /\ Policies \subseteq Nat /\ Bounds \subseteq Nat

VARIABLE ds

Init == ds = <<>>

Collect ==
  /\ Len(ds) < MaxBatch
  /\ \E d \in Documents : ds' = Append(ds, d)

Spec == Init /\ [][Collect]_ds

----------------------------------------------------------------------------
InIndexOrder == \A k \in DOMAIN ds : ds[k].index = k - 1

Whole == \A k \in DOMAIN ds : Complete(ds[k]) /\ Len(ds[k].fdKey) = 2

SameLabels ==
  \A k \in DOMAIN ds : Complete(ds[k]) /\ DOMAIN ds[k].encData = Labels(ds)

\* Every array that is read has the elements that are read of it.
ReadsInside(policy) ==
  /\ Gathering(ds) = "kOk"
  /\ \A l \in Labels(ds) : LengthsAgree(Ciphers(ds, l), FdKeys(ds), policy)

\* A group has a document of every index below its size.
Groups(n) ==
  {g \in [1 .. n -> DOMAIN ds] : \A m \in 1 .. n : ds[g[m]].index = m - 1}

Undamaged(d, label) ==
  Complete(d) /\ label \in DOMAIN d.encData /\ Blank \notin {d.encData[label], Joined(d.fdKey)}

KeyPart(d) == Joined(d.fdKey)[1]

\* Every member encrypted with the encryptor its key part comes from, and
\* computed its share from the public keys the others really own.
Coherent(g, label) ==
  \A m \in DOMAIN g :
    /\ Undamaged(ds[g[m]], label)
    /\ ds[g[m]].encData[label][1].key = KeyPart(ds[g[m]]).key
    /\ DOMAIN KeyPart(ds[g[m]]).peers = DOMAIN g
    /\ KeyPart(ds[g[m]]).policy = Len(g)
    /\ \A j \in DOMAIN g \ {m} :
         Undamaged(ds[g[j]], label)
           => KeyPart(ds[g[m]]).peers[j] = KeyPart(ds[g[j]]).key

\* The weighted sum the analysis is about: every participant weighs one.
SumOf(g, label) ==
  MapThenSumSet(LAMBDA m : ds[g[m]].encData[label][1].value, DOMAIN g)

Everyone == [k \in DOMAIN ds |-> k]

(***************************************************************************)
(* A coherent list in index order, with the same labels everywhere, gives  *)
(* the sums and nothing else, exactly when they are within the bound and   *)
(* the bound is below half the range of an unsigned long: the vectors that *)
(* core.cpp:199-213 builds by insertion hold every cipher and key exactly  *)
(* once, and mpz_set_si (dmcfe_decryptor.cpp:45) turns a larger bound into *)
(* a negative one, within which no sum is.                                 *)
(***************************************************************************)
CoherentBatchIsSummed ==
  \A bound \in Bounds :
    (/\ Len(ds) > 0 /\ InIndexOrder /\ Whole /\ SameLabels
     /\ \A l \in Labels(ds) : Coherent(Everyone, l)
     /\ bound < ULongRange)
    => (getInnerProductAnalysis(ds, Len(ds), bound)
          = {Analysis("kOk", [l \in Labels(ds) |-> SumOf(Everyone, l)])}
        <=> \A l \in Labels(ds) :
              SumOf(Everyone, l) <= bound /\ 2 * bound < ULongRange)

\* Nothing that the decryption of a label reads is damaged, absent, or from before
\* a share was set.
Readable(policy, label) ==
  /\ Gathering(ds) = "kOk"
  /\ LengthsAgree(Ciphers(ds, label), FdKeys(ds), policy)
  /\ \A k \in DOMAIN ds : Undamaged(ds[k], label) /\ KeyPart(ds[k]).peers # NoPeers

(***************************************************************************)
(* Whatever is in the list, and however the analysis ends: a number in its *)
(* result is the sum over one undamaged document of every index below the  *)
(* length of the policy, of participants that knew each other's keys.  A   *)
(* document counted twice, a key that its owner has replaced since, or a   *)
(* cipher left in the buffer by another label (core.cpp:184) never adds to *)
(* it.  The exception is a number from memory that nobody wrote, and there *)
(* is none without a cause: an insertion or an array past its end, a text  *)
(* that the decoder gave up (dmcfe.cpp:39, 103), a key part from before    *)
(* the share (core.cpp:138).                                               *)
(***************************************************************************)
NumberOnlyForCoherentGroup ==
  \A policy \in Policies, bound \in Bounds :
    \A o \in getInnerProductAnalysis(ds, policy, bound) :
      \A l \in DOMAIN o.result :
        (o.result[l] # Unpredictable \/ Readable(policy, l))
        => \E g \in Groups(policy) :
             Coherent(g, l) /\ o.result[l] = SumOf(g, l) % ULongRange

(***************************************************************************)
(* With one document per participant the insertions of core.cpp:204 and    *)
(* core.cpp:213 stay inside the vectors exactly when the documents are in  *)
(* index order: inserting at the index does not sort a list, it only       *)
(* accepts a sorted one.                                                   *)
(***************************************************************************)
DefinedIffInIndexOrder ==
  (/\ Whole /\ SameLabels
   /\ {ds[k].index : k \in DOMAIN ds} = 0 .. (Len(ds) - 1))
  => ((Gathering(ds) = "kOk") <=> InIndexOrder)

(***************************************************************************)
(* "check if length of ciphers, keys and policies are same"                *)
(* (dmcfe_decryptor.cpp:22): the decryptor reads no cipher that is not     *)
(* there.  The code has no such check: a label that one participant did    *)
(* not measure leaves its cipher list shorter than the list of keys.       *)
(***************************************************************************)
LengthsChecked ==
  (Len(ds) > 0 /\ Gathering(ds) = "kOk") => ReadsInside(Len(ds))
=============================================================================
