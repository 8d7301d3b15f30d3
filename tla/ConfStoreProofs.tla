-------------------------- MODULE ConfStoreProofs ---------------------------
(***************************************************************************)
(* The configuration store implements the register ConfRegister, and a     *)
(* save that went through undisturbed survives a restart, for any profiles *)
(* and secrets and any number of saves, failures and crashes.              *)
(***************************************************************************)
EXTENDS ConfStore, SequenceTheorems, TLAPS

Shape ==
    /\ pc \in {"idle", "start", "created", "written", "removed", "secrets", "down"}
    /\ savedState \in NetState
    /\ target \in NetState \cup {None}
    /\ stateFile \in Contents /\ secretFile \in Contents
    /\ lateStates \in Seq(NetState)
    /\ lateSecrets \in NetState \cup {None}
    /\ pieces \subseteq NetState

(* Every profile of f is that of a state in ps, with its secret hidden; every *)
(* entry of x is the secret part of one.                                     *)
Hides(f, ps) == \A i \in Ifaces : f[i] # Missing => \E q \in ps : f[i] = HideProfile(q[i])
Parts(x, ps) == \A i \in Ifaces : x[i] # Missing => \E q \in ps : x[i] = SecretPart(q[i])

(* The files, and what is still to be written, hold nothing but pieces.      *)
FromPieces ==
    /\ stateFile \notin NoData => Hides(stateFile, pieces)
    /\ secretFile \notin NoData => Parts(secretFile, pieces)
    /\ \A k \in 1..Len(lateStates) : Hides(lateStates[k], pieces)
    /\ lateSecrets # None => Parts(lateSecrets, pieces)

Saving == {"start", "created", "written", "removed", "secrets"}

(* The inductive invariant of the refinement.                                *)
IInv ==
    /\ Shape
    /\ FromPieces
    /\ target # None <=> pc \in Saving
    /\ pc \in Saving \ {"start"} => target \in pieces
    /\ Durable => pieces = {savedState}

-----------------------------------------------------------------------------
(* Data.                                                                     *)

(* Hiding, splitting and merging profiles give profiles.                     *)
LEMMA ProfileTypes ==
    ASSUME ConfAssumption, NEW p \in Profile
    PROVE  /\ HideProfile(p) \in Profile /\ HideProfile(p) # Missing
           /\ SecretPart(p) \in Profile \cup {Missing}
           /\ \A x \in Profile : MergeProfile(p, x) \in Profile
<1>1. HideProfile(p) \in Profile /\ HideProfile(p) # Missing
  BY DEF ConfAssumption, Profile, HideProfile
<1>2. SecretPart(p) \in Profile \cup {Missing}
  BY <1>1 DEF Profile, SecretPart
<1>3. ASSUME NEW x \in Profile
      PROVE  MergeProfile(p, x) \in Profile
  <2> DEFINE conf == IF x.conf = Blank THEN p.conf ELSE x.conf
             secret == IF x.secret \notin {NoSecret, Hidden} THEN x.secret
                       ELSE IF x.net = p.net THEN p.secret ELSE NoSecret
  <2>1. x # Missing /\ p # Missing
    BY DEF ConfAssumption
  <2>2. MergeProfile(p, x) = [x EXCEPT !.conf = conf, !.secret = secret, !.named = p.named]
    BY <2>1 DEF MergeProfile
  <2>3. /\ conf \in Confs \cup {Blank} /\ secret \in Secrets \cup {NoSecret, Hidden}
        /\ p.named \in BOOLEAN
    BY DEF Profile
  <2> HIDE DEF conf, secret
  <2> QED
    BY <2>2, <2>3, Zenon DEF Profile
<1> QED
  BY <1>1, <1>2, <1>3

(* So do they for the states they are parts of.                              *)
LEMMA StateTypes ==
    ASSUME ConfAssumption, NEW s \in NetState
    PROVE  /\ HideSecrets(s) \in NetState
           /\ ExtractSecrets(s) \in NetState
           /\ DiscardAbsent(s) \in NetState
           /\ \A x \in NetState : Merge(s, x) \in NetState
<1>1. \A i \in Ifaces : s[i] \in Profile \cup {Missing}
  BY DEF NetState
<1>2. \A i \in Ifaces : HideProfile(s[i]) \in Profile \cup {Missing}
  BY <1>1, ProfileTypes DEF HideProfile
<1>3. \A i \in Ifaces : SecretPart(s[i]) \in Profile \cup {Missing}
  BY <1>1, ProfileTypes DEF SecretPart
<1>4. ASSUME NEW x \in NetState, NEW i \in Ifaces
      PROVE  MergeProfile(s[i], x[i]) \in Profile \cup {Missing}
  <2>1. x[i] \in Profile \cup {Missing}
    BY DEF NetState
  <2>2. CASE x[i] = Missing
    BY <1>1, <2>2 DEF MergeProfile
  <2>3. CASE s[i] = Missing
    BY <2>1, <2>3 DEF MergeProfile
  <2>4. CASE x[i] \in Profile /\ s[i] \in Profile
    BY <2>4, ProfileTypes, Zenon
  <2> QED
    BY <1>1, <2>1, <2>2, <2>3, <2>4
<1>5. \A i \in Ifaces : DiscardAbsent(s)[i] \in Profile \cup {Missing}
  BY <1>1 DEF DiscardAbsent
<1> QED
  BY <1>2, <1>3, <1>4, <1>5 DEF NetState, HideSecrets, ExtractSecrets, DiscardAbsent, Merge

(* The empty state is a state, which holds pieces of anything.               *)
LEMMA NoStateHolds ==
    /\ NoState \in NetState
    /\ \A ps : Hides(NoState, ps) /\ Parts(NoState, ps)
  BY DEF NoState, NetState, Hides, Parts

(* Taking each profile from one of two states gives a state, of pieces of    *)
(* what both are pieces of.                                                  *)
LEMMA MixesHold ==
    ASSUME NEW a \in NetState, NEW b \in NetState, NEW m \in Mixes(a, b), NEW ps
    PROVE  /\ m \in NetState
           /\ Hides(a, ps) /\ Hides(b, ps) => Hides(m, ps)
           /\ Parts(a, ps) /\ Parts(b, ps) => Parts(m, ps)
<1>1. PICK K \in SUBSET Ifaces : m = [i \in Ifaces |-> IF i \in K THEN a[i] ELSE b[i]]
  BY DEF Mixes
<1> QED
  BY <1>1 DEF NetState, Hides, Parts

(* The two halves of a state of ps are pieces of it.                         *)
LEMMA HalvesHold ==
    ASSUME NEW s \in NetState, NEW ps, s \in ps
    PROVE  Hides(HideSecrets(s), ps) /\ Parts(ExtractSecrets(s), ps)
  BY DEF Hides, Parts, HideSecrets, ExtractSecrets

(* More states leave pieces what they are.                                   *)
LEMMA PiecesGrow ==
    ASSUME NEW f, NEW ps, NEW qs, ps \subseteq qs
    PROVE  (Hides(f, ps) => Hides(f, qs)) /\ (Parts(f, ps) => Parts(f, qs))
  BY DEF Hides, Parts

(* extract_secrets() and merge(): a state whose absent profiles have no      *)
(* secrets is read back from its two halves.                                 *)
LEMMA HalvesMakeWhole ==
    ASSUME ConfAssumption, NEW s \in NetState, Lossless(s)
    PROVE  Merge(HideSecrets(s), ExtractSecrets(s)) = s
<1>1. ASSUME NEW i \in Ifaces
      PROVE  MergeProfile(HideProfile(s[i]), SecretPart(s[i])) = s[i]
  <2>1. s[i] \in Profile \cup {Missing}
    BY DEF NetState
  <2>2. CASE s[i] = Missing
    BY <2>2 DEF MergeProfile, HideProfile, SecretPart
  <2>3. CASE s[i] \in Profile
    <3>1. s[i] # Missing
      BY <2>3 DEF ConfAssumption
    <3>2. ~s[i].up => s[i].secret \in {NoSecret, Hidden}
      BY <3>1 DEF Lossless
    <3> QED
      BY <2>3, <3>1, <3>2, Zenon DEF ConfAssumption, Profile, MergeProfile, HideProfile, SecretPart
  <2> QED
    BY <2>1, <2>2, <2>3
<1>2. s = [i \in Ifaces |-> s[i]]
  BY DEF NetState
<1> QED
  BY <1>1, <1>2 DEF Merge, HideSecrets, ExtractSecrets

(* What is read from a state file and a secrets file that hold pieces of ps  *)
(* recombines pieces of ps: no profile is made up and no secret is taken to  *)
(* another network.                                                          *)
LEMMA MergeRecombines ==
    ASSUME ConfAssumption, NEW ps, ps \subseteq NetState,
           NEW f \in NetState, NEW x \in NetState, Hides(f, ps), Parts(x, ps)
    PROVE  Register!Recombines(Merge(f, x), ps)
<1> SUFFICES ASSUME NEW i \in Ifaces, MergeProfile(f[i], x[i]) # Missing
             PROVE  LET m == MergeProfile(f[i], x[i])
                    IN  /\ \E p \in Register!Of(ps, i) : m.conf \in {p.conf, Blank}
                        /\ \E p \in Register!Of(ps, i) :
                              m.net = p.net /\ m.secret \in {p.secret, NoSecret, Hidden}
  BY DEF Register!Recombines, Merge
<1> DEFINE m == MergeProfile(f[i], x[i])
<1>1. ASSUME NEW q \in ps, q[i] # Missing
      PROVE  q[i] \in Register!Of(ps, i) /\ q[i] \in Profile
  BY <1>1 DEF Register!Of, NetState
<1>2. CASE x[i] = Missing
  <2>1. m = f[i] /\ f[i] # Missing
    BY <1>2 DEF MergeProfile
  <2>2. PICK q \in ps : f[i] = HideProfile(q[i])
    BY <2>1 DEF Hides
  <2>3. q[i] # Missing
    BY <2>1, <2>2 DEF HideProfile
  <2>4. /\ m.conf = q[i].conf /\ m.net = q[i].net
        /\ m.secret \in {q[i].secret, Hidden}
    BY <1>1, <2>1, <2>2, <2>3 DEF HideProfile, Profile
  <2> QED
    BY <1>1, <2>3, <2>4
<1>3. CASE x[i] # Missing
  <2>1. PICK r \in ps : x[i] = SecretPart(r[i])
    BY <1>3 DEF Parts
  <2>2. r[i] # Missing
    BY <1>3, <2>1 DEF SecretPart
  <2>3. /\ x[i].conf \in {r[i].conf, Blank} /\ x[i].net = r[i].net
        /\ x[i].secret \in {r[i].secret, Hidden}
        /\ x[i] \in Profile
    <3>1. r[i] \in Profile
      BY <1>1, <2>2
    <3> QED
      BY <1>3, <2>1, <2>2, <3>1 DEF SecretPart, HideProfile, Profile
  <2>4. CASE f[i] = Missing
    <3>1. m = x[i]
      BY <1>3, <2>4 DEF MergeProfile
    <3> QED
      BY <1>1, <2>2, <2>3, <3>1
  <2>5. CASE f[i] # Missing
    <3>1. PICK q \in ps : f[i] = HideProfile(q[i])
      BY <2>5 DEF Hides
    <3>2. q[i] # Missing
      BY <2>5, <3>1 DEF HideProfile
    <3>3. q[i] \in Profile
      BY <1>1, <3>2
    <3>4. f[i].conf = q[i].conf /\ f[i].secret \in {NoSecret, Hidden} /\ f[i] \in Profile
      BY <3>1, <3>2, <3>3 DEF HideProfile, Profile
    <3>5. /\ m.conf \in {f[i].conf, x[i].conf} /\ m.net = x[i].net
          /\ m.secret \in {x[i].secret, f[i].secret, NoSecret}
      BY <1>3, <2>3, <2>5, <3>4 DEF MergeProfile, Profile
    <3>6. \E p \in Register!Of(ps, i) : m.conf \in {p.conf, Blank}
      BY <1>1, <2>2, <2>3, <3>2, <3>4, <3>5
    <3>7. m.net = r[i].net /\ m.secret \in {r[i].secret, NoSecret, Hidden}
      BY <2>3, <3>4, <3>5
    <3> QED
      BY <1>1, <2>2, <3>6, <3>7
  <2> QED
    BY <2>4, <2>5
<1> QED
  BY <1>2, <1>3

(* Leaving out one element of a sequence.                                    *)
LEMMA RemoveAt ==
    ASSUME NEW T, NEW q \in Seq(T), NEW k \in 1..Len(q)
    PROVE  LET r == SubSeq(q, 1, k - 1) \o SubSeq(q, k + 1, Len(q))
           IN  /\ r \in Seq(T)
               /\ \A j \in 1..Len(r) : \E l \in 1..Len(q) : r[j] = q[l]
               /\ Len(q) = 1 => r = <<>>
<1> DEFINE a == SubSeq(q, 1, k - 1)
           b == SubSeq(q, k + 1, Len(q))
           r == a \o b
<1>0. Len(q) \in Nat /\ k \in Nat /\ k <= Len(q) /\ k >= 1
  OBVIOUS
<1>1. a \in Seq(T) /\ Len(a) = k - 1 /\ \A j \in 1..(k - 1) : a[j] = q[j]
  BY <1>0, SubSeqProperties
<1>2. b \in Seq(T) /\ Len(b) = Len(q) - k /\ \A j \in 1..(Len(q) - k) : b[j] = q[k + j]
  BY <1>0, SubSeqProperties
<1> HIDE DEF a, b
<1>3. /\ r \in Seq(T) /\ Len(r) = Len(a) + Len(b)
      /\ \A j \in 1..(Len(a) + Len(b)) : r[j] = IF j <= Len(a) THEN a[j] ELSE b[j - Len(a)]
  BY ONLY <1>1, <1>2, ConcatProperties, Zenon
<1> HIDE DEF r
<1>4. ASSUME NEW j \in 1..Len(r)
      PROVE  \E l \in 1..Len(q) : r[j] = q[l]
  <2>1. CASE j <= k - 1
    <3>1. j \in 1..(k - 1) /\ j \in 1..Len(q)
      BY <1>0, <1>1, <1>2, <1>3, <2>1
    <3>2. r[j] = a[j]
      BY <1>0, <1>1, <1>2, <1>3, <2>1, Zenon
    <3> QED
      BY <1>1, <3>1, <3>2
  <2>2. CASE j > k - 1
    <3>1. r[j] = b[j - (k - 1)] /\ j - (k - 1) \in 1..(Len(q) - k)
      BY <1>0, <1>1, <1>2, <1>3, <2>2
    <3>2. r[j] = q[k + (j - (k - 1))]
      BY <1>2, <3>1
    <3>3. k + (j - (k - 1)) \in 1..Len(q)
      BY <1>0, <3>1
    <3> QED
      BY <3>2, <3>3
  <2> QED
    BY <1>0, <1>3, <2>1, <2>2
<1>5. Len(q) = 1 => r = <<>>
  BY <1>0, <1>1, <1>2, <1>3, EmptySeq
<1> QED
  BY <1>3, <1>4, <1>5, Zenon DEF r, a, b

(* What a write leaves in the state file.                                    *)
LEMMA StateFileWritten ==
    ASSUME ConfAssumption, NEW old \in Contents, NEW new \in NetState, NEW ps,
           old \notin NoData => Hides(old, ps), Hides(new, ps),
           NEW f \in Overlay(old, new) \cup Partial(new)
    PROVE  f \in Contents /\ (f \notin NoData => Hides(f, ps))
<1>1. CASE f \in NoData
  BY <1>1 DEF Contents
<1>2. CASE f \notin NoData
  <2>1. f = new \/ (old \in NetState /\ old \notin NoData /\ f \in Mixes(old, new)) \/ f \in Mixes(NoState, new)
    BY <1>2 DEF Overlay, Partial, NoData, Contents
  <2> QED
    BY <2>1, MixesHold, NoStateHolds DEF Contents
<1> QED
  BY <1>1, <1>2

(* And in the secrets file.                                                  *)
LEMMA SecretFileWritten ==
    ASSUME ConfAssumption, NEW new \in NetState, NEW ps, Parts(new, ps),
           NEW f \in Partial(new) \cup {new}
    PROVE  f \in Contents /\ (f \notin NoData => Parts(f, ps))
<1>1. CASE f \in NoData
  BY <1>1 DEF Contents
<1>2. CASE f \notin NoData
  <2>1. f = new \/ f \in Mixes(NoState, new)
    BY <1>2 DEF Partial, NoData
  <2> QED
    BY <2>1, MixesHold, NoStateHolds DEF Contents
<1> QED
  BY <1>1, <1>2

(* Load() gives a state that recombines what the files hold.                 *)
LEMMA LoadRecombines ==
    ASSUME ConfAssumption, IInv
    PROVE  /\ Load(stateFile, secretFile) \in NetState
           /\ Register!Recombines(Load(stateFile, secretFile), pieces)
<1> DEFINE f == Parsed(stateFile)
           x == Parsed(secretFile)
<1>1. f \in NetState /\ Hides(f, pieces)
  BY NoStateHolds DEF IInv, Shape, FromPieces, Contents, Parsed
<1>2. x \in NetState /\ Parts(x, pieces)
  BY NoStateHolds DEF IInv, Shape, FromPieces, Contents, Parsed
<1>3. pieces \subseteq NetState
  BY DEF IInv, Shape
<1>4. Merge(f, x) \in NetState /\ Register!Recombines(Merge(f, x), pieces)
  BY <1>1, <1>2, <1>3, StateTypes, MergeRecombines
<1>5. Register!Recombines(NoState, pieces)
  BY DEF Register!Recombines, NoState
<1> QED
  BY <1>4, <1>5, NoStateHolds DEF Load

(* A durable value is loaded as it is.                                       *)
LEMMA LoadDurable ==
    ASSUME ConfAssumption, IInv, Durable
    PROVE  Load(stateFile, secretFile) = savedState
<1>1. CASE stateFile = NoFile /\ savedState = NoState
  BY <1>1 DEF Load
<1>2. CASE stateFile = HideSecrets(savedState) /\ secretFile = ExtractSecrets(savedState)
  <2>1. stateFile \in NetState /\ secretFile \in NetState
    BY <1>2, StateTypes DEF IInv, Shape
  <2>2. stateFile \notin NoData /\ secretFile \notin NoData
    BY <2>1 DEF ConfAssumption
  <2>3. Load(stateFile, secretFile) = Merge(stateFile, secretFile)
    BY <2>2 DEF Load, Parsed, NoData
  <2> QED
    BY <1>2, <2>3, HalvesMakeWhole DEF IInv, Shape, Durable
<1> QED
  BY <1>1, <1>2 DEF Durable

-----------------------------------------------------------------------------
(* The inductive invariant.                                                  *)

(* The store begins empty.                                                   *)
LEMMA InitInv == ASSUME ConfAssumption, Init PROVE IInv
  BY NoStateHolds, EmptySeq
  DEF Init, IInv, Shape, FromPieces, Contents, NoData, Saving, Durable

(* A step after which the files hold ps or exactly the value: it is enough   *)
(* that they hold ps.                                                        *)
LEMMA Remembered ==
    ASSUME ConfAssumption, NEW ps \in SUBSET NetState, Remember(ps), Shape',
           stateFile' \notin NoData => Hides(stateFile', ps),
           secretFile' \notin NoData => Parts(secretFile', ps),
           \A k \in 1..Len(lateStates') : Hides(lateStates'[k], ps),
           lateSecrets' # None => Parts(lateSecrets', ps)
    PROVE  FromPieces' /\ (Durable' => pieces' = {savedState'})
<1>1. CASE Durable'
  <2>1. pieces' = {savedState'}
    BY <1>1 DEF Remember
  <2>2. Hides(HideSecrets(savedState'), pieces') /\ Parts(ExtractSecrets(savedState'), pieces')
    BY <2>1, HalvesHold DEF Shape
  <2> QED
    BY <1>1, <2>1, <2>2 DEF FromPieces, Durable, NoData
<1>2. CASE ~Durable'
  BY <1>2 DEF Remember, FromPieces
<1> QED
  BY <1>1, <1>2

(* Every step keeps the invariant and is a step of the register, or none.    *)
LEMMA Step ==
    ASSUME ConfAssumption, IInv, Next
    PROVE  IInv' /\ [Register!Next]_(Register!vars)
<1> USE DEF Saving
<1>0. Shape /\ FromPieces
  BY DEF IInv
<1>1. ASSUME NEW s \in SaveInputs, SaveState(s)
      PROVE  IInv' /\ Register!Begin
  <2>1. DiscardAbsent(s) \in NetState /\ DiscardAbsent(s) # None
    BY StateTypes DEF ConfAssumption
  <2>2. Durable' <=> Durable
    BY <1>1 DEF SaveState, disk, Durable
  <2>3. IInv'
    BY <1>1, <2>1, <2>2 DEF SaveState, disk, IInv, Shape, FromPieces
  <2>4. target = None
    BY <1>1 DEF SaveState, IInv
  <2> QED
    BY <1>1, <2>1, <2>2, <2>3, <2>4, Zenon DEF SaveState, Register!Begin
<1>2. ASSUME CreateStateFile
      PROVE  IInv' /\ Register!Reach
  <2>1. ~Durable' /\ target \in NetState /\ target # None
    BY <1>2 DEF CreateStateFile, Durable, IInv, Shape, ConfAssumption
  <2>2. pieces \subseteq pieces' /\ target \in pieces' /\ pieces' \subseteq NetState
    BY <1>0, <1>2, <2>1 DEF CreateStateFile, Shape
  <2>3. FromPieces'
    BY <1>0, <1>2, <2>2, PiecesGrow DEF CreateStateFile, FromPieces, NoData
  <2>4. IInv'
    BY <1>2, <2>1, <2>2, <2>3 DEF CreateStateFile, IInv, Shape, Contents, NoData
  <2> QED
    BY <1>2, <2>1, <2>4 DEF CreateStateFile, Register!Reach, Register!Files
<1>3. ASSUME WriteState
      PROVE  IInv' /\ UNCHANGED Register!vars
  <2>1. ~Durable /\ ~Durable' /\ target \in NetState /\ target \in pieces
    BY <1>3 DEF WriteState, Durable, IInv, Shape, ConfAssumption
  <2>2. HideSecrets(target) \in NetState /\ Hides(HideSecrets(target), pieces)
    BY <2>1, StateTypes, HalvesHold
  <2>3. /\ lateStates' \in Seq(NetState)
        /\ \A k \in 1..Len(lateStates') : Hides(lateStates'[k], pieces)
    BY <1>0, <1>3, <2>2, AppendProperties DEF WriteState, Shape, FromPieces
  <2>4. IInv'
    BY <1>3, <2>1, <2>3 DEF WriteState, IInv, Shape, FromPieces
  <2>5. UNCHANGED Durable
    BY <2>1 DEF Durable
  <2> QED
    BY <1>3, <2>4, <2>5 DEF WriteState, Register!vars
<1>4. ASSUME RemoveSecretFile \/ CreateSecretFile
      PROVE  IInv' /\ UNCHANGED Register!vars
  <2>1. ~Durable /\ ~Durable'
    BY <1>4 DEF RemoveSecretFile, CreateSecretFile, Durable
  <2>2. IInv'
    BY <1>4, <2>1 DEF RemoveSecretFile, CreateSecretFile, IInv, Shape, FromPieces, Contents, NoData
  <2>3. UNCHANGED Durable
    BY <2>1 DEF Durable
  <2> QED
    BY <1>4, <2>2, <2>3 DEF RemoveSecretFile, CreateSecretFile, Register!vars
<1>5. ASSUME WriteSecrets
      PROVE  IInv' /\ Register!Acknowledge
  <2>1. target \in NetState /\ target \in pieces
    BY <1>5 DEF WriteSecrets, IInv, Shape, ConfAssumption
  <2>2. /\ ExtractSecrets(target) \in NetState /\ ExtractSecrets(target) # None
        /\ Parts(ExtractSecrets(target), pieces)
    BY <2>1, StateTypes, HalvesHold DEF ConfAssumption
  <2>3. ~Durable'
    BY <1>5, <2>2 DEF WriteSecrets, Durable
  <2>4. IInv'
    BY <1>5, <2>1, <2>2, <2>3 DEF WriteSecrets, IInv, Shape, FromPieces
  <2> QED
    BY <1>5, <2>1, <2>3, <2>4 DEF WriteSecrets, Register!Acknowledge, Register!Files
<1>6. ASSUME SaveFails
      PROVE  IInv' /\ Register!GiveUp
  <2>1. Shape'
    BY <1>0, <1>6 DEF SaveFails, disk, Shape, Remember
  <2>2. FromPieces' /\ (Durable' => pieces' = {savedState'})
    BY <1>0, <1>6, <2>1, Remembered DEF SaveFails, disk, Shape, FromPieces
  <2>3. IInv'
    BY <1>6, <2>1, <2>2 DEF SaveFails, IInv
  <2>4. target # None
    BY <1>6 DEF SaveFails, IInv, Shape
  <2> QED
    BY <1>6, <2>3, <2>4 DEF SaveFails, Remember, Register!GiveUp, Register!Files
<1>7. ASSUME NEW k \in 1..MaxLate, NEW whole \in BOOLEAN, LandState(k, whole)
      PROVE  IInv' /\ Register!Settle
  <2>1. k \in 1..Len(lateStates) /\ lateStates[k] \in NetState /\ Hides(lateStates[k], pieces)
    BY <1>0, <1>7 DEF LandState, Shape, FromPieces
  <2>2. /\ lateStates' \in Seq(NetState)
        /\ \A j \in 1..Len(lateStates') : \E l \in 1..Len(lateStates) : lateStates'[j] = lateStates[l]
    BY <1>0, <1>7, <2>1, RemoveAt, Zenon DEF LandState, Shape
  <2>3. stateFile' \in Overlay(stateFile, lateStates[k]) \cup Partial(lateStates[k])
    BY <1>7 DEF LandState
  <2>4. stateFile' \in Contents /\ (stateFile' \notin NoData => Hides(stateFile', pieces))
    BY <1>0, <2>1, <2>3, StateFileWritten DEF Shape, FromPieces
  <2>5. Shape'
    BY <1>0, <1>7, <2>2, <2>4 DEF LandState, Shape, Remember
  <2>6. FromPieces' /\ (Durable' => pieces' = {savedState'})
    BY <1>0, <1>7, <2>2, <2>4, <2>5, Remembered, Zenon DEF LandState, Shape, FromPieces
  <2>7. ~Durable
    BY <2>1, EmptySeq DEF Durable
  <2>8. IInv'
    BY <1>7, <2>5, <2>6, <2>7 DEF LandState, IInv, Remember, Durable
  <2> QED
    BY <1>7, <2>7, <2>8 DEF LandState, Remember, Register!Settle, Register!Files
<1>8. ASSUME NEW whole \in BOOLEAN, LandSecrets(whole)
      PROVE  IInv' /\ Register!Settle
  <2>1. lateSecrets \in NetState /\ Parts(lateSecrets, pieces)
    BY <1>0, <1>8 DEF LandSecrets, Shape, FromPieces
  <2>2. secretFile' \in Partial(lateSecrets) \cup {lateSecrets}
    BY <1>8 DEF LandSecrets
  <2>3. secretFile' \in Contents /\ (secretFile' \notin NoData => Parts(secretFile', pieces))
    BY <2>1, <2>2, SecretFileWritten
  <2>4. Shape'
    BY <1>0, <1>8, <2>3 DEF LandSecrets, Shape, Remember
  <2>5. FromPieces' /\ (Durable' => pieces' = {savedState'})
    BY <1>0, <1>8, <2>3, <2>4, Remembered DEF LandSecrets, Shape, FromPieces
  <2>6. ~Durable
    BY <1>8 DEF LandSecrets, Durable
  <2>7. IInv'
    BY <1>8, <2>4, <2>5, <2>6 DEF LandSecrets, IInv, Remember, Durable
  <2> QED
    BY <1>8, <2>6, <2>7 DEF LandSecrets, Remember, Register!Settle, Register!Files
<1>9. ASSUME Crash
      PROVE  IInv' /\ [Register!Next]_(Register!vars)
  <2>1. Shape'
    BY <1>0, <1>9, EmptySeq DEF Crash, Shape, Remember
  <2>2. FromPieces' /\ (Durable' => pieces' = {savedState'})
    BY <1>0, <1>9, <2>1, EmptySeq, Remembered DEF Crash, Shape, FromPieces
  <2>3. IInv'
    BY <1>9, <2>1, <2>2 DEF Crash, IInv
  <2>4. Register!Files(pieces)
    BY <1>9 DEF Crash, Remember, Register!Files
  <2>5. CASE target # None
    BY <1>9, <2>3, <2>4, <2>5 DEF Crash, Register!GiveUp, Register!Next
  <2>6. CASE target = None /\ ~Durable
    BY <1>9, <2>3, <2>4, <2>6 DEF Crash, Register!Settle, Register!Next
  <2>7. CASE target = None /\ Durable
    <3>1. Durable'
      BY <1>9, <2>7 DEF Crash, Durable
    <3>2. UNCHANGED Durable
      BY <2>7, <3>1 DEF Durable
    <3>3. pieces' = pieces
      BY <1>9, <2>7, <3>1 DEF Crash, Remember, IInv
    <3> QED
      BY <1>9, <2>3, <2>7, <3>2, <3>3 DEF Crash, Register!vars
  <2> QED
    BY <2>3, <2>5, <2>6, <2>7
<1>10. ASSUME Stop
       PROVE  IInv' /\ UNCHANGED Register!vars
  <2>1. Durable' <=> Durable
    BY <1>10 DEF Stop, disk, Durable
  <2>2. IInv'
    BY <1>10, <2>1 DEF Stop, disk, IInv, Shape, FromPieces
  <2> QED
    BY <1>10, <2>1, <2>2, Zenon DEF Stop, Register!vars
<1>11. ASSUME Start
       PROVE  IInv' /\ Register!Restart
  <2>1. savedState' \in NetState /\ Register!Recombines(savedState', pieces)
    BY <1>11, LoadRecombines DEF Start
  <2>2. Durable => savedState' = savedState
    BY <1>11, LoadDurable DEF Start
  <2>3. /\ stateFile' \in {stateFile} \cup NoData
        /\ secretFile' \in {secretFile} \cup NoData
    BY <1>11 DEF Start, Kept, NoData
  <2>4. Shape'
    BY <1>0, <1>11, <2>1, <2>3 DEF Start, Shape, Remember, Contents
  <2> DEFINE ps == pieces \cup {savedState'}
  <2>5. /\ ps \in SUBSET NetState
        /\ stateFile' \notin NoData => Hides(stateFile', ps)
        /\ secretFile' \notin NoData => Parts(secretFile', ps)
        /\ \A k \in 1..Len(lateStates') : Hides(lateStates'[k], ps)
        /\ lateSecrets' # None => Parts(lateSecrets', ps)
    <3>1. pieces \in SUBSET NetState /\ ps \in SUBSET NetState /\ pieces \subseteq ps
      BY <1>0, <2>1 DEF Shape
    <3>2. \A a \in NetState : /\ Hides(a, pieces) => Hides(a, ps)
                              /\ Parts(a, pieces) => Parts(a, ps)
      BY <3>1, PiecesGrow
    <3>3. /\ stateFile' \notin NoData => stateFile' \in NetState /\ Hides(stateFile', pieces)
          /\ secretFile' \notin NoData => secretFile' \in NetState /\ Parts(secretFile', pieces)
      BY <1>0, <2>3 DEF Shape, FromPieces, Contents
    <3>4. /\ \A k \in 1..Len(lateStates') : lateStates'[k] \in NetState /\ Hides(lateStates'[k], pieces)
          /\ lateSecrets' # None => lateSecrets' \in NetState /\ Parts(lateSecrets', pieces)
      BY <1>0, <1>11 DEF Start, Shape, FromPieces
    <3> QED
      BY <3>1, <3>2, <3>3, <3>4, Zenon
  <2>6. Remember(ps)
    BY <1>11 DEF Start
  <2> HIDE DEF ps
  <2>7. FromPieces' /\ (Durable' => pieces' = {savedState'})
    BY <2>4, <2>5, <2>6, Remembered
  <2>8. target = None /\ target' = None
    BY <1>11 DEF Start, IInv
  <2>9. IInv'
    BY <1>11, <2>4, <2>7, <2>8 DEF Start, IInv
  <2> QED
    BY <2>1, <2>2, <2>6, <2>8, <2>9 DEF ps, Remember, Register!Restart, Register!Files
<1> QED
  BY <1>1, <1>2, <1>3, <1>4, <1>5, <1>6, <1>7, <1>8, <1>9, <1>10, <1>11 DEF Next, Register!Next

(* A step that changes nothing is none of the register.                      *)
LEMMA Stutter ==
    ASSUME IInv, UNCHANGED vars
    PROVE  IInv' /\ UNCHANGED Register!vars
<1>1. Durable' <=> Durable
  BY DEF vars, disk, Durable
<1> QED
  BY <1>1, Zenon DEF vars, disk, IInv, Shape, FromPieces, Register!vars

(* The first states are those of the register.                               *)
LEMMA InitRefined == ASSUME ConfAssumption, Init PROVE Register!Init
<1>1. Durable
  BY DEF Init, Durable, NoData, NoState, Lossless
<1> QED
  BY <1>1 DEF Init, NoState, Register!Init

(* conf_worker.rs, process_cmd() and read_state_from_file(): the two files,  *)
(* their writes and their failures implement a register.  Acknowledged saves *)
(* replace the saved state, others leave it, a restart loads a durable state *)
(* as it is and otherwise recombines pieces of states that were saved, each  *)
(* secret with its own network.                                              *)
THEOREM StoreIsRegister ==
    ASSUME ConfAssumption
    PROVE  Spec => IsRegister
<1>1. Init => IInv /\ Register!Init
  BY InitInv, InitRefined
<1>2. IInv /\ [Next]_vars => IInv' /\ [Register!Next]_(Register!vars)
  BY Step, Stutter
<1> QED
  BY <1>1, <1>2, PTL DEF Spec, IsRegister, Register!Spec

-----------------------------------------------------------------------------
(* Saves that go through undisturbed.                                        *)

(* The text of s is in a file, or on its way to the emptied file.            *)
StateOf(s) ==
    \/ stateFile = HideSecrets(s) /\ lateStates = <<>>
    \/ stateFile = Empty /\ lateStates = <<HideSecrets(s)>>

SecretsOf(s) ==
    \/ secretFile = ExtractSecrets(s) /\ lateSecrets = None
    \/ secretFile = Empty /\ lateSecrets = ExtractSecrets(s)

(* Between two saves: nothing was saved yet, or both halves of one state are *)
(* there, which is the saved one or what a restart read of it.               *)
Settled ==
    \/ /\ stateFile = NoFile /\ secretFile = NoFile /\ savedState = NoState
       /\ lateStates = <<>> /\ lateSecrets = None
    \/ \E s \in NetState :
          /\ StateOf(s) /\ SecretsOf(s)
          /\ savedState \in {s, Merge(HideSecrets(s), ExtractSecrets(s))}

(* The inductive invariant of a worker that met no fault and no overlap.     *)
Quiet ==
    /\ pc \in {"idle", "start", "down"} => Settled
    /\ pc = "down" => lateStates = <<>> /\ lateSecrets = None
    /\ pc = "created" => stateFile = Empty /\ lateStates = <<>>
    /\ pc \in {"written", "removed", "secrets"} => StateOf(target)
    /\ pc = "removed" => secretFile = NoFile /\ lateSecrets = None
    /\ pc = "secrets" => secretFile = Empty /\ lateSecrets = None

QInv ==
    /\ IInv
    /\ faults \in Nat
    /\ faults = 0 /\ ~overlap => Quiet

(* The write of an emptied state file makes it whole.                        *)
LEMMA Landed ==
    ASSUME ConfAssumption, NEW s \in NetState, StateOf(s),
           NEW k, LandState(k, TRUE)
    PROVE  StateOf(s)'
<1>1. k \in 1..Len(lateStates)
  BY DEF LandState
<1>2. lateStates = <<HideSecrets(s)>> /\ stateFile = Empty
  BY <1>1, EmptySeq DEF StateOf
<1>3. HideSecrets(s) \in NetState
  BY StateTypes
<1>4. lateStates \in Seq(NetState) /\ Len(lateStates) = 1 /\ lateStates[1] = HideSecrets(s)
  BY <1>2, <1>3
<1>5. k = 1
  BY <1>1, <1>4
<1>6. lateStates' = <<>>
  BY <1>1, <1>4, RemoveAt DEF LandState
<1>7. stateFile' = HideSecrets(s)
  BY <1>2, <1>4, <1>5 DEF LandState, Overlay
<1> QED
  BY <1>6, <1>7 DEF StateOf

(* No undisturbed step leaves the invariant.                                 *)
LEMMA QuietStep ==
    ASSUME ConfAssumption, QInv, Quiet, ~overlap', faults' = 0, faults = 0, Next
    PROVE  Quiet'
<1>0. Shape
  BY DEF QInv, IInv
<1>1. ASSUME NEW s \in SaveInputs, SaveState(s)
      PROVE  Quiet'
  BY <1>1 DEF SaveState, disk, Quiet, Settled, StateOf, SecretsOf
<1>2. CASE CreateStateFile
  BY <1>2, Zenon DEF CreateStateFile, Quiet
<1>3. CASE WriteState
  <2>1. lateStates' = <<HideSecrets(target)>> /\ stateFile' = Empty
    BY <1>3 DEF WriteState, Quiet
  <2> QED
    BY <1>3, <2>1 DEF WriteState, Quiet, StateOf
<1>4. CASE RemoveSecretFile \/ CreateSecretFile
  BY <1>4 DEF RemoveSecretFile, CreateSecretFile, Quiet, StateOf
<1>5. CASE WriteSecrets
  <2>1. StateOf(target) /\ secretFile = Empty /\ target \in NetState
    BY <1>0, <1>5 DEF WriteSecrets, Quiet, Shape, QInv, IInv, Saving
  <2>2. /\ stateFile' = stateFile /\ lateStates' = lateStates /\ savedState' = target
        /\ secretFile' = Empty /\ lateSecrets' = ExtractSecrets(target)
    BY <1>5, <2>1 DEF WriteSecrets
  <2>3. Settled'
    BY <2>1, <2>2 DEF Settled, StateOf, SecretsOf
  <2> QED
    BY <1>5, <2>3 DEF WriteSecrets, Quiet
<1>6. ASSUME NEW k \in 1..MaxLate, NEW whole \in BOOLEAN, LandState(k, whole)
      PROVE  Quiet'
  <2>1. LandState(k, TRUE)
    BY <1>6 DEF LandState
  <2>2. UNCHANGED <<pc, savedState, target, secretFile, lateSecrets>> /\ lateStates # <<>>
    BY <1>6, EmptySeq DEF LandState
  <2>3. CASE pc \in {"idle", "start", "down"}
    <3>1. PICK s \in NetState :
             /\ StateOf(s) /\ SecretsOf(s)
             /\ savedState \in {s, Merge(HideSecrets(s), ExtractSecrets(s))}
      BY <2>2, <2>3 DEF Quiet, Settled
    <3>2. StateOf(s)'
      BY <2>1, <3>1, Landed, Zenon
    <3>3. Settled'
      BY <2>2, <3>1, <3>2 DEF Settled, SecretsOf
    <3> QED
      BY <2>2, <2>3, <3>3 DEF Quiet
  <2>4. CASE pc \in {"written", "removed", "secrets"}
    <3>1. target \in NetState /\ StateOf(target)
      BY <1>0, <2>4 DEF Quiet, Shape, QInv, IInv, Saving
    <3>2. StateOf(target)'
      BY <2>1, <2>2, <3>1, Landed, Zenon DEF StateOf
    <3> QED
      BY <2>2, <2>4, <3>2 DEF Quiet
  <2> QED
    BY <1>0, <2>2, <2>3, <2>4 DEF Quiet, Shape
<1>7. ASSUME NEW whole \in BOOLEAN, LandSecrets(whole)
      PROVE  Quiet'
  <2>1. /\ lateSecrets # None /\ lateSecrets' = None /\ secretFile' = lateSecrets
        /\ UNCHANGED <<pc, savedState, target, stateFile, lateStates>>
    BY <1>7 DEF LandSecrets
  <2>2. Settled => Settled'
    BY <2>1 DEF Settled, StateOf, SecretsOf
  <2> QED
    BY <2>1, <2>2 DEF Quiet, StateOf
<1>8. CASE Stop
  BY <1>8 DEF Stop, disk, Quiet, Settled, StateOf, SecretsOf
<1>9. CASE Start
  <2>1. Settled /\ pc' = "idle" /\ UNCHANGED <<lateStates, lateSecrets>>
    BY <1>9 DEF Start, Quiet
  <2>2. CASE stateFile = NoFile /\ secretFile = NoFile
    <3>1. savedState' = NoState /\ stateFile' = NoFile /\ secretFile' = NoFile
      BY <1>9, <2>2 DEF Start, Load, Kept
    <3>2. Settled'
      BY <1>9, <2>1, <3>1 DEF Start, Quiet, Settled
    <3> QED
      BY <2>1, <3>2 DEF Quiet
  <2>3. CASE stateFile # NoFile \/ secretFile # NoFile
    <3>1. PICK s \in NetState : stateFile = HideSecrets(s) /\ secretFile = ExtractSecrets(s)
      BY <1>9, <2>1, <2>3, StateTypes DEF Start, Quiet, Settled, StateOf, SecretsOf, ConfAssumption
    <3>2. stateFile \notin NoData /\ secretFile \notin NoData
      BY <3>1, StateTypes DEF ConfAssumption
    <3>3. stateFile' = stateFile /\ secretFile' = secretFile
      BY <1>9, <3>2 DEF Start, Kept, NoData
    <3>4. savedState' = Merge(HideSecrets(s), ExtractSecrets(s))
      BY <1>9, <3>1, <3>2 DEF Start, Load, Parsed, NoData
    <3>5. Settled'
      BY <1>9, <2>1, <3>1, <3>3, <3>4 DEF Start, Quiet, Settled, StateOf, SecretsOf
    <3> QED
      BY <2>1, <3>5 DEF Quiet
  <2> QED
    BY <2>2, <2>3
<1>10. ~SaveFails /\ ~Crash
  BY DEF SaveFails, Crash
<1> QED
  BY <1>1, <1>2, <1>3, <1>4, <1>5, <1>6, <1>7, <1>8, <1>9, <1>10 DEF Next

(* The faults are only counted, and no overlap is forgotten.                 *)
LEMMA Counted ==
    ASSUME faults \in Nat, [Next]_vars
    PROVE  faults' \in Nat /\ (faults' = 0 => faults = 0) /\ (~overlap' => ~overlap)
<1>1. faults' \in {faults, faults + 1}
  BY Zenon DEF Next, vars, SaveState, CreateStateFile, WriteState, RemoveSecretFile,
         CreateSecretFile, WriteSecrets, SaveFails, LandState, LandSecrets, Crash, Stop, Start
<1>2. overlap => overlap'
  BY Zenon DEF Next, vars, SaveState, CreateStateFile, WriteState, RemoveSecretFile,
         CreateSecretFile, WriteSecrets, SaveFails, LandState, LandSecrets, Crash, Stop, Start
<1> QED
  BY <1>1, <1>2

(* What was saved undisturbed is read back.                                  *)
LEMMA QuietIsRead ==
    ASSUME ConfAssumption, QInv
    PROVE  QuietSavesSurvive
<1> SUFFICES ASSUME faults = 0, ~overlap, pc = "idle", lateStates = <<>>, lateSecrets = None,
                    Lossless(savedState)
             PROVE  Load(stateFile, secretFile) = savedState
  BY DEF QuietSavesSurvive
<1>1. Settled
  BY DEF QInv, Quiet
<1>2. CASE stateFile = NoFile /\ savedState = NoState
  BY <1>2 DEF Load
<1>3. CASE ~(stateFile = NoFile /\ savedState = NoState)
  <2>1. PICK s \in NetState :
           /\ stateFile = HideSecrets(s) /\ secretFile = ExtractSecrets(s)
           /\ savedState \in {s, Merge(HideSecrets(s), ExtractSecrets(s))}
    BY <1>1, <1>3, StateTypes DEF Settled, StateOf, SecretsOf, ConfAssumption
  <2>2. stateFile \notin NoData /\ secretFile \notin NoData
    BY <2>1, StateTypes DEF ConfAssumption
  <2>3. Load(stateFile, secretFile) = Merge(HideSecrets(s), ExtractSecrets(s))
    BY <2>1, <2>2 DEF Load, Parsed, NoData
  <2> QED
    BY <2>1, <2>3, HalvesMakeWhole
<1> QED
  BY <1>2, <1>3

(* conf_worker.rs, save_state_to_file() and read_state_from_file(): however  *)
(* many saves and restarts there were, a state whose save met no fault and   *)
(* no write of the save before it is read back from the two files as it was  *)
(* acknowledged, secrets included.                                           *)
THEOREM QuietSavesAlwaysSurvive ==
    ASSUME ConfAssumption
    PROVE  Spec => []QuietSavesSurvive
<1>1. Init => QInv
  <2> SUFFICES ASSUME Init PROVE QInv
    OBVIOUS
  <2>1. Settled /\ pc = "idle" /\ faults \in Nat
    BY DEF Init, Settled
  <2> QED
    BY <2>1, InitInv DEF QInv, Quiet
<1>2. QInv /\ [Next]_vars => QInv'
  <2> SUFFICES ASSUME QInv, [Next]_vars PROVE QInv'
    OBVIOUS
  <2>1. IInv'
    BY Step, Stutter DEF QInv
  <2>2. faults' \in Nat /\ (faults' = 0 => faults = 0) /\ (~overlap' => ~overlap)
    BY Counted DEF QInv
  <2>3. CASE Next
    BY <2>1, <2>2, <2>3, QuietStep DEF QInv
  <2>4. CASE UNCHANGED vars
    BY <2>1, <2>2, <2>4 DEF vars, disk, QInv, Quiet, Settled, StateOf, SecretsOf
  <2> QED
    BY <2>3, <2>4
<1>3. QInv => QuietSavesSurvive
  BY QuietIsRead
<1> QED
  BY <1>1, <1>2, <1>3, PTL DEF Spec

=============================================================================
