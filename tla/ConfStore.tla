----------------------------- MODULE ConfStore ------------------------------
(***************************************************************************)
(* The configuration worker (src/daemon/conf/conf_worker.rs): the saved    *)
(* network state in memory, the state file applied.yml with the secrets    *)
(* blanked out, the file with the secrets, and the way a save replaces     *)
(* both.  Writes are handed to a background thread and land after the      *)
(* save was acknowledged; the daemon may crash between any two steps, any  *)
(* step of a save may fail, and a restart loads what the files hold.       *)
(***************************************************************************)
EXTENDS Naturals, Sequences, FiniteSets

CONSTANTS Ifaces,            \* profile keys
          Nets,              \* what a secret is for: a SSID, a peer
          Confs,             \* what else a profile holds
          Secrets,
          Missing,           \* no profile under this key
          Blank,             \* the content of a profile in the secrets file
          NoSecret, Hidden,  \* no secret, HIDE_SECRET_STR
          None,              \* nothing being saved, nothing to be written
          NoFile, Empty, Torn,   \* file contents that hold no state
          SaveInputs,        \* the states clients save
          MaxSaves, MaxFaults, MaxLate   \* bounds

(* A profile: up says whether its state is up or absent, named whether its *)
(* kernel name is known (it is not for a MAC-identified profile whose NIC  *)
(* is gone).                                                               *)
Profile == [net : Nets,
            conf : Confs \cup {Blank},
            secret : Secrets \cup {NoSecret, Hidden},
            up : BOOLEAN,
            named : BOOLEAN]

NetState == [Ifaces -> Profile \cup {Missing}]

NoState == [i \in Ifaces |-> Missing]

NoData == {NoFile, Empty, Torn}

(* The marks are neither profiles nor states, and clients save states. *)
ConfAssumption ==
    /\ Missing \notin Profile
    /\ None \notin NetState
    /\ NoData \cap NetState = {}
    /\ SaveInputs \subseteq NetState

-----------------------------------------------------------------------------
(* hide_secrets: every secret is replaced by the hidden mark. *)
HideProfile(p) ==
    IF p = Missing \/ p.secret = NoSecret THEN p ELSE [p EXCEPT !.secret = Hidden]

HideSecrets(s) == [i \in Ifaces |-> HideProfile(s[i])]

(* Interface::gen_diff against the hidden profile: a profile with a real   *)
(* secret keeps its name, state, secret and what the secret is for; an     *)
(* absent one is copied from the hidden side as it stands.                 *)
SecretPart(p) ==
    IF p = Missing THEN Missing
    ELSE IF ~p.up THEN HideProfile(p)
    ELSE IF p.secret \in {NoSecret, Hidden} THEN Missing
    ELSE [p EXCEPT !.conf = Blank]

(* extract_secrets, the half of the state the secrets file gets. *)
ExtractSecrets(s) == [i \in Ifaces |-> SecretPart(s[i])]

(* Mutant: what the saved profile has wins over the secrets file. *)
MergeKeepsSaved(p, x) ==
    IF x = Missing THEN p ELSE IF p = Missing THEN x ELSE p

(* Interface::merge of the entry x of the secrets into profile p: x        *)
(* overrides, what x lacks or hides comes from p, and a secret is not      *)
(* taken over to another network.                                          *)
MergeProfile(p, x) ==
    IF x = Missing THEN p
    ELSE IF p = Missing THEN x
    ELSE [x EXCEPT
            !.conf = IF @ = Blank THEN p.conf ELSE @,
            !.secret = IF @ \notin {NoSecret, Hidden} THEN @
                       ELSE IF x.net = p.net THEN p.secret ELSE NoSecret,
            !.named = p.named]

(* Interfaces::merge: a profile the state file lacks is added as it is. *)
Merge(s, x) == [i \in Ifaces |-> MergeProfile(s[i], x[i])]

(* A file parses to the state it holds; a truncated or torn one does not. *)
Parsed(f) == IF f \in NoData THEN NoState ELSE f

(* read_state_from_file: without a state file nothing is read; next to a   *)
(* corrupted one the secrets are still merged into the empty state.        *)
Load(f, x) == IF f = NoFile THEN NoState ELSE Merge(Parsed(f), Parsed(x))

(* discard_absent_iface: absent profiles are dropped by kernel name, so    *)
(* the ones without a known kernel name stay.                              *)
DiscardAbsent(s) ==
    [i \in Ifaces |-> IF s[i] # Missing /\ ~s[i].up /\ s[i].named
                      THEN Missing ELSE s[i]]

(* The states that have every profile from one of two. *)
Mixes(a, b) == {[i \in Ifaces |-> IF i \in K THEN a[i] ELSE b[i]] : K \in SUBSET Ifaces}

(* What a file that held old may hold once a write of new at offset 0 went *)
(* through: a shorter text leaves the tail of a longer one in place.       *)
Overlay(old, new) ==
    IF old \in {NoFile, Empty} THEN {new}
    ELSE IF old = Torn THEN {new, Torn}
    ELSE {Torn} \cup Mixes(old, new)

(* What a write that ran out of space leaves: nothing, a piece of text     *)
(* that does not parse, or some whole profiles.                            *)
Partial(new) == {Empty, Torn} \cup Mixes(NoState, new)

-----------------------------------------------------------------------------
VARIABLES pc,           \* where the worker is; "down" between two runs
          savedState,   \* self.saved_state
          target,       \* the state being saved
          stateFile, secretFile,
          lateStates,   \* writes of the state file not landed yet
          lateSecrets,  \* the write of the secrets file not landed yet
          pieces,       \* history: the states the files may hold pieces of
          overlap,      \* history: a save began before the last one's text landed
          saves, faults \* how many so far

disk == <<stateFile, secretFile, lateStates, lateSecrets>>
vars == <<pc, savedState, target, disk, pieces, overlap, saves, faults>>

(* A profile with a secret that the files cannot carry: see SecretPart. *)
Lossless(s) ==
    \A i \in Ifaces : s[i] # Missing /\ ~s[i].up => s[i].secret \in {NoSecret, Hidden}

(* Nothing is under way and the files hold the two halves of the state. *)
Durable ==
    /\ pc \in {"idle", "down", "start"}
    /\ lateStates = <<>> /\ lateSecrets = None
    /\ Lossless(savedState)
    /\ \/ stateFile = NoFile /\ secretFile \in NoData /\ savedState = NoState
       \/ /\ stateFile = HideSecrets(savedState)
          /\ secretFile = ExtractSecrets(savedState)

Init ==
    /\ pc = "idle"
    /\ savedState = NoState
    /\ target = None
    /\ stateFile = NoFile /\ secretFile = NoFile
    /\ lateStates = <<>> /\ lateSecrets = None
    /\ pieces = {NoState}
    /\ overlap = FALSE
    /\ saves = 0 /\ faults = 0

(* The history after a step that may have put pieces of ps on disk. *)
Remember(ps) == pieces' = IF Durable' THEN {savedState'} ELSE ps

(* Mutant: the state in memory is replaced before the files are written. *)
SaveStateInMemoryFirst(s) ==
    /\ pc = "idle" /\ saves < MaxSaves
    /\ pc' = "start"
    /\ target' = DiscardAbsent(s)
    /\ savedState' = DiscardAbsent(s)
    /\ saves' = saves + 1
    /\ UNCHANGED <<disk, pieces, faults, overlap>>

(* process_cmd(SaveState), up to the first await. *)
SaveState(s) ==
    /\ pc = "idle" /\ saves < MaxSaves
    /\ pc' = "start"
    /\ target' = DiscardAbsent(s)
    /\ saves' = saves + 1
    /\ UNCHANGED <<savedState, disk, pieces, faults, overlap>>

(* File::create of the state file truncates it. *)
CreateStateFile ==
    /\ pc = "start"
    /\ pc' = "created"
    /\ stateFile' = Empty
    /\ pieces' = pieces \cup {target}
    /\ overlap' = (overlap \/ lateStates # <<>>)
    /\ UNCHANGED <<savedState, target, secretFile, lateStates, lateSecrets, saves, faults>>

(* write_all hands the text to a background thread and returns. *)
WriteState ==
    /\ pc = "created" /\ Len(lateStates) < MaxLate
    /\ pc' = "written"
    /\ lateStates' = Append(lateStates, HideSecrets(target))
    /\ UNCHANGED <<savedState, target, stateFile, secretFile, lateSecrets, pieces, saves, faults, overlap>>

(* remove_file: a write still on its way goes to the unlinked file. *)
RemoveSecretFile ==
    /\ pc = "written"
    /\ pc' = "removed"
    /\ secretFile' = NoFile
    /\ lateSecrets' = None
    /\ UNCHANGED <<savedState, target, stateFile, lateStates, pieces, saves, faults, overlap>>

CreateSecretFile ==
    /\ pc = "removed"
    /\ pc' = "secrets"
    /\ secretFile' = Empty
    /\ UNCHANGED <<savedState, target, stateFile, lateStates, lateSecrets, pieces, saves, faults, overlap>>

(* The last write is handed over and the save is acknowledged. *)
WriteSecrets ==
    /\ pc = "secrets"
    /\ pc' = "idle"
    /\ lateSecrets' = ExtractSecrets(target)
    /\ savedState' = target
    /\ target' = None
    /\ UNCHANGED <<stateFile, secretFile, lateStates, pieces, saves, faults, overlap>>

(* A step of save_state_to_file returns an error: saved_state is kept. *)
SaveFails ==
    /\ pc \notin {"idle", "down"} /\ faults < MaxFaults
    /\ pc' = "idle"
    /\ target' = None
    /\ faults' = faults + 1
    /\ UNCHANGED <<savedState, disk, saves, overlap>>
    /\ Remember(pieces)

(* The background thread executes one of the outstanding writes; an error  *)
(* is not seen by anyone, the file it belongs to is closed.                *)
LandState(k, whole) ==
    /\ k \in 1..Len(lateStates)
    /\ lateStates' = SubSeq(lateStates, 1, k - 1) \o SubSeq(lateStates, k + 1, Len(lateStates))
    /\ IF whole
       THEN stateFile' \in Overlay(stateFile, lateStates[k]) /\ UNCHANGED faults
       ELSE /\ faults < MaxFaults /\ faults' = faults + 1
            /\ stateFile' \in Partial(lateStates[k])
    /\ UNCHANGED <<pc, savedState, target, secretFile, lateSecrets, saves, overlap>>
    /\ Remember(pieces)

LandSecrets(whole) ==
    /\ lateSecrets # None
    /\ lateSecrets' = None
    /\ IF whole
       THEN secretFile' = lateSecrets /\ UNCHANGED faults
       ELSE /\ faults < MaxFaults /\ faults' = faults + 1
            /\ secretFile' \in Partial(lateSecrets)
    /\ UNCHANGED <<pc, savedState, target, stateFile, lateStates, saves, overlap>>
    /\ Remember(pieces)

(* The daemon dies: the command and the outstanding writes are lost. *)
Crash ==
    /\ pc # "down" /\ faults < MaxFaults
    /\ pc' = "down"
    /\ target' = None
    /\ lateStates' = <<>> /\ lateSecrets' = None
    /\ faults' = faults + 1
    /\ UNCHANGED <<savedState, stateFile, secretFile, saves, overlap>>
    /\ Remember(pieces)

(* A clean stop: the worker finishes its command and the runtime waits for *)
(* the outstanding writes.                                                 *)
Stop ==
    /\ pc = "idle" /\ lateStates = <<>> /\ lateSecrets = None
    /\ pc' = "down"
    /\ UNCHANGED <<savedState, target, disk, pieces, saves, faults, overlap>>

(* A file that does not parse is deleted (an empty one may parse). *)
Kept(f) == CASE f = Torn -> {NoFile}
             [] f = Empty -> {NoFile, Empty}
             [] OTHER -> {f}

(* NipartConfWorker::new. *)
Start ==
    /\ pc = "down"
    /\ pc' = "idle"
    /\ savedState' = Load(stateFile, secretFile)
    /\ stateFile' \in Kept(stateFile)
    /\ secretFile' \in IF stateFile = NoFile THEN {secretFile} ELSE Kept(secretFile)
    /\ UNCHANGED <<target, lateStates, lateSecrets, saves, faults, overlap>>
    /\ Remember(pieces \cup {savedState'})

Next ==
    \/ \E s \in SaveInputs : SaveState(s)
    \/ CreateStateFile \/ WriteState
    \/ RemoveSecretFile \/ CreateSecretFile \/ WriteSecrets
    \/ SaveFails
    \/ \E k \in 1..MaxLate, whole \in BOOLEAN : LandState(k, whole)
    \/ \E whole \in BOOLEAN : LandSecrets(whole)
    \/ Crash \/ Stop \/ Start

Spec == Init /\ [][Next]_vars

-----------------------------------------------------------------------------
Contents == NetState \cup NoData

(* The daemon never offers the saved state a user did not store: read back  *)
(* from its two files, a state whose save went through undisturbed (no      *)
(* failed step, no crash, the text of the save before it landed before it   *)
(* began) is the state that was acknowledged, secrets included.             *)
QuietSavesSurvive ==
    faults = 0 /\ ~overlap /\ pc = "idle" /\ lateStates = <<>> /\ lateSecrets = None
        => Load(stateFile, secretFile) = savedState \/ ~Lossless(savedState)

(* inter_ifaces.rs: an absent apply "only needs to drop the saved config":  *)
(* no absent profile stays behind in the saved state.                       *)
AbsentProfilesDropped ==
    \A i \in Ifaces : savedState[i] # Missing => savedState[i].up

Register == INSTANCE ConfRegister WITH value <- savedState, durable <- Durable

(* The store is the register: acknowledged saves replace the value, failed  *)
(* ones do not, and whatever a crash leaves in the two files, a restart     *)
(* loads pieces of saved states, a secret always with the network it was    *)
(* saved for.                                                               *)
IsRegister == Register!Spec
=============================================================================
