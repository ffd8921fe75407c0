------------------------- MODULE SaveConfigOperation -------------------------
(***************************************************************************)
(* TorControl::saveConfiguration and SaveConfigOperation                   *)
(* (src/retroshare/libretroshare/src/tor/TorControl.cpp 623-726): ask Tor  *)
(* for config-text and config-file, then rewrite the torrc it names,       *)
(* without the runtime-managed lines, and finish the PendingOperation.     *)
(*                                                                         *)
(* The file system is disk: a file is Absent or holds a sequence of lines, *)
(* each line abstracted to its leading keyword.  Tor's reply is chosen     *)
(* when it arrives and recorded in reply.                                  *)
(***************************************************************************)
EXTENDS Sequences, SequencesExt, PendingOperation

CONSTANTS
  Files,         \* paths Tor may name as its config-file
  IsTorrc,       \* [Files -> BOOLEAN]  RsDirUtil::getFileName(path) == "torrc"
  NoPath,        \* an empty or missing config-file value
  Absent,        \* content of a file that does not exist
  Keys,          \* leading keywords of config-text lines
  InitialLines,  \* contents a file may start with
  MaxLines,      \* longest config-text enumerated
  WriteCanFail   \* whether a write or the close may fail (disk full, EIO)

ASSUME NoPath \notin Files

VARIABLES
  phase,  \* "new", "started" (GETINFO sent) or "replied"
  disk,   \* [Files -> {Absent} \cup Seq(Keys)]
  reply   \* the config-file and config-text Tor returned

vars == <<opVars, phase, disk, reply>>

\* bannedKeys, lines 674-680.
BannedKeys == <<"ControlPortWriteToFile", "DataDirectory",
                "HiddenServiceDir", "HiddenServicePort">>

Texts == UNION {[1 .. n -> Keys] : n \in 0 .. MaxLines}

\* The lines the loop of lines 684-698 writes: those not starting with a
\* banned key.
KeptLines(text) == SelectSeq(text, LAMBDA k : k \notin ToSet(BannedKeys))

\* The paranoia check of lines 655-661.
Acceptable(path) == IsTorrc[path] /\ disk[path] # Absent

\* What the file holds after the loop and close: every kept line, or, when
\* a write may fail, any prefix of them (the stream state is never checked).
Written(text) ==
  IF WriteCanFail
    THEN {SubSeq(KeptLines(text), 1, i) : i \in 0 .. Len(KeptLines(text))}
    ELSE {KeptLines(text)}

Init ==
  /\ InitOperation
  /\ phase = "new"
  /\ disk \in [Files -> {Absent} \cup InitialLines]
  /\ reply = [path |-> NoPath, text |-> <<>>]

\* saveConfiguration (713-726, the instance is owned) and start (630-637).
start ==
  /\ phase = "new"
  /\ phase' = "started"
  /\ UNCHANGED <<opVars, disk, reply>>

\* configTextReply, lines 639-705.  ofstream truncates the file when it
\* opens it; opening fails (permissions) without touching it.
configTextReply ==
  /\ phase = "started"
  /\ phase' = "replied"
  /\ \E path \in Files \cup {NoPath}, text \in Texts, opens \in BOOLEAN :
       /\ reply' = [path |-> path, text |-> text]
       /\ IF path = NoPath
            THEN finishWithError("Cannot write torrc without knowing its path")
                 /\ UNCHANGED disk
          ELSE IF ~Acceptable(path)
            THEN finishWithError("Refusing to write torrc to unacceptable path")
                 /\ UNCHANGED disk
          ELSE IF ~opens
            THEN finishWithError("Failed opening torrc file for writing")
                 /\ UNCHANGED disk
          ELSE /\ \E lines \in Written(text) :
                    disk' = [disk EXCEPT ![path] = lines]
               /\ finishWithSuccess

Next == start \/ configTextReply

Spec == Init /\ [][Next]_vars /\ WF_vars(configTextReply)

-----------------------------------------------------------------------------
\* The operation completes once, with the callback matching the outcome.
\* SaveConfigOperation calls exactly one finish method per reply, always
\* with a message, so none of PendingOperation's own defects is reached.
SaveImplementsAbstract == ImplementsAbstract

\* The directives spec 4.6 says are runtime-generated and never persisted.
RuntimeManaged == {"ControlPortWriteToFile", "DataDirectory",
                   "HiddenServiceDir", "HiddenServicePort"}

\* After a successful save, the torrc holds exactly the config-text Tor
\* returned with the runtime-managed lines left out (spec 4.6).
SuccessWritesKeptLines ==
  isSuccess =>
    disk[reply.path] = SelectSeq(reply.text, LAMBDA k : k \notin RuntimeManaged)
=============================================================================
