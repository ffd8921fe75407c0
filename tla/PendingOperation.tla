--------------------------- MODULE PendingOperation ---------------------------
(***************************************************************************)
(* PendingOperation (src/retroshare/libretroshare/src/tor/                 *)
(* PendingOperation.cpp): the completion state of an asynchronous          *)
(* operation.  The callbacks are recorded in fired, in the order they run. *)
(* The assert of finishWithSuccess aborts a debug build and is compiled    *)
(* out of a release build: both outcomes are possible (aborted).           *)
(***************************************************************************)
EXTENDS Sequences

VARIABLES
  finished,      \* m_finished
  errorMessage,  \* m_errorMessage; "" is the empty string
  fired,         \* callbacks run, in order
  aborted        \* the process stopped on the assert of line 77

opVars == <<finished, errorMessage, fired, aborted>>

\* The constructor, lines 36-39.
InitOperation ==
  /\ finished = FALSE /\ errorMessage = "" /\ fired = <<>>
  /\ aborted = FALSE

\* isSuccess and isError, lines 46-54.
isSuccess == finished /\ errorMessage = ""
isError   == finished /\ errorMessage # ""

\* finishWithError, lines 61-73.  The "Unknown Error" default of line 64 is
\* overwritten by line 65 whatever the message, so it never survives.
finishWithError(message) ==
  /\ ~aborted
  /\ errorMessage' = message
  /\ IF ~finished
       THEN finished' = TRUE /\ fired' = fired \o <<"error", "finished">>
       ELSE UNCHANGED <<finished, fired>>
  /\ UNCHANGED aborted

\* Mutant: m_finished is not set before the callbacks run.
finishWithSuccessNoFlag ==
  /\ ~aborted
  /\ errorMessage = ""
  /\ IF ~finished
       THEN fired' = fired \o <<"success", "finished">>
       ELSE UNCHANGED fired
  /\ UNCHANGED <<finished, errorMessage, aborted>>

\* finishWithSuccess, lines 75-87.  isSuccess is evaluated after
\* m_finished is set, so it is true exactly when no message is stored.
finishWithSuccess ==
  /\ ~aborted
  /\ \/ /\ errorMessage # ""                     \* assert, debug build
        /\ aborted' = TRUE
        /\ UNCHANGED <<finished, errorMessage, fired>>
     \/ /\ IF ~finished
             THEN /\ finished' = TRUE
                  /\ fired' = fired \o (IF errorMessage = ""
                                          THEN <<"success", "finished">>
                                          ELSE <<"finished">>)
             ELSE UNCHANGED <<finished, fired>>
        /\ UNCHANGED <<errorMessage, aborted>>

\* The outcome a user observes through isFinished / isSuccess / isError.
Outcome == IF ~finished THEN "pending"
           ELSE IF errorMessage = "" THEN "success" ELSE "error"

Abstract == INSTANCE PendingOperationAbstract WITH outcome <- Outcome

\* The operation behaves as PendingOperationAbstract: it completes once,
\* the callback run matches the outcome isSuccess/isError report, and the
\* outcome is never changed by a later finishWithError/finishWithSuccess.
ImplementsAbstract == Abstract!Spec
=============================================================================
