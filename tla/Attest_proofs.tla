---------------------------- MODULE Attest_proofs ----------------------------
(***************************************************************************)
(* Proofs about the attestation state machine and the threads around it,   *)
(* for any set of nonces and any number of restarts: its types, that the   *)
(* machine waits for exactly one thing at a time, that quotes and nonces   *)
(* of different cycles do not meet, and that a completed attestation has   *)
(* its key stored.                                                         *)
(***************************************************************************)
EXTENDS Attest, TLAPS

USE NilAssumption, MaxRestartsAssumption

-----------------------------------------------------------------------------
(* The inductive invariant *)

\* How often an event is on its way
Load(e) == selfEvents[e] + (IF eventTrigger = e THEN 1 ELSE 0)

Answers == SelfEvents \ {"Initialize"}

\* Exactly d will make the machine move: an answer, the timer, or nothing
DriverIs(d) ==
  /\ \A e \in Answers : Load(e) = IF d = e THEN 1 ELSE 0
  /\ restartTimer = IF d = "timer" THEN "armed" ELSE "idle"

\* What the machine may wait for in a state.  A controller without verifier gives no answer.
Waits(s, verifier) ==
  CASE s = "NonceWait" -> {"NonceRecvd", "RetryTimerExpiry", "timer"}
                            \cup (IF verifier THEN {} ELSE {"nothing"})
    [] s = "AttestWait" -> {"AttestSuccessful", "NonceMismatch", "QuoteMismatch",
                            "NoQuoteCertRecvd", "RetryTimerExpiry", "timer"}
                            \cup (IF verifier THEN {} ELSE {"nothing"})
    [] s = "AttestEscrowWait" -> {"AttestEscrowRecorded", "AttestEscrowFailed", "NoEscrow",
                                  "RetryTimerExpiry", "timer"}
                            \cup (IF verifier THEN {} ELSE {"nothing"})
    [] s = "RestartWait" -> {"RetryTimerExpiry", "timer"}
    [] OTHER -> {"nothing"}

DriverInv == \E d \in Waits(state, usingV2API) : DriverIs(d)

\* Before the loop is started nothing is on its way
StartInv ==
  ~started => state = "None" /\ eventTrigger = NoEvent /\ mainSend = NoEvent
                /\ selfEvents["Initialize"] = 0

\* Every Initialize on its way beyond the one that None waits for was left by a restart
Initializes == Load("Initialize") + (IF mainSend = "Initialize" THEN 1 ELSE 0)
InitializeInv ==
  Initializes + (IF eventTrigger = "Restart" THEN 1 ELSE 0)
    <= restarts + (IF state = "None" THEN 1 ELSE 0)

QuoteReported == "InternalQuoteRecvd" \in {eventTrigger, mainSend}

\* The nonce is published from InternalQuoteWait on, and its quote is stored once
NonceInv ==
  /\ pubNonces \subseteq {nonce} \ {Nil}
  /\ state = "NonceWait" => pubNonces = {} /\ nonce \notin pubQuotes \cup quotesSeen
  /\ Load("NonceRecvd") > 0 => nonce # Nil
  /\ state \in {"InternalQuoteWait", "AttestWait"} => nonce # Nil /\ nonce \in pubNonces
  /\ state # "InternalQuoteWait" =>
       pubNonces \subseteq pubQuotes /\ pubQuotes \subseteq quotesSeen /\ ~QuoteReported
  /\ state = "InternalQuoteWait" =>
       /\ pubQuotes \subseteq quotesSeen \cup {nonce}
       /\ nonce \in quotesSeen <=> QuoteReported
       /\ QuoteReported => internalQuote = nonce /\ nonce \in pubQuotes
       /\ eventTrigger = "InternalQuoteRecvd" => mainSend # "InternalQuoteRecvd"
  /\ QuoteMatchesNonce

\* A recorded escrow was recorded with the key, or needs none
EscrowInv ==
  /\ escrow # "none" => vaultKeySeen
  /\ Load("AttestEscrowRecorded") > 0 \/ state = "Complete" =>
       publishedAttestEscrow \/ escrow = "skip"

AttestInv ==
  /\ TypeOK /\ DriverInv /\ StartInv /\ InitializeInv /\ NonceInv /\ EscrowInv
  /\ NoFatalButUnexpected

-----------------------------------------------------------------------------
(* Types *)

\* A count of goroutines stays a natural number: only a goroutine that is there sends
LEMMA SelfType ==
  ASSUME TypeOK, Next
  PROVE  selfEvents' \in [SelfEvents -> Nat]
<1>1. selfEvents \in [SelfEvents -> Nat]
  BY DEF TypeOK
<1>2. {"Initialize", "RetryTimerExpiry"} \subseteq SelfEvents
  BY DEF SelfEvents
<1>3. ASSUME NEW e \in SelfEvents, triggerSelfEvent(e)
      PROVE  selfEvents' \in [SelfEvents -> Nat]
  BY <1>1, <1>3 DEF triggerSelfEvent
<1>4. ASSUME NEW answer, react(answer)
      PROVE  selfEvents' \in [SelfEvents -> Nat]
  BY <1>1, <1>3, <1>4 DEF react
<1>5. CASE requestNonce \/ sendAttestQuote \/ sendAttestEscrow
  BY <1>4, <1>5 DEF requestNonce, sendAttestQuote, sendAttestEscrow
<1>6. CASE \E pending : gotoNone(pending)
  BY <1>2, <1>3, <1>6 DEF gotoNone
<1>7. CASE retryTimerExpires
  BY <1>2, <1>3, <1>7 DEF retryTimerExpires
<1>8. CASE selfEventSent
  BY <1>1, <1>8 DEF selfEventSent
<1>9. CASE reboot
  BY <1>9 DEF reboot
<1>10. CASE UNCHANGED selfEvents
  BY <1>1, <1>10
<1>11. EventLoop => \/ requestNonce \/ sendAttestQuote \/ sendAttestEscrow
                    \/ (\E pending : gotoNone(pending)) \/ retryTimerExpires
                    \/ UNCHANGED selfEvents
  BY DEF EventLoop, handleInitializeAtNone, handleRestartAtNone, handleNonceRecvdAtNonceWait,
         handleInternalQuoteRecvdAtInternalQuoteWait, handleMismatchAtAttestWait,
         handleAttestSuccessfulAtAttestWait, handleNoEscrowAtAttestEscrowWait,
         handleAttestEscrowFailedAtAttestEscrowWait, handleAttestEscrowRecordedAtAttestEscrowWait,
         handleInternalEscrowRecvdAtInternalEscrowWait, handleInternalEscrowRecvdAtAnyOther,
         handleRestartAtStateComplete, handleRestart, handleRetryTimerExpiryAtRestartWait,
         handleRetryTimerExpiryAtNonceWait, handleRetryTimerExpiryAtAttestWait,
         handleRetryTimerExpiryWhileAttestEscrowWait, unexpectedEvent,
         requestInternalQuote, gotoRestartWait, fsm
<1>12. Threads => selfEventSent \/ UNCHANGED selfEvents
  BY DEF Threads, mainSent, attestModuleStart, handleAttestQuoteImpl, handleAttestQuoteDelete,
         handleEncryptedKeyFromDeviceImpl, handleAttestNonceImpl, handleAttestNonceDelete, chan
<1>13. RestartAttestation \/ publishVaultKey => UNCHANGED selfEvents
  BY DEF RestartAttestation, publishVaultKey, chan
<1>14. QED
  BY <1>5, <1>6, <1>7, <1>8, <1>9, <1>10, <1>11, <1>12, <1>13 DEF Next

\* The other variables keep their types at every step
LEMMA TypeStep ==
  ASSUME TypeOK, Next, selfEvents' \in [SelfEvents -> 0..(MaxRestarts + 1)]
  PROVE  TypeOK'
<1> USE DEF NoEvent
<1>1. ASSUME NEW e, Receive(e)
      PROVE  eventTrigger' \in Events \cup {NoEvent} /\ UNCHANGED <<mainSend, started>>
  BY <1>1 DEF Receive
<1>2. ASSUME NEW e, Receive(e), requestNonce
      PROVE  TypeOK'
  <2>1. nonce' \in Nonces \cup {Nil}
    BY <1>2 DEF requestNonce, FreshNonces
  <2>2. restartTimer' \in {"idle", "armed"}
    BY <1>2 DEF requestNonce, react, startNewRetryTimer, TypeOK
  <2>3. QED
    BY <1>1, <1>2, <2>1, <2>2 DEF requestNonce, TypeOK, States, escrows
<1>3. ASSUME NEW e, Receive(e), requestInternalQuote
      PROVE  TypeOK'
  BY <1>1, <1>3 DEF requestInternalQuote, TypeOK, States, escrows
<1>4. ASSUME NEW e, Receive(e), sendAttestQuote
      PROVE  TypeOK'
  <2>1. restartTimer' \in {"idle", "armed"} /\ controllerKey' \in BOOLEAN
    BY <1>4 DEF sendAttestQuote, react, startNewRetryTimer, TypeOK
  <2>2. attestationTried' \in BOOLEAN
    BY <1>4 DEF sendAttestQuote, TypeOK
  <2>3. QED
    BY <1>1, <1>4, <2>1, <2>2 DEF sendAttestQuote, TypeOK, States, topics
<1>5. ASSUME NEW e, Receive(e), sendAttestEscrow
      PROVE  TypeOK'
  <2>1. restartTimer' \in {"idle", "armed"} /\ publishedAttestEscrow' \in BOOLEAN
    BY <1>5 DEF sendAttestEscrow, react, startNewRetryTimer, TypeOK
  <2>2. QED
    BY <1>1, <1>5, <2>1 DEF sendAttestEscrow, TypeOK, States, cycle, topics
<1>6. ASSUME NEW e, Receive(e), gotoRestartWait
      PROVE  TypeOK'
  BY <1>1, <1>6 DEF gotoRestartWait, startNewRetryTimer, TypeOK, States, cycle, escrows, topics
<1>7. ASSUME NEW e, Receive(e), NEW pending \in BOOLEAN, gotoNone(pending)
      PROVE  TypeOK'
  BY <1>1, <1>7 DEF gotoNone, TypeOK, States, cycle, escrows, topics
<1>8. CASE EventLoop
  <2>1. restartRequestPending \in BOOLEAN
    BY DEF TypeOK
  <2>2. CASE handleInitializeAtNone \/ handleRestartAtNone
    BY <1>2, <2>2 DEF handleInitializeAtNone, handleRestartAtNone
  <2>3. CASE handleNonceRecvdAtNonceWait
    BY <1>3, <2>3 DEF handleNonceRecvdAtNonceWait
  <2>4. CASE handleInternalQuoteRecvdAtInternalQuoteWait \/ handleRetryTimerExpiryAtAttestWait
    BY <1>4, <2>4 DEF handleInternalQuoteRecvdAtInternalQuoteWait,
                      handleRetryTimerExpiryAtAttestWait
  <2>5. CASE \/ handleAttestSuccessfulAtAttestWait
             \/ handleInternalEscrowRecvdAtInternalEscrowWait
             \/ handleRetryTimerExpiryWhileAttestEscrowWait
    BY <1>5, <2>5 DEF handleAttestSuccessfulAtAttestWait,
         handleInternalEscrowRecvdAtInternalEscrowWait, handleRetryTimerExpiryWhileAttestEscrowWait
  <2>6. CASE \/ handleMismatchAtAttestWait \/ handleAttestEscrowFailedAtAttestEscrowWait
             \/ handleRestartAtStateComplete
    BY <1>6, <2>6 DEF handleMismatchAtAttestWait, handleAttestEscrowFailedAtAttestEscrowWait,
         handleRestartAtStateComplete
  <2>7. CASE handleRetryTimerExpiryAtRestartWait \/ handleRetryTimerExpiryAtNonceWait
    BY <1>7, <2>1, <2>7 DEF handleRetryTimerExpiryAtRestartWait, handleRetryTimerExpiryAtNonceWait
  <2>8. CASE handleAttestEscrowRecordedAtAttestEscrowWait
    BY <1>1, <1>6, <2>8 DEF handleAttestEscrowRecordedAtAttestEscrowWait, TypeOK, States,
         cycle, escrows, topics
  <2>9. CASE handleNoEscrowAtAttestEscrowWait
    BY <1>1, <2>9 DEF handleNoEscrowAtAttestEscrowWait, TypeOK, States, cycle, escrows, topics
  <2>10. CASE handleInternalEscrowRecvdAtAnyOther \/ unexpectedEvent
    BY <1>1, <2>10 DEF handleInternalEscrowRecvdAtAnyOther, unexpectedEvent, TypeOK,
         fsm, cycle, escrows, topics
  <2>11. CASE handleRestart
    BY <1>1, <2>11 DEF handleRestart, TypeOK, cycle, escrows, topics
  <2>12. CASE retryTimerExpires
    BY <2>12 DEF retryTimerExpires, TypeOK, cycle, escrows, topics
  <2>13. QED
    BY <1>8, <2>2, <2>3, <2>4, <2>5, <2>6, <2>7, <2>8, <2>9, <2>10, <2>11, <2>12 DEF EventLoop
<1>9. CASE Threads
  <2>1. CASE selfEventSent \/ mainSent
    BY <2>1 DEF selfEventSent, mainSent, TypeOK, Events, SelfEvents, fsm, cycle, escrows, topics
  <2>2. CASE attestModuleStart
    BY <2>2 DEF attestModuleStart, TypeOK, fsm, cycle, escrows, topics
  <2>3. CASE handleAttestQuoteImpl \/ handleAttestQuoteDelete
    BY <2>3 DEF handleAttestQuoteImpl, handleAttestQuoteDelete, TypeOK, fsm, chan, escrows
  <2>4. CASE handleEncryptedKeyFromDeviceImpl
    BY <2>4 DEF handleEncryptedKeyFromDeviceImpl, TypeOK, fsm, cycle, topics
  <2>5. CASE handleAttestNonceImpl \/ handleAttestNonceDelete
    BY <2>5 DEF handleAttestNonceImpl, handleAttestNonceDelete, TypeOK, fsm, chan, cycle, escrows
  <2>6. QED
    BY <1>9, <2>1, <2>2, <2>3, <2>4, <2>5 DEF Threads
<1>10. CASE RestartAttestation
  BY <1>10 DEF RestartAttestation, TypeOK, Events, fsm, cycle, escrows, topics
<1>11. CASE publishVaultKey
  BY <1>11 DEF publishVaultKey, TypeOK, fsm, chan, cycle, topics
<1>12. CASE reboot
  BY <1>12 DEF reboot, TypeOK, States
<1>13. QED
  BY <1>8, <1>9, <1>10, <1>11, <1>12 DEF Next

-----------------------------------------------------------------------------
(* What the machine waits for *)

\* Nothing is on its way to the machine but possibly an Initialize
Quiet == (\A e \in Answers : selfEvents[e] = 0) /\ restartTimer = "idle"

\* The answer the loop takes is the only one: nothing else is on its way afterwards,
\* and it has a row in the table.  In a state that waits for no answer there is none.
LEMMA Taken ==
  ASSUME TypeOK, DriverInv, NEW e \in Events, Receive(e),
         e \in Answers \/ state \in {"None", "InternalQuoteWait", "InternalEscrowWait", "Complete"}
  PROVE  Quiet /\ (e \in Answers => state \in HandledIn(e) /\ e \in Waits(state, usingV2API))
<1>1. PICK d \in Waits(state, usingV2API) : DriverIs(d)
  BY DEF DriverInv
<1>2. \A a \in Answers : selfEvents[a] \in Nat
  BY DEF TypeOK, Answers
<1>3. eventTrigger = e
  BY DEF Receive
<1>4. CASE e \in Answers
  <2>1. d = e
    BY <1>1, <1>2, <1>3, <1>4 DEF DriverIs, Load
  <2>2. e # "timer"
    BY <1>4 DEF Answers, SelfEvents
  <2>3. Quiet
    BY <1>1, <1>2, <1>3, <2>1, <2>2 DEF DriverIs, Load, Quiet
  <2>4. state \in HandledIn(e)
    BY <1>1, <2>1, <1>4 DEF Waits, HandledIn, Answers, SelfEvents, States, TypeOK
  <2>5. QED
    BY <1>1, <2>1, <2>3, <2>4
<1>5. CASE e \notin Answers
  <2>1. d = "nothing"
    BY <1>1, <1>5 DEF Waits
  <2>2. "nothing" \notin Answers
    BY DEF Answers, SelfEvents
  <2>3. QED
    BY <1>1, <1>2, <1>3, <1>5, <2>1, <2>2 DEF DriverIs, Load, Quiet
<1>6. QED
  BY <1>4, <1>5

\* What a handler waits for after an answer of the controller
Driver(answer) ==
  IF answer \in Answers THEN answer
  ELSE IF answer = "ErrControllerReqFailed" THEN "timer" ELSE "nothing"

\* From a quiet machine, a handler's reaction leaves exactly one thing to wait for
LEMMA Reaction ==
  ASSUME TypeOK, Quiet, NEW answer, answer # "Initialize", react(answer), eventTrigger' = NoEvent
  PROVE  DriverIs(Driver(answer))' /\ selfEvents'["Initialize"] = selfEvents["Initialize"]
<1>1. selfEvents \in [SelfEvents -> Nat] /\ "Initialize" \in SelfEvents
  BY DEF TypeOK, SelfEvents
<1>2. "timer" \notin Answers /\ "nothing" \notin Answers /\ NoEvent \notin Answers
        /\ "ErrControllerReqFailed" \notin SelfEvents
  BY DEF Answers, SelfEvents, NoEvent
<1>3. \A e \in Answers : Load(e)' = selfEvents'[e]
  <2>1. selfEvents' \in [SelfEvents -> Nat]
    BY <1>1 DEF react, triggerSelfEvent
  <2>2. QED
    BY <1>2, <2>1 DEF Load, Answers
<1>4. CASE answer \in SelfEvents
  <2>1. answer \in Answers /\ selfEvents' = [selfEvents EXCEPT ![answer] = @ + 1]
           /\ restartTimer' = "idle"
    BY <1>2, <1>4 DEF Answers, react, triggerSelfEvent, Quiet
  <2>2. \A e \in Answers : selfEvents'[e] = IF e = answer THEN 1 ELSE 0
    BY <1>1, <2>1 DEF Quiet, Answers
  <2>3. QED
    BY <1>1, <1>2, <1>3, <2>1, <2>2 DEF DriverIs, Driver, Answers
<1>5. CASE answer \notin SelfEvents
  <2>1. answer \notin Answers /\ selfEvents' = selfEvents
    BY <1>5 DEF Answers, react
  <2>2. restartTimer' = IF answer = "ErrControllerReqFailed" THEN "armed" ELSE "idle"
    BY <1>5 DEF react, startNewRetryTimer, Quiet
  <2>3. QED
    BY <1>1, <1>2, <1>3, <2>1, <2>2 DEF DriverIs, Driver, Quiet
<1>6. QED
  BY <1>4, <1>5

\* A step that leaves the answers, the timer and the state alone keeps what is waited for
LEMMA DriverKept ==
  ASSUME DriverInv, UNCHANGED <<state, usingV2API, restartTimer>>,
         \A e \in Answers : Load(e)' = Load(e)
  PROVE  DriverInv'
  BY DEF DriverInv, DriverIs

\* Taking an event that is no answer leaves the answers alone
LEMMA OtherTaken ==
  ASSUME TypeOK, NEW e, e \notin Answers, Receive(e), UNCHANGED selfEvents
  PROVE  \A a \in Answers : Load(a)' = Load(a)
  BY DEF Receive, Load, Answers, SelfEvents, NoEvent

\* The machine waits for exactly one thing at a time, whatever the threads do.  A handler
\* starts from a quiet machine, since the answer it takes was the only one.
LEMMA DriverStep ==
  ASSUME TypeOK, DriverInv, StartInv, NonceInv, Next, selfEvents' \in [SelfEvents -> Nat]
  PROVE  DriverInv'
<1> USE DEF NoEvent
<1>1. selfEvents \in [SelfEvents -> Nat] /\ "Initialize" \in SelfEvents
         /\ "Initialize" \notin Answers /\ Answers \subseteq SelfEvents /\ NoEvent \notin Answers
         /\ "timer" \notin Answers /\ "nothing" \notin Answers /\ "RetryTimerExpiry" \in Answers
  BY DEF TypeOK, SelfEvents, Answers
<1>2. \A e \in Answers : eventTrigger' = NoEvent => Load(e)' = selfEvents'[e]
  BY <1>1 DEF Load
<1>3. ASSUME NEW e \in Events, Receive(e), Quiet, requestNonce
      PROVE  DriverInv'
  <2>1. PICK answer \in (IF usingV2API THEN {"NonceRecvd", "ErrControllerReqFailed"}
                                       ELSE {"ErrNoVerifier"}) : react(answer)
    BY <1>3 DEF requestNonce
  <2>2. DriverIs(Driver(answer))'
    BY <1>3, <2>1, Reaction DEF Receive
  <2>3. Driver(answer) \in Waits(state', usingV2API')
    BY <1>3, <2>1 DEF requestNonce, Driver, Answers, SelfEvents, Waits
  <2>4. QED
    BY <2>2, <2>3 DEF DriverInv
<1>4. ASSUME NEW e \in Events, Receive(e), Quiet, sendAttestQuote
      PROVE  DriverInv'
  <2>1. PICK answer \in (IF usingV2API THEN {"AttestSuccessful", "NonceMismatch",
                           "QuoteMismatch", "NoQuoteCertRecvd", "ErrControllerReqFailed"}
                                       ELSE {"ErrNoVerifier"}) : react(answer)
    BY <1>4 DEF sendAttestQuote
  <2>2. DriverIs(Driver(answer))'
    BY <1>4, <2>1, Reaction DEF Receive
  <2>3. Driver(answer) \in Waits(state', usingV2API')
    BY <1>4, <2>1 DEF sendAttestQuote, Driver, Answers, SelfEvents, Waits
  <2>4. QED
    BY <2>2, <2>3 DEF DriverInv
<1>5. ASSUME NEW e \in Events, Receive(e), Quiet, sendAttestEscrow
      PROVE  DriverInv'
  <2>1. PICK answer \in EscrowAnswers : react(answer)
    BY <1>5 DEF sendAttestEscrow
  <2>2. answer \in (IF usingV2API THEN {"AttestEscrowRecorded", "AttestEscrowFailed", "NoEscrow",
                                        "ErrControllerReqFailed"}
                                  ELSE {"ErrNoVerifier"})
    <3>1. CASE ~usingV2API
      BY <2>1, <3>1 DEF EscrowAnswers
    <3>2. CASE usingV2API /\ escrow = "skip"
      BY <2>1, <3>2 DEF EscrowAnswers
    <3>3. CASE usingV2API /\ escrow = "none"
      BY <2>1, <3>3 DEF EscrowAnswers
    <3>4. CASE usingV2API /\ escrow \notin {"skip", "none"}
      BY <2>1, <3>4 DEF EscrowAnswers
    <3>5. QED
      BY <3>1, <3>2, <3>3, <3>4
  <2>3. DriverIs(Driver(answer))'
    BY <1>5, <2>1, <2>2, Reaction DEF Receive
  <2>4. Driver(answer) \in Waits(state', usingV2API')
    BY <1>5, <2>2 DEF sendAttestEscrow, cycle, Driver, Answers, SelfEvents, Waits
  <2>5. QED
    BY <2>3, <2>4 DEF DriverInv
<1>6. ASSUME NEW e \in Events, Receive(e), Quiet, gotoRestartWait
      PROVE  DriverInv'
  <2>1. DriverIs("timer")'
    BY <1>1, <1>2, <1>6 DEF gotoRestartWait, startNewRetryTimer, Receive, Quiet, DriverIs
  <2>2. QED
    BY <1>6, <2>1 DEF gotoRestartWait, DriverInv, Waits
<1>7. ASSUME NEW e \in Events, Receive(e), Quiet, NEW pending, gotoNone(pending)
      PROVE  DriverInv'
  <2>1. DriverIs("nothing")'
    BY <1>1, <1>2, <1>7 DEF gotoNone, triggerSelfEvent, Receive, Quiet, DriverIs
  <2>2. QED
    BY <1>7, <2>1 DEF gotoNone, DriverInv, Waits
<1>8. ASSUME NEW e \in Events, Receive(e), Quiet, UNCHANGED <<selfEvents, restartTimer>>,
             state' \in {"InternalQuoteWait", "InternalEscrowWait", "Complete"}
      PROVE  DriverInv'
  <2>1. DriverIs("nothing")'
    BY <1>1, <1>2, <1>8 DEF Receive, Quiet, DriverIs
  <2>2. QED
    BY <1>8, <2>1 DEF DriverInv, Waits
<1>9. CASE EventLoop
  <2>1. {"NonceRecvd", "NonceMismatch", "QuoteMismatch", "NoQuoteCertRecvd", "AttestSuccessful",
         "AttestEscrowFailed", "AttestEscrowRecorded", "NoEscrow", "RetryTimerExpiry"}
          \subseteq Answers
        /\ {"Restart", "InternalEscrowRecvd", "InternalQuoteRecvd"} \cap Answers = {}
        /\ Answers \subseteq Events /\ "Initialize" \in Events /\ "Restart" \in Events
        /\ "InternalQuoteRecvd" \in Events /\ "InternalEscrowRecvd" \in Events
    BY DEF Answers, SelfEvents, Events
  <2>2. CASE handleInitializeAtNone \/ handleRestartAtNone
    BY <1>3, <2>1, <2>2, Taken DEF handleInitializeAtNone, handleRestartAtNone
  <2>3. CASE handleNonceRecvdAtNonceWait
    BY <1>8, <2>1, <2>3, Taken DEF handleNonceRecvdAtNonceWait, requestInternalQuote
  <2>4. CASE handleInternalQuoteRecvdAtInternalQuoteWait \/ handleRetryTimerExpiryAtAttestWait
    BY <1>4, <2>1, <2>4, Taken DEF handleInternalQuoteRecvdAtInternalQuoteWait,
                      handleRetryTimerExpiryAtAttestWait
  <2>5. CASE \/ handleAttestSuccessfulAtAttestWait
             \/ handleInternalEscrowRecvdAtInternalEscrowWait
             \/ handleRetryTimerExpiryWhileAttestEscrowWait
    BY <1>5, <2>1, <2>5, Taken DEF handleAttestSuccessfulAtAttestWait,
         handleInternalEscrowRecvdAtInternalEscrowWait, handleRetryTimerExpiryWhileAttestEscrowWait
  <2>6. CASE \/ handleMismatchAtAttestWait \/ handleAttestEscrowFailedAtAttestEscrowWait
             \/ handleRestartAtStateComplete
    BY <1>6, <2>1, <2>6, Taken DEF handleMismatchAtAttestWait,
         handleAttestEscrowFailedAtAttestEscrowWait, handleRestartAtStateComplete
  <2>7. CASE handleRetryTimerExpiryAtRestartWait \/ handleRetryTimerExpiryAtNonceWait
    BY <1>7, <2>1, <2>7, Taken DEF handleRetryTimerExpiryAtRestartWait,
         handleRetryTimerExpiryAtNonceWait
  <2>8. CASE handleAttestEscrowRecordedAtAttestEscrowWait
    BY <1>6, <1>8, <2>1, <2>8, Taken DEF handleAttestEscrowRecordedAtAttestEscrowWait
  <2>9. CASE handleNoEscrowAtAttestEscrowWait
    BY <1>8, <2>1, <2>9, Taken DEF handleNoEscrowAtAttestEscrowWait
  <2>10. CASE handleInternalEscrowRecvdAtAnyOther
    BY <2>1, <2>10, OtherTaken, DriverKept DEF handleInternalEscrowRecvdAtAnyOther, fsm, cycle
  <2>11. CASE handleRestart
    BY <2>1, <2>11, OtherTaken, DriverKept DEF handleRestart, cycle
  <2>12. CASE unexpectedEvent
    <3>1. PICK e \in Events : Receive(e) /\ state \notin HandledIn(e)
      BY <2>12 DEF unexpectedEvent
    <3>2. e \notin Answers
      BY <3>1, Taken
    <3>3. QED
      BY <2>12, <3>1, <3>2, OtherTaken, DriverKept DEF unexpectedEvent, fsm, cycle
  <2>13. CASE retryTimerExpires
    <3>1. PICK d \in Waits(state, usingV2API) : DriverIs(d)
      BY DEF DriverInv
    <3>2. d = "timer"
      BY <2>13, <3>1 DEF retryTimerExpires, DriverIs
    <3>3. "RetryTimerExpiry" \in Waits(state, usingV2API)
      BY <3>1, <3>2 DEF Waits
    <3>4. \A e \in Answers : Load(e) = 0
      BY <1>1, <3>1, <3>2 DEF DriverIs
    <3>5. \A e \in Answers : Load(e)' = IF e = "RetryTimerExpiry" THEN 1 ELSE 0
      BY <1>1, <2>13, <3>4 DEF retryTimerExpires, triggerSelfEvent, Load
    <3>6. DriverIs("RetryTimerExpiry")'
      BY <1>1, <2>13, <3>5 DEF retryTimerExpires, DriverIs
    <3>7. QED
      BY <2>13, <3>3, <3>6 DEF retryTimerExpires, cycle, DriverInv
  <2>14. QED
    BY <1>9, <2>2, <2>3, <2>4, <2>5, <2>6, <2>7, <2>8, <2>9, <2>10, <2>11, <2>12, <2>13
       DEF EventLoop
<1>10. CASE Threads
  <2>1. CASE selfEventSent
    <3>1. \A e \in SelfEvents : Load(e)' = Load(e)
      BY <1>1, <2>1 DEF selfEventSent, Load, SelfEvents
    <3>2. QED
      BY <1>1, <2>1, <3>1, DriverKept DEF selfEventSent, fsm, cycle
  <2>2. CASE mainSent
    <3>1. mainSend \notin Answers
      BY DEF TypeOK, Answers, SelfEvents
    <3>2. \A e \in Answers : Load(e)' = Load(e)
      BY <1>1, <2>2, <3>1 DEF mainSent, Load
    <3>3. QED
      BY <2>2, <3>2, DriverKept DEF mainSent, fsm, cycle
  <2>3. CASE UNCHANGED <<eventTrigger, selfEvents, fsm, usingV2API>>
    BY <2>3, DriverKept DEF fsm, Load
  <2>4. QED
    BY <1>10, <2>1, <2>2, <2>3 DEF Threads, attestModuleStart, handleAttestQuoteImpl,
         handleAttestQuoteDelete, handleEncryptedKeyFromDeviceImpl, handleAttestNonceImpl,
         handleAttestNonceDelete, chan, cycle
<1>11. CASE RestartAttestation
  <2>1. \A e \in Answers : Load(e)' = Load(e)
    BY <1>1, <1>11 DEF RestartAttestation, Load, Answers, SelfEvents
  <2>2. QED
    BY <1>11, <2>1, DriverKept DEF RestartAttestation, fsm, cycle
<1>12. CASE publishVaultKey
  BY <1>12, DriverKept DEF publishVaultKey, fsm, chan, cycle, Load
<1>13. CASE reboot
  <2>1. DriverIs("nothing")'
    BY <1>1, <1>2, <1>13 DEF reboot, DriverIs
  <2>2. QED
    BY <1>13, <2>1 DEF reboot, DriverInv, Waits
<1>14. QED
  BY <1>9, <1>10, <1>11, <1>12, <1>13 DEF Next

\* Where an answer can be on its way, stated of the state after a step
LEMMA LoadPlace ==
  ASSUME DriverInv'
  PROVE  /\ Load("NonceRecvd")' > 0 => state' = "NonceWait"
         /\ Load("AttestEscrowRecorded")' > 0 => state' = "AttestEscrowWait"
<1>1. PICK d \in Waits(state', usingV2API') : DriverIs(d)'
  BY DEF DriverInv
<1>2. {"NonceRecvd", "AttestEscrowRecorded"} \subseteq Answers
  BY DEF Answers, SelfEvents
<1>3. /\ Load("NonceRecvd")' > 0 => d = "NonceRecvd"
      /\ Load("AttestEscrowRecorded")' > 0 => d = "AttestEscrowRecorded"
  BY <1>1, <1>2 DEF DriverIs
<1>4. QED
  BY <1>1, <1>3 DEF Waits

-----------------------------------------------------------------------------
(* Initialize events *)

\* Before the loop runs nothing happens that it would have to see
LEMMA StartStep ==
  ASSUME TypeOK, DriverInv, StartInv, Next
  PROVE  StartInv'
<1> USE DEF NoEvent
<1>1. CASE reboot
  BY <1>1 DEF reboot, StartInv, SelfEvents
<1>2. CASE started
  <2>1. CASE started'
    BY <2>1 DEF StartInv
  <2>2. CASE reboot
    BY <1>1, <2>2
  <2>3. CASE EventLoop
    BY <1>2, <2>3 DEF EventLoop, StartInv, Receive, handleInitializeAtNone, handleRestartAtNone,
         handleNonceRecvdAtNonceWait, handleInternalQuoteRecvdAtInternalQuoteWait,
         handleMismatchAtAttestWait, handleAttestSuccessfulAtAttestWait,
         handleNoEscrowAtAttestEscrowWait, handleAttestEscrowFailedAtAttestEscrowWait,
         handleAttestEscrowRecordedAtAttestEscrowWait,
         handleInternalEscrowRecvdAtInternalEscrowWait, handleInternalEscrowRecvdAtAnyOther,
         handleRestartAtStateComplete, handleRestart, handleRetryTimerExpiryAtRestartWait,
         handleRetryTimerExpiryAtNonceWait, handleRetryTimerExpiryAtAttestWait,
         handleRetryTimerExpiryWhileAttestEscrowWait, unexpectedEvent, retryTimerExpires
  <2>4. CASE Threads
    BY <1>2, <2>4 DEF Threads, StartInv, selfEventSent, mainSent, attestModuleStart,
         handleAttestQuoteImpl, handleAttestQuoteDelete, handleEncryptedKeyFromDeviceImpl,
         handleAttestNonceImpl, handleAttestNonceDelete, chan
  <2>5. CASE RestartAttestation \/ publishVaultKey
    BY <1>2, <2>5 DEF RestartAttestation, publishVaultKey, chan, StartInv
  <2>6. QED
    BY <2>2, <2>3, <2>4, <2>5 DEF Next
<1>3. CASE ~started /\ ~reboot
  <2>1. state = "None" /\ eventTrigger = NoEvent /\ mainSend = NoEvent
    BY <1>3 DEF StartInv
  <2>2. DriverIs("nothing")
    BY <2>1 DEF DriverInv, Waits
  <2>3. \A e \in SelfEvents : selfEvents[e] = 0
    <3>1. "Initialize" \in SelfEvents /\ "nothing" \notin Answers /\ NoEvent \notin Answers
      BY DEF SelfEvents, Answers
    <3>2. \A e \in Answers : selfEvents[e] = 0
      BY <2>1, <2>2, <3>1 DEF DriverIs, Load, TypeOK, Answers
    <3>3. QED
      BY <1>3, <3>2 DEF StartInv, Answers
  <2>4. restartTimer = "idle"
    BY <2>2 DEF DriverIs
  <2>5. ~EventLoop
    BY <1>3, <2>4 DEF EventLoop, Receive, handleInitializeAtNone, handleRestartAtNone,
         handleNonceRecvdAtNonceWait, handleInternalQuoteRecvdAtInternalQuoteWait,
         handleMismatchAtAttestWait, handleAttestSuccessfulAtAttestWait,
         handleNoEscrowAtAttestEscrowWait, handleAttestEscrowFailedAtAttestEscrowWait,
         handleAttestEscrowRecordedAtAttestEscrowWait,
         handleInternalEscrowRecvdAtInternalEscrowWait, handleInternalEscrowRecvdAtAnyOther,
         handleRestartAtStateComplete, handleRestart, handleRetryTimerExpiryAtRestartWait,
         handleRetryTimerExpiryAtNonceWait, handleRetryTimerExpiryAtAttestWait,
         handleRetryTimerExpiryWhileAttestEscrowWait, unexpectedEvent, retryTimerExpires
  <2>6. ~selfEventSent /\ ~mainSent /\ ~handleAttestQuoteImpl /\ ~RestartAttestation
    BY <1>3, <2>1, <2>3 DEF selfEventSent, mainSent, handleAttestQuoteImpl, RestartAttestation
  <2>7. CASE attestModuleStart
    BY <2>7 DEF attestModuleStart, StartInv
  <2>8. CASE UNCHANGED <<state, eventTrigger, selfEvents, mainSend, started>>
    BY <2>8 DEF StartInv
  <2>9. CASE handleEncryptedKeyFromDeviceImpl
    BY <1>3, <2>1, <2>9 DEF handleEncryptedKeyFromDeviceImpl, StartInv, fsm
  <2>10. QED
    BY <1>3, <2>5, <2>6, <2>7, <2>8, <2>9 DEF Next, Threads, handleAttestQuoteDelete,
         handleAttestNonceImpl, handleAttestNonceDelete, publishVaultKey, chan, fsm
<1>4. QED
  BY <1>1, <1>2, <1>3

\* Every Initialize that outlives its None has a restart that overtook it
LEMMA InitializeStep ==
  ASSUME TypeOK, StartInv, InitializeInv, Next, selfEvents' \in [SelfEvents -> Nat]
  PROVE  InitializeInv'
<1> USE DEF NoEvent
<1>1. selfEvents["Initialize"] \in Nat /\ selfEvents'["Initialize"] \in Nat /\ restarts \in Nat
         /\ "Initialize" \in SelfEvents /\ selfEvents \in [SelfEvents -> Nat]
  BY DEF TypeOK, SelfEvents
<1>2. ASSUME NEW e, Receive(e), selfEvents'["Initialize"] = selfEvents["Initialize"],
             restarts' = restarts,
             state = "None" => state' = "None" \/ e \in {"Initialize", "Restart"}
      PROVE  InitializeInv'
  BY <1>1, <1>2 DEF Receive, InitializeInv, Initializes, Load
<1>3. ASSUME NEW e, Receive(e), NEW pending, gotoNone(pending), state # "None"
      PROVE  InitializeInv'
  <2>1. selfEvents'["Initialize"] = selfEvents["Initialize"] + 1
    BY <1>1, <1>3 DEF gotoNone, triggerSelfEvent
  <2>2. QED
    BY <1>1, <1>3, <2>1 DEF gotoNone, Receive, InitializeInv, Initializes, Load
<1>4. ASSUME NEW answer, answer # "Initialize", react(answer)
      PROVE  selfEvents'["Initialize"] = selfEvents["Initialize"]
  BY <1>1, <1>4 DEF react, triggerSelfEvent
<1>5. requestNonce \/ sendAttestQuote
        => selfEvents'["Initialize"] = selfEvents["Initialize"] /\ restarts' = restarts
  BY <1>4 DEF requestNonce, sendAttestQuote
<1>6. sendAttestEscrow
        => selfEvents'["Initialize"] = selfEvents["Initialize"] /\ restarts' = restarts
  BY <1>4 DEF sendAttestEscrow, EscrowAnswers
<1>7. CASE EventLoop
  <2>1. CASE handleInitializeAtNone \/ handleRestartAtNone
    BY <1>2, <1>5, <2>1 DEF handleInitializeAtNone, handleRestartAtNone
  <2>2. CASE handleInternalQuoteRecvdAtInternalQuoteWait \/ handleRetryTimerExpiryAtAttestWait
    BY <1>2, <1>5, <2>2 DEF handleInternalQuoteRecvdAtInternalQuoteWait,
         handleRetryTimerExpiryAtAttestWait
  <2>3. CASE \/ handleAttestSuccessfulAtAttestWait
             \/ handleInternalEscrowRecvdAtInternalEscrowWait
             \/ handleRetryTimerExpiryWhileAttestEscrowWait
    BY <1>2, <1>6, <2>3 DEF handleAttestSuccessfulAtAttestWait,
         handleInternalEscrowRecvdAtInternalEscrowWait, handleRetryTimerExpiryWhileAttestEscrowWait
  <2>4. CASE handleRetryTimerExpiryAtRestartWait \/ handleRetryTimerExpiryAtNonceWait
    BY <1>3, <2>4 DEF handleRetryTimerExpiryAtRestartWait, handleRetryTimerExpiryAtNonceWait
  <2>5. CASE retryTimerExpires
    <3>1. selfEvents'["Initialize"] = selfEvents["Initialize"]
      BY <1>1, <2>5 DEF retryTimerExpires, triggerSelfEvent
    <3>2. QED
      BY <2>5, <3>1 DEF retryTimerExpires, InitializeInv, Initializes, Load
  <2>6. CASE \/ handleNonceRecvdAtNonceWait \/ handleMismatchAtAttestWait
             \/ handleNoEscrowAtAttestEscrowWait \/ handleAttestEscrowFailedAtAttestEscrowWait
             \/ handleAttestEscrowRecordedAtAttestEscrowWait
             \/ handleInternalEscrowRecvdAtAnyOther \/ handleRestartAtStateComplete
             \/ handleRestart \/ unexpectedEvent
    BY <1>2, <2>6 DEF handleNonceRecvdAtNonceWait, handleMismatchAtAttestWait,
         handleNoEscrowAtAttestEscrowWait, handleAttestEscrowFailedAtAttestEscrowWait,
         handleAttestEscrowRecordedAtAttestEscrowWait, handleInternalEscrowRecvdAtAnyOther,
         handleRestartAtStateComplete, handleRestart, unexpectedEvent, requestInternalQuote,
         gotoRestartWait, fsm
  <2>7. QED
    BY <1>7, <2>1, <2>2, <2>3, <2>4, <2>5, <2>6 DEF EventLoop
<1>8. CASE Threads
  <2>1. CASE selfEventSent
    <3>1. Load("Initialize")' = Load("Initialize") /\ eventTrigger' # "Restart"
      BY <1>1, <2>1 DEF selfEventSent, Load, SelfEvents
    <3>2. QED
      BY <2>1, <3>1 DEF selfEventSent, InitializeInv, Initializes, fsm
  <2>2. CASE mainSent
    BY <1>1, <2>2 DEF mainSent, InitializeInv, Initializes, Load, TypeOK, fsm
  <2>3. CASE attestModuleStart
    BY <1>1, <2>3 DEF attestModuleStart, StartInv, InitializeInv, Initializes, Load, fsm
  <2>4. CASE handleAttestQuoteImpl \/ handleEncryptedKeyFromDeviceImpl
    BY <1>1, <2>4 DEF handleAttestQuoteImpl, handleEncryptedKeyFromDeviceImpl, InitializeInv,
         Initializes, Load, fsm
  <2>5. CASE handleAttestQuoteDelete \/ handleAttestNonceImpl \/ handleAttestNonceDelete
    BY <2>5 DEF handleAttestQuoteDelete, handleAttestNonceImpl, handleAttestNonceDelete,
         InitializeInv, Initializes, Load, fsm, chan
  <2>6. QED
    BY <1>8, <2>1, <2>2, <2>3, <2>4, <2>5 DEF Threads
<1>9. CASE RestartAttestation
  BY <1>1, <1>9 DEF RestartAttestation, InitializeInv, Initializes, Load, fsm
<1>10. CASE publishVaultKey
  BY <1>10 DEF publishVaultKey, InitializeInv, Initializes, Load, fsm, chan
<1>11. CASE reboot
  BY <1>1, <1>11 DEF reboot, InitializeInv, Initializes, Load
<1>12. QED
  BY <1>7, <1>8, <1>9, <1>10, <1>11 DEF Next

-----------------------------------------------------------------------------
(* Nonces and quotes *)

\* The quote stored, the nonce published and the cycle of the machine stay together: a new
\* nonce is asked for only when the old one is withdrawn, and a late deletion of a quote
\* never meets the quote of the present nonce.
LEMMA NonceStep ==
  ASSUME TypeOK, DriverInv, NonceInv, Next, selfEvents' \in [SelfEvents -> Nat], DriverInv'
  PROVE  NonceInv'
<1> USE DEF NoEvent
<1>1. Nil \notin Nonces /\ nonce \in Nonces \cup {Nil} /\ pubQuotes \subseteq Nonces
        /\ quotesSeen \subseteq Nonces /\ pubNonces \subseteq Nonces
  BY NilAssumption DEF TypeOK
<1>2. Load("NonceRecvd")' > 0 => state' = "NonceWait"
  BY LoadPlace
<1>3. ASSUME NEW e, Receive(e), e # "InternalQuoteRecvd"
      PROVE  QuoteReported' <=> QuoteReported
  BY <1>3 DEF Receive, QuoteReported
<1>4. ASSUME NEW e \in Events, Receive(e), e # "InternalQuoteRecvd",
             state \notin {"InternalQuoteWait", "AttestWait"},
             state' \notin {"InternalQuoteWait", "AttestWait", "NonceWait"},
             UNCHANGED <<nonce, topics>>
      PROVE  NonceInv'
  BY <1>2, <1>3, <1>4 DEF NonceInv, QuoteMatchesNonce, topics
<1>5. ASSUME NEW e \in Events, Receive(e), e # "InternalQuoteRecvd",
             UNCHANGED <<state, nonce, internalQuote, topics>>, Load("NonceRecvd")' = Load("NonceRecvd")
      PROVE  NonceInv'
  <2>1. eventTrigger' # "InternalQuoteRecvd" /\ mainSend' = mainSend
    BY <1>5 DEF Receive
  <2>2. QED
    BY <1>3, <1>5, <2>1 DEF NonceInv, QuoteMatchesNonce, topics
<1>6. ASSUME NEW e \in Events, Receive(e), e # "InternalQuoteRecvd",
             state = "AttestWait", state' \notin {"InternalQuoteWait", "AttestWait", "NonceWait"},
             UNCHANGED <<nonce, topics>>
      PROVE  NonceInv'
  BY <1>2, <1>3, <1>6 DEF NonceInv, QuoteMatchesNonce, topics
<1>7. CASE EventLoop
  <2>1. SelfEvents \subseteq Events /\ {"Restart", "InternalEscrowRecvd"} \subseteq Events
          /\ {"NonceRecvd", "NonceMismatch", "QuoteMismatch", "NoQuoteCertRecvd",
              "AttestSuccessful", "AttestEscrowFailed", "AttestEscrowRecorded", "NoEscrow",
              "RetryTimerExpiry"} \subseteq Answers
          /\ Answers \subseteq SelfEvents
    BY DEF SelfEvents, Events, Answers
  <2>2. CASE handleInitializeAtNone \/ handleRestartAtNone
    <3>1. requestNonce /\ state = "None"
      BY <2>2 DEF handleInitializeAtNone, handleRestartAtNone
    <3>2. PICK e \in {"Initialize", "Restart"} : Receive(e)
      BY <2>2 DEF handleInitializeAtNone, handleRestartAtNone
    <3>3. Quiet
      BY <3>1, <3>2, Taken DEF Events, SelfEvents
    <3>4. PICK answer \in {"NonceRecvd", "ErrControllerReqFailed", "ErrNoVerifier"} :
             /\ nonce' \in (IF answer = "NonceRecvd" THEN FreshNonces ELSE {Nil})
             /\ react(answer)
      BY <3>1 DEF requestNonce
    <3>5. DriverIs(Driver(answer))'
      BY <3>2, <3>3, <3>4, Reaction DEF Receive
    <3>6. answer # "NonceRecvd" => Load("NonceRecvd")' = 0
      BY <3>4, <3>5 DEF DriverIs, Driver, Answers, SelfEvents
    <3>7. pubNonces' = {} /\ UNCHANGED <<pubQuotes, quotesSeen>> /\ state' = "NonceWait"
      BY <3>1 DEF requestNonce, NonceInv
    <3>8. nonce' \notin pubQuotes \cup quotesSeen
      BY <1>1, <3>4 DEF FreshNonces
    <3>9. Load("NonceRecvd")' > 0 => nonce' # Nil
      BY <1>1, <3>4, <3>6 DEF FreshNonces
    <3>10. ~QuoteReported' /\ pubQuotes \subseteq quotesSeen
      BY <1>3, <3>1, <3>2 DEF NonceInv
    <3>11. QED
      BY <3>7, <3>8, <3>9, <3>10 DEF NonceInv, QuoteMatchesNonce
  <2>3. CASE handleNonceRecvdAtNonceWait
    <3>1. state = "NonceWait" /\ Receive("NonceRecvd") /\ requestInternalQuote
      BY <2>1, <2>3, Taken DEF handleNonceRecvdAtNonceWait, Waits
    <3>2. Load("NonceRecvd") > 0
      BY <2>1, <3>1 DEF Receive, Load, TypeOK
    <3>3. nonce # Nil /\ pubNonces = {} /\ nonce \notin pubQuotes \cup quotesSeen
             /\ pubQuotes \subseteq quotesSeen /\ ~QuoteReported
      BY <3>1, <3>2 DEF NonceInv
    <3>4. ~QuoteReported'
      BY <1>3, <3>1, <3>3
    <3>5. QED
      BY <1>2, <3>1, <3>3, <3>4 DEF requestInternalQuote, NonceInv, QuoteReported, QuoteMatchesNonce
  <2>4. CASE handleInternalQuoteRecvdAtInternalQuoteWait
    <3>1. state = "InternalQuoteWait" /\ Receive("InternalQuoteRecvd") /\ sendAttestQuote
      BY <2>4 DEF handleInternalQuoteRecvdAtInternalQuoteWait
    <3>2. QuoteReported /\ mainSend # "InternalQuoteRecvd" /\ ~QuoteReported'
      BY <3>1 DEF Receive, QuoteReported, NonceInv
    <3>3. nonce \in pubQuotes /\ nonce \in quotesSeen /\ internalQuote = nonce
      BY <3>1, <3>2 DEF NonceInv
    <3>4. QED
      BY <1>2, <3>1, <3>2, <3>3 DEF sendAttestQuote, NonceInv, QuoteMatchesNonce, topics
  <2>5. CASE handleRetryTimerExpiryAtAttestWait
    <3>1. state = "AttestWait" /\ Receive("RetryTimerExpiry") /\ sendAttestQuote
      BY <2>5 DEF handleRetryTimerExpiryAtAttestWait
    <3>2. ~QuoteReported'
      BY <1>3, <3>1 DEF NonceInv
    <3>3. QED
      BY <1>2, <3>1, <3>2 DEF sendAttestQuote, NonceInv, QuoteMatchesNonce, topics
  <2>6. CASE handleAttestSuccessfulAtAttestWait \/ handleMismatchAtAttestWait
    BY <1>6, <2>1, <2>6 DEF handleAttestSuccessfulAtAttestWait, handleMismatchAtAttestWait,
         sendAttestEscrow, gotoRestartWait, cycle
  <2>7. CASE \/ handleInternalEscrowRecvdAtInternalEscrowWait
             \/ handleRetryTimerExpiryWhileAttestEscrowWait
    BY <1>4, <2>1, <2>7 DEF handleInternalEscrowRecvdAtInternalEscrowWait,
         handleRetryTimerExpiryWhileAttestEscrowWait, sendAttestEscrow, cycle
  <2>8. CASE \/ handleNoEscrowAtAttestEscrowWait \/ handleAttestEscrowFailedAtAttestEscrowWait
             \/ handleAttestEscrowRecordedAtAttestEscrowWait \/ handleRestartAtStateComplete
    BY <1>4, <2>1, <2>8 DEF handleNoEscrowAtAttestEscrowWait,
         handleAttestEscrowFailedAtAttestEscrowWait, handleAttestEscrowRecordedAtAttestEscrowWait,
         handleRestartAtStateComplete, gotoRestartWait, cycle
  <2>9. CASE handleRetryTimerExpiryAtRestartWait \/ handleRetryTimerExpiryAtNonceWait
    BY <1>4, <2>1, <2>9 DEF handleRetryTimerExpiryAtRestartWait, handleRetryTimerExpiryAtNonceWait,
         gotoNone, cycle
  <2>10. CASE handleInternalEscrowRecvdAtAnyOther \/ handleRestart
    <3>1. PICK e \in {"InternalEscrowRecvd", "Restart"} : Receive(e)
      BY <2>10 DEF handleInternalEscrowRecvdAtAnyOther, handleRestart
    <3>2. UNCHANGED <<state, selfEvents, cycle, topics>>
      BY <2>10 DEF handleInternalEscrowRecvdAtAnyOther, handleRestart, fsm
    <3>3. Load("NonceRecvd")' = Load("NonceRecvd")
      BY <3>1, <3>2 DEF Receive, Load
    <3>4. QED
      BY <1>5, <2>1, <3>1, <3>2, <3>3 DEF cycle
  <2>11. CASE unexpectedEvent
    <3>1. PICK e \in Events : Receive(e) /\ state \notin HandledIn(e)
      BY <2>11 DEF unexpectedEvent
    <3>2. e \notin Answers
      BY <3>1, Taken
    <3>3. e # "InternalQuoteRecvd"
      BY <3>1 DEF HandledIn, NonceInv, QuoteReported, Receive
    <3>4. Load("NonceRecvd")' = Load("NonceRecvd")
      BY <2>1, <2>11, <3>1, <3>2, OtherTaken DEF unexpectedEvent
    <3>5. QED
      BY <1>5, <2>11, <3>1, <3>3, <3>4 DEF unexpectedEvent, fsm, cycle
  <2>12. CASE retryTimerExpires
    <3>1. Load("NonceRecvd")' = Load("NonceRecvd")
      BY <2>1, <2>12 DEF retryTimerExpires, triggerSelfEvent, Load, TypeOK
    <3>2. QED
      BY <2>12, <3>1 DEF retryTimerExpires, NonceInv, QuoteReported, QuoteMatchesNonce, cycle, topics
  <2>13. QED
    BY <1>7, <2>2, <2>3, <2>4, <2>5, <2>6, <2>7, <2>8, <2>9, <2>10, <2>11, <2>12 DEF EventLoop
<1>8. CASE Threads
  <2>1. CASE selfEventSent
    <3>1. \A e \in SelfEvents : Load(e)' = Load(e)
      BY <2>1 DEF selfEventSent, Load, SelfEvents, TypeOK
    <3>2. eventTrigger # "InternalQuoteRecvd" /\ eventTrigger' # "InternalQuoteRecvd"
      BY <2>1 DEF selfEventSent, SelfEvents
    <3>3. Load("NonceRecvd")' = Load("NonceRecvd")
      BY <3>1 DEF SelfEvents
    <3>4. QED
      BY <2>1, <3>2, <3>3 DEF selfEventSent, NonceInv, QuoteReported, QuoteMatchesNonce, fsm,
         cycle, topics
  <2>2. CASE mainSent
    <3>1. Load("NonceRecvd")' = Load("NonceRecvd")
      BY <2>2 DEF mainSent, Load, TypeOK
    <3>2. QED
      BY <2>2, <3>1 DEF mainSent, NonceInv, QuoteReported, QuoteMatchesNonce, fsm, cycle, topics
  <2>3. CASE attestModuleStart \/ handleEncryptedKeyFromDeviceImpl
    <3>1. mainSend # "InternalQuoteRecvd" /\ mainSend' # "InternalQuoteRecvd"
      BY <2>3 DEF attestModuleStart, handleEncryptedKeyFromDeviceImpl
    <3>2. UNCHANGED <<eventTrigger, selfEvents, fsm, cycle, topics>>
      BY <2>3 DEF attestModuleStart, handleEncryptedKeyFromDeviceImpl
    <3>3. QED
      BY <3>1, <3>2 DEF NonceInv, QuoteReported, QuoteMatchesNonce, Load, fsm, cycle, topics
  <2>4. CASE handleAttestQuoteImpl
    <3>1. PICK n \in pubQuotes \ quotesSeen : internalQuote' = n /\ quotesSeen' = quotesSeen \cup {n}
      BY <2>4 DEF handleAttestQuoteImpl
    <3>2. state = "InternalQuoteWait" /\ n = nonce
      BY <3>1 DEF NonceInv
    <3>3. eventTrigger # "InternalQuoteRecvd"
      BY <3>1, <3>2 DEF NonceInv, QuoteReported
    <3>4. UNCHANGED <<state, nonce, pubNonces, pubQuotes, eventTrigger>> /\ QuoteReported'
      BY <2>4 DEF handleAttestQuoteImpl, QuoteReported, fsm
    <3>5. QED
      BY <1>2, <3>1, <3>2, <3>3, <3>4 DEF NonceInv, QuoteMatchesNonce
  <2>5. CASE handleAttestQuoteDelete
    <3>1. PICK n \in quotesSeen \ pubQuotes :
             /\ internalQuote' = IF internalQuote = n THEN Nil ELSE internalQuote
             /\ quotesSeen' = quotesSeen \ {n}
      BY <2>5 DEF handleAttestQuoteDelete
    <3>2. UNCHANGED <<state, nonce, pubNonces, pubQuotes, eventTrigger, mainSend, selfEvents>>
      BY <2>5 DEF handleAttestQuoteDelete, fsm, chan
    <3>3. QED
      BY <3>1, <3>2 DEF NonceInv, QuoteMatchesNonce, QuoteReported, Load
  <2>6. CASE handleAttestNonceImpl
    <3>1. PICK n \in pubNonces \ pubQuotes : pubQuotes' = pubQuotes \cup {n}
      BY <2>6 DEF handleAttestNonceImpl
    <3>2. UNCHANGED <<state, nonce, internalQuote, pubNonces, quotesSeen, eventTrigger, mainSend,
                      selfEvents>>
      BY <2>6 DEF handleAttestNonceImpl, fsm, chan, cycle
    <3>3. state = "InternalQuoteWait" /\ n = nonce
      BY <3>1 DEF NonceInv
    <3>4. QED
      BY <3>1, <3>2, <3>3 DEF NonceInv, QuoteMatchesNonce, QuoteReported, Load
  <2>7. CASE handleAttestNonceDelete
    <3>1. PICK n \in pubQuotes \ pubNonces : pubQuotes' = pubQuotes \ {n}
      BY <2>7 DEF handleAttestNonceDelete
    <3>2. UNCHANGED <<state, nonce, internalQuote, pubNonces, quotesSeen, eventTrigger, mainSend,
                      selfEvents>>
      BY <2>7 DEF handleAttestNonceDelete, fsm, chan, cycle
    <3>3. QED
      BY <3>1, <3>2 DEF NonceInv, QuoteMatchesNonce, QuoteReported, Load
  <2>8. QED
    BY <1>8, <2>1, <2>2, <2>3, <2>4, <2>5, <2>6, <2>7 DEF Threads
<1>9. CASE RestartAttestation
  BY <1>9 DEF RestartAttestation, NonceInv, QuoteMatchesNonce, QuoteReported, Load, fsm, cycle, topics
<1>10. CASE publishVaultKey
  BY <1>10 DEF publishVaultKey, NonceInv, QuoteMatchesNonce, QuoteReported, Load, fsm, chan, cycle,
       topics
<1>11. CASE reboot
  BY <1>2, <1>11 DEF reboot, NonceInv, QuoteMatchesNonce, QuoteReported
<1>12. QED
  BY <1>7, <1>8, <1>9, <1>10, <1>11 DEF Next

-----------------------------------------------------------------------------
(* The vault key, and how zedagent may die *)

\* A recorded escrow stays justified: the key changes once, and not after it was needed
LEMMA EscrowStep ==
  ASSUME TypeOK, DriverInv, EscrowInv, Next, selfEvents' \in [SelfEvents -> Nat], DriverInv'
  PROVE  EscrowInv'
<1> USE DEF NoEvent
<1>1. Load("AttestEscrowRecorded")' > 0 => state' = "AttestEscrowWait"
  BY LoadPlace
<1>2. ASSUME state' \notin {"AttestEscrowWait", "Complete"}, UNCHANGED <<escrow, vaultKeySeen>>
      PROVE  EscrowInv'
  BY <1>1, <1>2 DEF EscrowInv
<1>3. ASSUME Load("AttestEscrowRecorded")' = Load("AttestEscrowRecorded"),
             state' = state \/ state' \notin {"AttestEscrowWait", "Complete"},
             UNCHANGED escrows
      PROVE  EscrowInv'
  BY <1>3, <1>1 DEF EscrowInv, escrows
<1>4. ASSUME NEW e \in Events, Receive(e), Quiet, sendAttestEscrow
      PROVE  EscrowInv'
  <2>1. PICK answer \in EscrowAnswers :
           /\ publishedAttestEscrow' = (publishedAttestEscrow \/ ~usingV2API
                 \/ (escrow = "key" /\ answer = "AttestEscrowRecorded"))
           /\ react(answer)
    BY <1>4 DEF sendAttestEscrow
  <2>2. answer # "Initialize"
    BY <2>1 DEF EscrowAnswers
  <2>3. DriverIs(Driver(answer))'
    BY <1>4, <2>1, <2>2, Reaction DEF Receive
  <2>4. answer # "AttestEscrowRecorded" => Load("AttestEscrowRecorded")' = 0
    BY <2>3 DEF DriverIs, Driver, Answers, SelfEvents
  <2>5. answer = "AttestEscrowRecorded" => publishedAttestEscrow' \/ escrow' = "skip"
    BY <1>4, <2>1 DEF sendAttestEscrow, EscrowAnswers, TypeOK
  <2>6. state' = "AttestEscrowWait" /\ UNCHANGED <<escrow, vaultKeySeen>>
    BY <1>4 DEF sendAttestEscrow
  <2>7. QED
    BY <2>4, <2>5, <2>6 DEF EscrowInv
<1>5. CASE EventLoop
  <2>1. SelfEvents \subseteq Events /\ {"Restart", "InternalEscrowRecvd"} \subseteq Events
          /\ {"AttestSuccessful", "AttestEscrowRecorded", "RetryTimerExpiry"} \subseteq Answers
          /\ Answers \subseteq SelfEvents
    BY DEF SelfEvents, Events, Answers
  <2>2. CASE \/ handleAttestSuccessfulAtAttestWait
             \/ handleInternalEscrowRecvdAtInternalEscrowWait
             \/ handleRetryTimerExpiryWhileAttestEscrowWait
    BY <1>4, <2>1, <2>2, Taken DEF handleAttestSuccessfulAtAttestWait,
         handleInternalEscrowRecvdAtInternalEscrowWait, handleRetryTimerExpiryWhileAttestEscrowWait
  <2>3. CASE handleAttestEscrowRecordedAtAttestEscrowWait
    <3>1. CASE restartRequestPending
      BY <1>2, <2>3, <3>1 DEF handleAttestEscrowRecordedAtAttestEscrowWait, gotoRestartWait, escrows
    <3>2. CASE ~restartRequestPending
      <4>1. Load("AttestEscrowRecorded") > 0
        BY <2>1, <2>3 DEF handleAttestEscrowRecordedAtAttestEscrowWait, Receive, Load, TypeOK
      <4>2. UNCHANGED escrows
        BY <2>3, <3>2 DEF handleAttestEscrowRecordedAtAttestEscrowWait
      <4>3. QED
        BY <4>1, <4>2 DEF EscrowInv, escrows
    <3>3. QED
      BY <3>1, <3>2
  <2>4. CASE \/ handleInitializeAtNone \/ handleRestartAtNone \/ handleNonceRecvdAtNonceWait
             \/ handleInternalQuoteRecvdAtInternalQuoteWait \/ handleRetryTimerExpiryAtAttestWait
             \/ handleMismatchAtAttestWait \/ handleNoEscrowAtAttestEscrowWait
             \/ handleAttestEscrowFailedAtAttestEscrowWait \/ handleRestartAtStateComplete
             \/ handleRetryTimerExpiryAtRestartWait \/ handleRetryTimerExpiryAtNonceWait
    <3>1. state' \notin {"AttestEscrowWait", "Complete"}
      BY <2>4 DEF handleInitializeAtNone, handleRestartAtNone, handleNonceRecvdAtNonceWait,
           handleInternalQuoteRecvdAtInternalQuoteWait, handleRetryTimerExpiryAtAttestWait,
           handleMismatchAtAttestWait, handleNoEscrowAtAttestEscrowWait,
           handleAttestEscrowFailedAtAttestEscrowWait, handleRestartAtStateComplete,
           handleRetryTimerExpiryAtRestartWait, handleRetryTimerExpiryAtNonceWait,
           requestNonce, requestInternalQuote, sendAttestQuote, gotoRestartWait, gotoNone
    <3>2. UNCHANGED <<escrow, vaultKeySeen>>
      BY <2>4 DEF handleInitializeAtNone, handleRestartAtNone, handleNonceRecvdAtNonceWait,
           handleInternalQuoteRecvdAtInternalQuoteWait, handleRetryTimerExpiryAtAttestWait,
           handleMismatchAtAttestWait, handleNoEscrowAtAttestEscrowWait,
           handleAttestEscrowFailedAtAttestEscrowWait, handleRestartAtStateComplete,
           handleRetryTimerExpiryAtRestartWait, handleRetryTimerExpiryAtNonceWait,
           requestNonce, requestInternalQuote, sendAttestQuote, gotoRestartWait, gotoNone, escrows
    <3>3. QED
      BY <1>2, <3>1, <3>2
  <2>5. CASE handleInternalEscrowRecvdAtAnyOther \/ handleRestart
    BY <1>3, <2>5 DEF handleInternalEscrowRecvdAtAnyOther, handleRestart, Receive, Load, fsm
  <2>6. CASE unexpectedEvent
    <3>1. PICK e \in Events : Receive(e) /\ state \notin HandledIn(e)
      BY <2>6 DEF unexpectedEvent
    <3>2. e \notin Answers
      BY <3>1, Taken
    <3>3. QED
      BY <1>3, <2>1, <2>6, <3>1, <3>2, OtherTaken DEF unexpectedEvent, fsm
  <2>7. CASE retryTimerExpires
    <3>1. Load("AttestEscrowRecorded")' = Load("AttestEscrowRecorded")
      BY <2>1, <2>7 DEF retryTimerExpires, triggerSelfEvent, Load, TypeOK
    <3>2. QED
      BY <1>3, <2>7, <3>1 DEF retryTimerExpires
  <2>8. QED
    BY <1>5, <2>2, <2>3, <2>4, <2>5, <2>6, <2>7 DEF EventLoop
<1>6. CASE Threads
  <2>1. CASE selfEventSent
    <3>1. \A e \in SelfEvents : Load(e)' = Load(e)
      BY <2>1 DEF selfEventSent, Load, SelfEvents, TypeOK
    <3>2. Load("AttestEscrowRecorded")' = Load("AttestEscrowRecorded")
      BY <3>1 DEF SelfEvents
    <3>3. QED
      BY <1>3, <2>1, <3>2 DEF selfEventSent, fsm
  <2>2. CASE mainSent
    BY <1>3, <2>2 DEF mainSent, Load, TypeOK, fsm
  <2>3. CASE handleEncryptedKeyFromDeviceImpl
    <3>1. escrow = "none" /\ vaultKeySeen'
      BY <2>3 DEF handleEncryptedKeyFromDeviceImpl, EscrowInv
    <3>2. UNCHANGED <<state, eventTrigger, selfEvents, publishedAttestEscrow>>
      BY <2>3 DEF handleEncryptedKeyFromDeviceImpl, fsm
    <3>3. QED
      BY <3>1, <3>2 DEF EscrowInv, Load
  <2>4. CASE \/ attestModuleStart \/ handleAttestQuoteImpl \/ handleAttestQuoteDelete
             \/ handleAttestNonceImpl \/ handleAttestNonceDelete
    BY <1>3, <2>4 DEF attestModuleStart, handleAttestQuoteImpl, handleAttestQuoteDelete,
         handleAttestNonceImpl, handleAttestNonceDelete, Load, fsm, chan
  <2>5. QED
    BY <1>6, <2>1, <2>2, <2>3, <2>4 DEF Threads
<1>7. CASE RestartAttestation
  BY <1>3, <1>7 DEF RestartAttestation, Load, fsm
<1>8. CASE publishVaultKey
  BY <1>8 DEF publishVaultKey, EscrowInv, Load, fsm, chan
<1>9. CASE reboot
  BY <1>1, <1>9 DEF reboot, EscrowInv
<1>10. QED
  BY <1>5, <1>6, <1>7, <1>8, <1>9 DEF Next

\* No step ends in log.Fatal for a stale nonce or in the dereference of a nil quote
LEMMA FatalStep ==
  ASSUME TypeOK, NonceInv, NoFatalButUnexpected, Next
  PROVE  NoFatalButUnexpected'
<1>1. CASE UNCHANGED fatal \/ fatal' \in {"none", "unexpected_event"}
  BY <1>1 DEF NoFatalButUnexpected
<1>2. CASE requestNonce
  <2>1. pubNonces \ {nonce} = {}
    BY DEF NonceInv
  <2>2. QED
    BY <1>1, <1>2, <2>1 DEF requestNonce
<1>3. CASE sendAttestQuote /\ internalQuote # Nil
  BY <1>1, <1>3 DEF sendAttestQuote
<1>4. handleInternalQuoteRecvdAtInternalQuoteWait => internalQuote # Nil
  BY DEF handleInternalQuoteRecvdAtInternalQuoteWait, Receive, NonceInv, QuoteReported
<1>5. handleRetryTimerExpiryAtAttestWait => internalQuote # Nil
  BY DEF handleRetryTimerExpiryAtAttestWait, NonceInv, QuoteMatchesNonce
<1>6. EventLoop => \/ requestNonce \/ (sendAttestQuote /\ internalQuote # Nil)
                   \/ UNCHANGED fatal \/ fatal' \in {"none", "unexpected_event"}
  BY <1>4, <1>5
     DEF EventLoop, handleInitializeAtNone, handleRestartAtNone, handleNonceRecvdAtNonceWait,
         handleInternalQuoteRecvdAtInternalQuoteWait, handleMismatchAtAttestWait,
         handleAttestSuccessfulAtAttestWait, handleNoEscrowAtAttestEscrowWait,
         handleAttestEscrowFailedAtAttestEscrowWait, handleAttestEscrowRecordedAtAttestEscrowWait,
         handleInternalEscrowRecvdAtInternalEscrowWait, handleInternalEscrowRecvdAtAnyOther,
         handleRestartAtStateComplete, handleRestart, handleRetryTimerExpiryAtRestartWait,
         handleRetryTimerExpiryAtNonceWait, handleRetryTimerExpiryAtAttestWait,
         handleRetryTimerExpiryWhileAttestEscrowWait, unexpectedEvent, retryTimerExpires,
         requestInternalQuote, sendAttestEscrow, gotoRestartWait, gotoNone
<1>7. Threads \/ RestartAttestation \/ publishVaultKey \/ reboot
        => UNCHANGED fatal \/ fatal' = "none"
  BY DEF Threads, selfEventSent, mainSent, attestModuleStart, handleAttestQuoteImpl,
         handleAttestQuoteDelete, handleEncryptedKeyFromDeviceImpl, handleAttestNonceImpl,
         handleAttestNonceDelete, RestartAttestation, publishVaultKey, reboot
<1>8. QED
  BY <1>1, <1>2, <1>3, <1>6, <1>7 DEF Next

-----------------------------------------------------------------------------
(* The theorems *)

\* The device boots into the invariant
LEMMA InitInv == Init => AttestInv
<1> SUFFICES ASSUME Init PROVE AttestInv
  OBVIOUS
<1> USE DEF Init, NoEvent
<1>1. TypeOK
  <2>1. selfEvents \in [SelfEvents -> 0..(MaxRestarts + 1)] /\ restarts \in 0..MaxRestarts
    BY MaxRestartsAssumption
  <2>2. usingV2API \in BOOLEAN /\ vaultLocked \in BOOLEAN /\ state \in States
    BY DEF States
  <2>3. QED
    BY <2>1, <2>2 DEF TypeOK
<1>2. \A e \in SelfEvents : Load(e) = 0
  BY DEF Load, SelfEvents
<1>3. DriverInv
  <2>1. DriverIs("nothing")
    BY <1>2 DEF DriverIs, Answers, SelfEvents
  <2>2. QED
    BY <2>1 DEF DriverInv, Waits
<1>4. StartInv /\ InitializeInv
  BY <1>2 DEF StartInv, InitializeInv, Initializes, SelfEvents
<1>5. NonceInv /\ EscrowInv
  BY <1>2 DEF NonceInv, EscrowInv, QuoteReported, QuoteMatchesNonce, SelfEvents
<1>6. QED
  BY <1>1, <1>3, <1>4, <1>5 DEF AttestInv, NoFatalButUnexpected

\* Every step of every thread keeps the invariant.  The counts of goroutines are bounded
\* by what is waited for (at most one answer) and by the restarts (Initialize).
LEMMA InvStep == AttestInv /\ [Next]_vars => AttestInv'
<1> SUFFICES ASSUME AttestInv, [Next]_vars PROVE AttestInv'
  OBVIOUS
<1>1. CASE Next
  <2> USE <1>1 DEF AttestInv
  <2>1. selfEvents' \in [SelfEvents -> Nat]
    BY SelfType
  <2>2. DriverInv'
    BY <2>1, DriverStep
  <2>3. StartInv' /\ InitializeInv'
    BY <2>1, StartStep, InitializeStep
  <2>4. NonceInv' /\ EscrowInv' /\ NoFatalButUnexpected'
    BY <2>1, <2>2, NonceStep, EscrowStep, FatalStep
  <2>5. restarts' \in 0..MaxRestarts
    <3>1. EventLoop \/ Threads \/ publishVaultKey \/ reboot => UNCHANGED restarts
      BY DEF EventLoop, handleInitializeAtNone, handleRestartAtNone, handleNonceRecvdAtNonceWait,
         handleInternalQuoteRecvdAtInternalQuoteWait, handleMismatchAtAttestWait,
         handleAttestSuccessfulAtAttestWait, handleNoEscrowAtAttestEscrowWait,
         handleAttestEscrowFailedAtAttestEscrowWait, handleAttestEscrowRecordedAtAttestEscrowWait,
         handleInternalEscrowRecvdAtInternalEscrowWait, handleInternalEscrowRecvdAtAnyOther,
         handleRestartAtStateComplete, handleRestart, handleRetryTimerExpiryAtRestartWait,
         handleRetryTimerExpiryAtNonceWait, handleRetryTimerExpiryAtAttestWait,
         handleRetryTimerExpiryWhileAttestEscrowWait, unexpectedEvent, retryTimerExpires,
         requestNonce, requestInternalQuote, sendAttestQuote, sendAttestEscrow, gotoRestartWait,
         gotoNone, Threads, selfEventSent, mainSent, attestModuleStart, handleAttestQuoteImpl,
         handleAttestQuoteDelete, handleEncryptedKeyFromDeviceImpl, handleAttestNonceImpl,
         handleAttestNonceDelete, publishVaultKey, reboot
    <3>2. RestartAttestation => restarts' \in 0..MaxRestarts
      BY DEF RestartAttestation, TypeOK
    <3>3. QED
      BY <3>1, <3>2 DEF Next, TypeOK
  <2>6. \A e \in SelfEvents : selfEvents'[e] \in 0..(MaxRestarts + 1)
    <3>1. \A e \in Answers : Load(e)' <= 1
      BY <2>2 DEF DriverInv, DriverIs
    <3>2. \A e \in Answers : selfEvents'[e] <= 1
      BY <2>1, <3>1 DEF Load, Answers
    <3>3. selfEvents'["Initialize"] <= restarts' + 1
      BY <2>1, <2>3, <2>5 DEF InitializeInv, Initializes, Load, SelfEvents
    <3>4. QED
      BY <2>1, <2>5, <3>2, <3>3 DEF Answers
  <2>7. selfEvents' \in [SelfEvents -> 0..(MaxRestarts + 1)]
    BY <2>1, <2>6
  <2>8. TypeOK'
    BY <2>7, TypeStep
  <2>9. QED
    BY <2>2, <2>3, <2>4, <2>8
<1>2. CASE UNCHANGED vars
  BY <1>2 DEF AttestInv, TypeOK, DriverInv, DriverIs, StartInv, InitializeInv, Initializes,
       NonceInv, QuoteReported, QuoteMatchesNonce, EscrowInv, Load, NoFatalButUnexpected, vars,
       fsm, chan, cycle, escrows, topics
<1>3. QED
  BY <1>1, <1>2

\* The inductive invariant holds in every reachable state
THEOREM AttestInvariant == Spec => []AttestInv
  BY InitInv, InvStep, PTL DEF Spec

\* The types, with the bound on the goroutines that triggerSelfEvent leaves: beyond one
\* event on its way there is one more Initialize for each restart asked for
THEOREM AttestTypes == Spec => []TypeOK
<1>1. AttestInv => TypeOK
  BY DEF AttestInv
<1>2. QED
  BY <1>1, AttestInvariant, PTL

\* The quote sent to the controller is there and answers the nonce of the present cycle,
\* however the main loop's stores and late deletions of quotes interleave with the machine
THEOREM QuoteAnswersNonce == Spec => []QuoteMatchesNonce
<1>1. AttestInv => QuoteMatchesNonce
  BY DEF AttestInv, NonceInv
<1>2. QED
  BY <1>1, AttestInvariant, PTL

\* The machine waits for at most one answer or timer, which its present state handles: no
\* late answer or expiry of an earlier request reaches a later state
THEOREM WaitsForOneThing == Spec => []OneDriverAtATime
<1>1. AttestInv => OneDriverAtATime
  <2> SUFFICES ASSUME AttestInv PROVE OneDriverAtATime
    OBVIOUS
  <2>1. PICK d \in Waits(state, usingV2API) : DriverIs(d)
    BY DEF AttestInv, DriverInv
  <2>2. selfEvents \in [SelfEvents -> Nat] /\ state \in States
    BY DEF AttestInv, TypeOK
  <2>3. ASSUME NEW e \in Answers, Pending(e)
        PROVE  e = d /\ state \in HandledIn(e)
    <3>1. Load(e) > 0
      BY <2>2, <2>3 DEF Pending, Load, Answers
    <3>2. e = d
      BY <2>1, <2>3, <3>1 DEF DriverIs
    <3>3. QED
      BY <2>1, <2>2, <2>3, <3>2 DEF Waits, HandledIn, Answers, SelfEvents, States
  <2>4. \A x \in Drivers : x = d
    <3> SUFFICES ASSUME NEW x \in Drivers PROVE x = d
      OBVIOUS
    <3>1. CASE x \in Answers /\ Pending(x)
      BY <2>3, <3>1
    <3>2. CASE x = "timer" /\ restartTimer = "armed"
      BY <2>1, <3>2 DEF DriverIs
    <3>3. QED
      BY <3>1, <3>2 DEF Drivers, Answers
  <2>5. \A e \in Answers : Load(e) <= 1
    BY <2>1 DEF DriverIs
  <2>6. QED
    BY <2>3, <2>4, <2>5 DEF OneDriverAtATime, Answers, Load
<1>2. QED
  BY <1>1, AttestInvariant, PTL

\* zedagent dies neither of a nil quote nor of a stale nonce left published
THEOREM OnlyUnexpectedEventsKill == Spec => []NoFatalButUnexpected
<1>1. AttestInv => NoFatalButUnexpected
  BY DEF AttestInv
<1>2. QED
  BY <1>1, AttestInvariant, PTL

\* A machine that waits for the controller always has something on its way to wake it up
THEOREM WaitIsWoken == Spec => []NeverForgotten
<1>1. AttestInv => NeverForgotten
  <2> SUFFICES ASSUME AttestInv, usingV2API,
                      state \in {"NonceWait", "AttestWait", "AttestEscrowWait", "RestartWait"}
               PROVE  Drivers # {}
    BY DEF NeverForgotten
  <2>1. PICK d \in Waits(state, usingV2API) : DriverIs(d)
    BY DEF AttestInv, DriverInv
  <2>2. d \in Answers \cup {"timer"}
    BY <2>1 DEF Waits, Answers, SelfEvents
  <2>3. CASE d = "timer"
    <3>1. restartTimer = "armed"
      BY <2>1, <2>3 DEF DriverIs
    <3>2. QED
      BY <3>1 DEF Drivers
  <2>4. CASE d \in Answers
    <3>1. Load(d) = 1
      BY <2>1, <2>4 DEF DriverIs
    <3>2. Pending(d)
      BY <2>4, <3>1 DEF AttestInv, TypeOK, Pending, Load, Answers
    <3>3. QED
      BY <2>4, <3>2 DEF Drivers, Answers
  <2>5. QED
    BY <2>2, <2>3, <2>4
<1>2. QED
  BY <1>1, AttestInvariant, PTL

\* Only a key the controller has stored, or a device without TPM, completes an attestation
THEOREM CompletedIsEscrowed == Spec => []CompleteMeansEscrowed
<1>1. AttestInv => CompleteMeansEscrowed
  BY DEF AttestInv, EscrowInv, CompleteMeansEscrowed
<1>2. QED
  BY <1>1, AttestInvariant, PTL
=============================================================================
