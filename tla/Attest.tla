------------------------------- MODULE Attest -------------------------------
(***************************************************************************)
(* Remote attestation of an EVE device.                                    *)
(*                                                                         *)
(* Four threads cooperate:                                                 *)
(*   - the attestation state machine (attest/attest.go), an event loop     *)
(*     that takes one event at a time from a channel of capacity one, and  *)
(*     runs the handler found in the table `transitions';                  *)
(*   - the main loop of zedagent, which stores the TPM quote and the vault *)
(*     key published by other agents and sends events to the loop;         *)
(*   - the config loop of zedagent, which asks for a new attestation when  *)
(*     the controller answers a config request with "forbidden";           *)
(*   - tpmmgr, which answers a published nonce with a published quote.     *)
(*                                                                         *)
(* Abstractions: the content of messages is left out except the nonce that *)
(* ties a quote to a request; errors recorded for the device info message, *)
(* the integrity token (compared by the controller only) and the watchdog  *)
(* are left out.  A handler runs as one step: the fields it shares with    *)
(* the other threads are each read or written once, and only the loop      *)
(* itself reads the state.                                                 *)
(***************************************************************************)
EXTENDS Integers, FiniteSets

CONSTANTS
  Nonces,        \* the nonces the controller hands out
  Nil,           \* no nonce, no quote
  MaxRestarts    \* bound: restarts asked for by the config loop

ASSUME NilAssumption == Nil \notin Nonces
ASSUME MaxRestartsAssumption == MaxRestarts \in Nat

VARIABLES
  state,                  \* state of the machine
  restartRequestPending,  \* a restart was asked for in the middle of a cycle
  restartTimer,           \* the one retry timer: "idle" or "armed"
  eventTrigger,           \* the channel: an event, or NoEvent when empty
  selfEvents,             \* goroutines of triggerSelfEvent that still have to send
  mainSend,               \* the event the main loop is blocked sending, or NoEvent
  started,                \* attestModuleStart has run
  nonce,                  \* nonce of the current cycle
  internalQuote,          \* nonce of the stored quote, Nil when there is none
  escrow,                 \* vault key to escrow: "none", "key" or "skip" (no TPM)
  publishedAttestEscrow,  \* the controller has stored the key
  attestationTried,       \* attestationTryCount > 0
  usingV2API,             \* the controller supports attestation
  controllerKey,          \* EncryptedVaultKeyFromController is published
  vaultLocked,            \* vaultmgr could not unseal the vault key at boot
  vaultKey,               \* EncryptedVaultKeyFromDevice as vaultmgr publishes it
  vaultKeySeen,           \* what zedagent's main loop has handled of it
  pubNonces,              \* AttestNonce publication of zedagent
  pubQuotes,              \* AttestQuote publication of tpmmgr (= nonces it has seen)
  quotesSeen,             \* quotes the main loop of zedagent has handled
  restarts,               \* restarts asked for, bounded by MaxRestarts
  fatal                   \* "none", or why the process called log.Fatal

fsm     == <<state, restartRequestPending, restartTimer>>
chan    == <<eventTrigger, selfEvents, mainSend, started>>
cycle   == <<nonce, internalQuote, attestationTried, usingV2API>>
escrows == <<escrow, publishedAttestEscrow, controllerKey, vaultLocked, vaultKey,
             vaultKeySeen>>
topics  == <<pubNonces, pubQuotes, quotesSeen>>
vars    == <<fsm, chan, cycle, escrows, topics, restarts, fatal>>

States == {"None", "NonceWait", "InternalQuoteWait", "InternalEscrowWait",
           "AttestWait", "AttestEscrowWait", "RestartWait", "Complete"}

\* Events the machine sends to itself, from a goroutine of their own
SelfEvents == {"Initialize", "NonceRecvd", "AttestSuccessful", "NonceMismatch",
               "QuoteMismatch", "NoQuoteCertRecvd", "AttestEscrowRecorded",
               "AttestEscrowFailed", "NoEscrow", "RetryTimerExpiry"}

Events == SelfEvents \cup {"Restart", "InternalQuoteRecvd", "InternalEscrowRecvd"}

NoEvent == "NoEvent"

\* The table of transitions: the states in which each event has a handler
HandledIn(e) ==
  CASE e = "Initialize"           -> {"None"}
    [] e = "NonceRecvd"           -> {"NonceWait"}
    [] e = "InternalQuoteRecvd"   -> {"InternalQuoteWait"}
    [] e \in {"NonceMismatch", "QuoteMismatch", "NoQuoteCertRecvd",
              "AttestSuccessful"} -> {"AttestWait"}
    [] e \in {"AttestEscrowFailed", "NoEscrow",
              "AttestEscrowRecorded"} -> {"AttestEscrowWait"}
    [] e = "RetryTimerExpiry"     -> {"RestartWait", "NonceWait", "InternalQuoteWait",
                                      "AttestWait", "AttestEscrowWait"}
    [] OTHER                      -> States  \* Restart; InternalEscrowRecvd by the wildcard

TypeOK ==
  /\ state \in States
  /\ restartRequestPending \in BOOLEAN
  /\ restartTimer \in {"idle", "armed"}
  /\ eventTrigger \in Events \cup {NoEvent}
  /\ selfEvents \in [SelfEvents -> 0..(MaxRestarts + 1)]  \* a restart may leave one behind
  /\ mainSend \in {NoEvent, "Initialize", "InternalQuoteRecvd", "InternalEscrowRecvd"}
  /\ started \in BOOLEAN
  /\ nonce \in Nonces \cup {Nil}
  /\ internalQuote \in Nonces \cup {Nil}
  /\ escrow \in {"none", "key", "skip"}
  /\ publishedAttestEscrow \in BOOLEAN
  /\ attestationTried \in BOOLEAN
  /\ usingV2API \in BOOLEAN
  /\ controllerKey \in BOOLEAN
  /\ vaultLocked \in BOOLEAN
  /\ vaultKey \in {"none", "key", "skip"}
  /\ vaultKeySeen \in BOOLEAN
  /\ pubNonces \in SUBSET Nonces
  /\ pubQuotes \in SUBSET Nonces
  /\ quotesSeen \in SUBSET Nonces
  /\ restarts \in 0..MaxRestarts
  /\ fatal \in {"none", "unexpected_event", "stale_nonce", "nil_quote"}

\* New(): the machine and the publications when the device boots
Init ==
  /\ state = "None" /\ restartRequestPending = FALSE /\ restartTimer = "idle"
  /\ eventTrigger = NoEvent /\ selfEvents = [e \in SelfEvents |-> 0]
  /\ mainSend = NoEvent /\ started = FALSE
  /\ nonce = Nil /\ internalQuote = Nil /\ attestationTried = FALSE
  /\ usingV2API \in BOOLEAN
  /\ escrow = "none" /\ publishedAttestEscrow = FALSE /\ controllerKey = FALSE
  /\ vaultLocked \in BOOLEAN /\ vaultKey = "none" /\ vaultKeySeen = FALSE
  /\ pubNonces = {} /\ pubQuotes = {} /\ quotesSeen = {}
  /\ restarts = 0 /\ fatal = "none"

-----------------------------------------------------------------------------
(* Helpers of the handlers *)

triggerSelfEvent(e) == selfEvents' = [selfEvents EXCEPT ![e] = @ + 1]

startNewRetryTimer == restartTimer' = "armed"

\* Mutant: a failed request is forgotten
reactWithoutRetry(answer) ==
  /\ IF answer \in SelfEvents THEN triggerSelfEvent(answer) ELSE UNCHANGED selfEvents
  /\ UNCHANGED restartTimer

\* What a handler does with the answer to its request: an answer that is an event
\* is triggered, a failed request is retried later, and without a verifier in the
\* controller the machine just waits
react(answer) ==
  /\ IF answer \in SelfEvents THEN triggerSelfEvent(answer) ELSE UNCHANGED selfEvents
  /\ IF answer = "ErrControllerReqFailed" THEN startNewRetryTimer ELSE UNCHANGED restartTimer

\* The loop has taken event e from the channel
Receive(e) ==
  /\ fatal = "none"
  /\ started
  /\ eventTrigger = e
  /\ eventTrigger' = NoEvent
  /\ UNCHANGED <<mainSend, started>>

\* A nonce no earlier message carries: the controller never repeats one
FreshNonces ==
  Nonces \ (pubNonces \cup pubQuotes \cup quotesSeen \cup {nonce, internalQuote})

\* SendNonceRequest: withdraw the old nonce, ask for a new one
requestNonce ==
  /\ state' = "NonceWait"
  /\ pubNonces' = pubNonces \ {nonce}
  /\ fatal' = IF nonce \in pubNonces /\ pubNonces' # {} THEN "stale_nonce" ELSE fatal
  /\ \E answer \in (IF usingV2API THEN {"NonceRecvd", "ErrControllerReqFailed"}
                                 ELSE {"ErrNoVerifier"}) :
       /\ nonce' \in (IF answer = "NonceRecvd" THEN FreshNonces ELSE {Nil})
       /\ react(answer)
  /\ UNCHANGED <<restartRequestPending, internalQuote, attestationTried, usingV2API,
                 pubQuotes, quotesSeen, escrows, restarts>>

\* SendInternalQuoteRequest: drop the old quote, publish the nonce for tpmmgr
requestInternalQuote ==
  /\ state' = "InternalQuoteWait"
  /\ internalQuote' = Nil
  /\ pubNonces' = pubNonces \cup ({nonce} \ {Nil})
  /\ UNCHANGED <<restartRequestPending, restartTimer, selfEvents, nonce,
                 attestationTried, usingV2API, pubQuotes, quotesSeen, escrows,
                 restarts, fatal>>

\* SendAttestQuote with the answer of the controller.  On success the key the
\* controller holds is published for vaultmgr before the event is triggered.
sendAttestQuote ==
  /\ state' = "AttestWait"
  /\ attestationTried' = (attestationTried \/ usingV2API)
  /\ fatal' = IF usingV2API /\ internalQuote = Nil THEN "nil_quote" ELSE fatal
  /\ \E answer \in (IF usingV2API THEN {"AttestSuccessful", "NonceMismatch",
                        "QuoteMismatch", "NoQuoteCertRecvd", "ErrControllerReqFailed"}
                                 ELSE {"ErrNoVerifier"}) :
       /\ controllerKey' = (controllerKey \/ answer = "AttestSuccessful")
       /\ react(answer)
  /\ UNCHANGED <<restartRequestPending, nonce, internalQuote, usingV2API, escrow,
                 publishedAttestEscrow, vaultLocked, vaultKey, vaultKeySeen, topics, restarts>>

\* Mutant: a key that is not there yet is taken for one that is not needed
EscrowAnswersWithoutKey ==
  IF ~usingV2API THEN {"ErrNoVerifier"}
  ELSE IF escrow # "key" THEN {"AttestEscrowRecorded"}
  ELSE {"AttestEscrowRecorded", "AttestEscrowFailed", "ErrControllerReqFailed"}

\* SendAttestEscrow: what can come back depends on the key that is stored
EscrowAnswers ==
  IF ~usingV2API THEN {"ErrNoVerifier"}
  ELSE CASE escrow = "skip" -> {"AttestEscrowRecorded"}
         [] escrow = "none" -> {"NoEscrow"}
         [] OTHER -> {"AttestEscrowRecorded", "AttestEscrowFailed", "ErrControllerReqFailed"}

sendAttestEscrow ==
  /\ state' = "AttestEscrowWait"
  /\ \E answer \in EscrowAnswers :
       /\ publishedAttestEscrow' = (publishedAttestEscrow \/ ~usingV2API
             \/ (escrow = "key" /\ answer = "AttestEscrowRecorded"))
       /\ react(answer)
  /\ UNCHANGED <<restartRequestPending, cycle, escrow, controllerKey, vaultLocked, vaultKey,
                 vaultKeySeen, topics, restarts, fatal>>

\* Start over after the retry time
gotoRestartWait ==
  /\ state' = "RestartWait"
  /\ startNewRetryTimer
  /\ UNCHANGED <<restartRequestPending, selfEvents, cycle, escrows, topics, restarts, fatal>>

\* Back to None, with an Initialize event on its way
gotoNone(pending) ==
  /\ state' = "None"
  /\ restartRequestPending' = pending
  /\ triggerSelfEvent("Initialize")
  /\ UNCHANGED <<restartTimer, cycle, escrows, topics, restarts, fatal>>

-----------------------------------------------------------------------------
(* The event handlers, one for each row of the table *)

handleInitializeAtNone ==
  state = "None" /\ Receive("Initialize") /\ requestNonce

handleRestartAtNone ==
  state = "None" /\ Receive("Restart") /\ requestNonce

\* Also the handler of RetryTimerExpiry in InternalQuoteWait
handleNonceRecvdAtNonceWait ==
  /\ \E row \in {<<"NonceWait", "NonceRecvd">>, <<"InternalQuoteWait", "RetryTimerExpiry">>} :
       state = row[1] /\ Receive(row[2])
  /\ requestInternalQuote

handleInternalQuoteRecvdAtInternalQuoteWait ==
  state = "InternalQuoteWait" /\ Receive("InternalQuoteRecvd") /\ sendAttestQuote

handleMismatchAtAttestWait ==
  /\ state = "AttestWait"
  /\ \E e \in {"NonceMismatch", "QuoteMismatch", "NoQuoteCertRecvd"} : Receive(e)
  /\ gotoRestartWait

handleAttestSuccessfulAtAttestWait ==
  state = "AttestWait" /\ Receive("AttestSuccessful") /\ sendAttestEscrow

handleNoEscrowAtAttestEscrowWait ==
  /\ state = "AttestEscrowWait" /\ Receive("NoEscrow")
  /\ state' = "InternalEscrowWait"
  /\ UNCHANGED <<restartRequestPending, restartTimer, selfEvents, cycle, escrows,
                 topics, restarts, fatal>>

handleAttestEscrowFailedAtAttestEscrowWait ==
  state = "AttestEscrowWait" /\ Receive("AttestEscrowFailed") /\ gotoRestartWait

handleAttestEscrowRecordedAtAttestEscrowWait ==
  /\ state = "AttestEscrowWait" /\ Receive("AttestEscrowRecorded")
  /\ IF restartRequestPending
     THEN gotoRestartWait
     ELSE /\ state' = "Complete"
          /\ UNCHANGED <<restartRequestPending, restartTimer, selfEvents, cycle,
                         escrows, topics, restarts, fatal>>

handleInternalEscrowRecvdAtInternalEscrowWait ==
  state = "InternalEscrowWait" /\ Receive("InternalEscrowRecvd") /\ sendAttestEscrow

\* The wildcard row: the data is stored, nobody waits for it
handleInternalEscrowRecvdAtAnyOther ==
  /\ state # "InternalEscrowWait" /\ Receive("InternalEscrowRecvd")
  /\ UNCHANGED <<fsm, selfEvents, cycle, escrows, topics, restarts, fatal>>

handleRestartAtStateComplete ==
  state = "Complete" /\ Receive("Restart") /\ gotoRestartWait

\* Mutant: a restart in the middle of a cycle ends the cycle
handleRestartAtOnce ==
  /\ state \notin {"None", "Complete"} /\ Receive("Restart")
  /\ gotoRestartWait

\* In the middle of a cycle a restart is only noted
handleRestart ==
  /\ state \notin {"None", "Complete"} /\ Receive("Restart")
  /\ restartRequestPending' = TRUE
  /\ UNCHANGED <<state, restartTimer, selfEvents, cycle, escrows, topics, restarts, fatal>>

handleRetryTimerExpiryAtRestartWait ==
  state = "RestartWait" /\ Receive("RetryTimerExpiry") /\ gotoNone(FALSE)

handleRetryTimerExpiryAtNonceWait ==
  state = "NonceWait" /\ Receive("RetryTimerExpiry") /\ gotoNone(restartRequestPending)

handleRetryTimerExpiryAtAttestWait ==
  state = "AttestWait" /\ Receive("RetryTimerExpiry") /\ sendAttestQuote

handleRetryTimerExpiryWhileAttestEscrowWait ==
  state = "AttestEscrowWait" /\ Receive("RetryTimerExpiry") /\ sendAttestEscrow

\* despatchEvent found no row and no wildcard: log.Fatalf
unexpectedEvent ==
  /\ \E e \in Events : Receive(e) /\ state \notin HandledIn(e)
  /\ fatal' = "unexpected_event"
  /\ UNCHANGED <<fsm, selfEvents, cycle, escrows, topics, restarts>>

\* Mutant: the timer goes on firing
retryTimerKeepsFiring ==
  /\ fatal = "none" /\ restartTimer = "armed"
  /\ triggerSelfEvent("RetryTimerExpiry")
  /\ UNCHANGED <<fsm, eventTrigger, mainSend, started, cycle, escrows, topics, restarts, fatal>>

\* EnterEventLoop: the retry timer fired
retryTimerExpires ==
  /\ fatal = "none" /\ restartTimer = "armed"
  /\ restartTimer' = "idle"
  /\ triggerSelfEvent("RetryTimerExpiry")
  /\ UNCHANGED <<state, restartRequestPending, eventTrigger, mainSend, started, cycle,
                 escrows, topics, restarts, fatal>>

-----------------------------------------------------------------------------
(* The other threads *)

\* A goroutine of triggerSelfEvent gets its event into the channel
selfEventSent ==
  /\ fatal = "none" /\ eventTrigger = NoEvent
  /\ \E e \in SelfEvents :
       /\ selfEvents[e] > 0
       /\ eventTrigger' = e
       /\ selfEvents' = [selfEvents EXCEPT ![e] = @ - 1]
  /\ UNCHANGED <<fsm, mainSend, started, cycle, escrows, topics, restarts, fatal>>

\* The blocking send of the main loop goes through
mainSent ==
  /\ fatal = "none" /\ eventTrigger = NoEvent /\ mainSend # NoEvent
  /\ eventTrigger' = mainSend /\ mainSend' = NoEvent
  /\ UNCHANGED <<fsm, selfEvents, started, cycle, escrows, topics, restarts, fatal>>

\* Start the loop and send it Initialize (Kickstart)
attestModuleStart ==
  /\ fatal = "none" /\ ~started /\ mainSend = NoEvent
  /\ started' = TRUE /\ mainSend' = "Initialize"
  /\ UNCHANGED <<fsm, eventTrigger, selfEvents, cycle, escrows, topics, restarts, fatal>>

\* The config loop met "forbidden" after a quote was sent: a send that does not
\* block, so the request is dropped when the channel is full (a stuttering step)
RestartAttestation ==
  /\ fatal = "none" /\ started /\ attestationTried
  /\ restarts < MaxRestarts
  /\ eventTrigger = NoEvent
  /\ eventTrigger' = "Restart"
  /\ restarts' = restarts + 1
  /\ UNCHANGED <<fsm, selfEvents, mainSend, started, cycle, escrows, topics, fatal>>

\* The main loop stores a new quote and reports it
handleAttestQuoteImpl ==
  /\ fatal = "none" /\ started /\ mainSend = NoEvent
  /\ \E n \in pubQuotes \ quotesSeen :
       /\ internalQuote' = n
       /\ quotesSeen' = quotesSeen \cup {n}
  /\ mainSend' = "InternalQuoteRecvd"
  /\ UNCHANGED <<fsm, eventTrigger, selfEvents, started, nonce, attestationTried,
                 usingV2API, escrows, pubNonces, pubQuotes, restarts, fatal>>

\* Mutant: the main loop drops the stored quote whichever was unpublished
handleAnyAttestQuoteDelete ==
  /\ fatal = "none" /\ mainSend = NoEvent
  /\ \E n \in quotesSeen \ pubQuotes : quotesSeen' = quotesSeen \ {n}
  /\ internalQuote' = Nil
  /\ UNCHANGED <<fsm, chan, nonce, attestationTried, usingV2API, escrows, pubNonces,
                 pubQuotes, restarts, fatal>>

\* The main loop drops the stored quote if it is the one that was unpublished
handleAttestQuoteDelete ==
  /\ fatal = "none" /\ mainSend = NoEvent
  /\ \E n \in quotesSeen \ pubQuotes :
       /\ internalQuote' = IF internalQuote = n THEN Nil ELSE internalQuote
       /\ quotesSeen' = quotesSeen \ {n}
  /\ UNCHANGED <<fsm, chan, nonce, attestationTried, usingV2API, escrows, pubNonces,
                 pubQuotes, restarts, fatal>>

\* The main loop stores the vault key; before the module is started no event is sent
handleEncryptedKeyFromDeviceImpl ==
  /\ fatal = "none" /\ mainSend = NoEvent
  /\ vaultKey # "none" /\ ~vaultKeySeen
  /\ vaultKeySeen' = TRUE
  /\ escrow' = vaultKey
  /\ mainSend' = IF started THEN "InternalEscrowRecvd" ELSE NoEvent
  /\ UNCHANGED <<fsm, eventTrigger, selfEvents, started, cycle, publishedAttestEscrow,
                 controllerKey, vaultLocked, vaultKey, topics, restarts, fatal>>

\* tpmmgr answers a nonce with a quote
handleAttestNonceImpl ==
  /\ \E n \in pubNonces \ pubQuotes : pubQuotes' = pubQuotes \cup {n}
  /\ UNCHANGED <<fsm, chan, cycle, escrows, pubNonces, quotesSeen, restarts, fatal>>

\* tpmmgr withdraws the quote of a nonce that is gone
handleAttestNonceDelete ==
  /\ \E n \in pubQuotes \ pubNonces : pubQuotes' = pubQuotes \ {n}
  /\ UNCHANGED <<fsm, chan, cycle, escrows, pubNonces, quotesSeen, restarts, fatal>>

\* vaultmgr publishes the key once: when it has unsealed it itself (or there is no
\* TPM), otherwise after the controller's key has unlocked the vault
publishVaultKey ==
  /\ vaultKey = "none"
  /\ \/ ~vaultLocked /\ vaultKey' \in {"key", "skip"}
     \/ vaultLocked /\ controllerKey /\ vaultKey' = "key"
  /\ UNCHANGED <<fsm, chan, cycle, escrow, publishedAttestEscrow, controllerKey,
                 vaultLocked, vaultKeySeen, topics, restarts, fatal>>

\* log.Fatal ends zedagent and the watchdog reboots the device
reboot ==
  /\ fatal # "none"
  /\ state' = "None" /\ restartRequestPending' = FALSE /\ restartTimer' = "idle"
  /\ eventTrigger' = NoEvent /\ selfEvents' = [e \in SelfEvents |-> 0]
  /\ mainSend' = NoEvent /\ started' = FALSE
  /\ nonce' = Nil /\ internalQuote' = Nil /\ attestationTried' = FALSE
  /\ usingV2API' = usingV2API
  /\ escrow' = "none" /\ publishedAttestEscrow' = FALSE /\ controllerKey' = FALSE
  /\ vaultLocked' \in BOOLEAN /\ vaultKey' = "none" /\ vaultKeySeen' = FALSE
  /\ pubNonces' = {} /\ pubQuotes' = {} /\ quotesSeen' = {}
  /\ fatal' = "none"
  /\ UNCHANGED restarts

EventLoop ==
  \/ handleInitializeAtNone
  \/ handleRestartAtNone
  \/ handleNonceRecvdAtNonceWait
  \/ handleInternalQuoteRecvdAtInternalQuoteWait
  \/ handleMismatchAtAttestWait
  \/ handleAttestSuccessfulAtAttestWait
  \/ handleNoEscrowAtAttestEscrowWait
  \/ handleAttestEscrowFailedAtAttestEscrowWait
  \/ handleAttestEscrowRecordedAtAttestEscrowWait
  \/ handleInternalEscrowRecvdAtInternalEscrowWait
  \/ handleInternalEscrowRecvdAtAnyOther
  \/ handleRestartAtStateComplete
  \/ handleRestart
  \/ handleRetryTimerExpiryAtRestartWait
  \/ handleRetryTimerExpiryAtNonceWait
  \/ handleRetryTimerExpiryAtAttestWait
  \/ handleRetryTimerExpiryWhileAttestEscrowWait
  \/ unexpectedEvent
  \/ retryTimerExpires

Threads ==
  \/ selfEventSent
  \/ mainSent
  \/ attestModuleStart
  \/ handleAttestQuoteImpl
  \/ handleAttestQuoteDelete
  \/ handleEncryptedKeyFromDeviceImpl
  \/ handleAttestNonceImpl
  \/ handleAttestNonceDelete

Next == EventLoop \/ Threads \/ RestartAttestation \/ publishVaultKey \/ reboot

Spec == Init /\ [][Next]_vars

\* The scheduler runs every thread that can run; senders blocked on a channel are
\* served in order, so each send goes through.  Of the controller it is assumed that
\* a request sent again and again is at some time answered well.  Nothing is assumed
\* of restarts and of vaultmgr.
Fairness ==
  /\ WF_vars(EventLoop)
  /\ SF_vars(selfEventSent) /\ SF_vars(mainSent)
  /\ WF_vars(attestModuleStart) /\ WF_vars(reboot)
  /\ SF_vars(handleAttestQuoteImpl) /\ SF_vars(handleAttestQuoteDelete)
  /\ SF_vars(handleEncryptedKeyFromDeviceImpl)
  /\ WF_vars(handleAttestNonceImpl) /\ WF_vars(handleAttestNonceDelete)
  /\ \A e \in {"NonceRecvd", "AttestSuccessful", "AttestEscrowRecorded"} :
       SF_vars(EventLoop /\ selfEvents'[e] > selfEvents[e])

FairSpec == Spec /\ Fairness

-----------------------------------------------------------------------------
(* Properties *)

\* An event is on its way: in the channel or with a goroutine that will send it
Pending(e) == eventTrigger = e \/ (e \in SelfEvents /\ selfEvents[e] > 0)

\* Whatever is about to make the machine move: the events other than Initialize
\* it sent to itself, and the timer
Drivers == {e \in SelfEvents \ {"Initialize"} : Pending(e)}
             \cup (IF restartTimer = "armed" THEN {"timer"} ELSE {})

\* The quote sent to the controller (SendAttestQuote dereferences InternalQuote)
\* is present and was made for the nonce of the current cycle, although the main
\* loop stores and deletes quotes concurrently and deletions may come late.
QuoteMatchesNonce ==
  state = "AttestWait" => internalQuote # Nil /\ internalQuote = nonce

\* Whatever the order in which threads send, the machine waits for at most one
\* thing at a time, and that thing has a row in the table for the present state:
\* no late answer or timer expiry of an earlier request reaches a later state.
\* (Initialize is the exception, see NoUnexpectedEvent.)
OneDriverAtATime ==
  fatal = "none" =>
    /\ \A d1, d2 \in Drivers : d1 = d2
    /\ \A e \in SelfEvents \ {"Initialize"} :
         /\ Pending(e) => state \in HandledIn(e)
         /\ selfEvents[e] + (IF eventTrigger = e THEN 1 ELSE 0) <= 1

\* The process never dies of a nil quote or of a stale nonce left published
\* (log.Fatal in unpublishAttestNonce)
NoFatalButUnexpected == fatal \in {"none", "unexpected_event"}

\* The machine is never left waiting for a nonce or for an answer of the controller
\* with nothing on its way that would wake it up
NeverForgotten ==
  fatal = "none" /\ usingV2API
      /\ state \in {"NonceWait", "AttestWait", "AttestEscrowWait", "RestartWait"}
    => Drivers # {}

\* despatchEvent asserts (log.Fatalf "Unexpected Event") that every event has a row
NoUnexpectedEvent == fatal # "unexpected_event"

\* handleNoEscrowAtAttestEscrowWait waits "till we get escrow data published": once
\* the main loop has stored the key, the machine in InternalEscrowWait has a wake-up
\* coming
EscrowWakeup ==
  fatal = "none" /\ state = "InternalEscrowWait" /\ escrow # "none"
    => eventTrigger = "InternalEscrowRecvd" \/ mainSend = "InternalEscrowRecvd"

\* A controller that answers well often enough brings the attestation, restarts
\* included, to an end: it is complete, or waits for a vault key.  Retry timers,
\* restart requests and late messages never make the machine go round for ever.
Converges ==
  usingV2API => <>[](state \in {"Complete", "InternalEscrowWait"})

\* Only a stored key, or a device without TPM, completes an attestation
CompleteMeansEscrowed ==
  state = "Complete" => publishedAttestEscrow \/ escrow = "skip"
=============================================================================
