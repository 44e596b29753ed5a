-------------------------------- MODULE Dot1x --------------------------------
(***************************************************************************)
(* The 802.1X supplicant of one client (plugins/dot1x).  Any EAP packet of *)
(* the authenticator may arrive at any time.  A challenge is a model value *)
(* and stands for the authenticator response that answers it: Encryptv2    *)
(* computes one from the other.                                            *)
(***************************************************************************)
EXTENDS Naturals

CONSTANTS
    Challenges,     \* MSCHAPv2 challenges
    NoChallenge,    \* stands for the empty response, kept before any challenge
    Methods,        \* the methods cfg.Flags leaves enabled: subset of {"md5", "mschap"}
    HasUser, HasPassword,   \* cfg.User # nil, cfg.Password # nil
    MaxStart,       \* cfg.MaxStart
    CntMod          \* 2^8: smCnt is a uint8

ASSUME X1Assumption == NoChallenge \notin Challenges /\ MaxStart \in Nat /\ CntMod \in Nat \ {0}

VARIABLES
    x1,             \* PluginDot1xClient
    x1proved,       \* history: an authenticator proved that it knows the password
    x1starts,       \* history: Start packets since creation or the last Success, while x1touts < CntMod
    x1touts         \* history: timeouts since then, up to CntMod

x1vars == <<x1, x1proved, x1starts, x1touts>>

X1Done == {"DONE_OK", "DONE_FAIL"}

ChangeToInit(c) == [c EXCEPT !.method = "none", !.state = "WAIT_FOR_IDENTITY"]

\* changeToInit, SendStartPacket and restartTimer
StartSm(c) == [ChangeToInit(c) EXCEPT !.timer = TRUE]

X1OnCreate ==
    StartSm([state |-> "WAIT_FOR_IDENTITY", cnt |-> 0, method |-> "none", timer |-> FALSE,
             auth |-> NoChallenge])

X1Init ==
    /\ x1 = X1OnCreate
    /\ x1proved = FALSE
    /\ x1starts = 1
    /\ x1touts = 0

-----------------------------------------------------------------------------
Restarts(c) == c.cnt < MaxStart

\* the callback's timer no longer runs; it is started again only by StartSm
X1OnTimerEvent ==
    /\ x1.timer
    /\ LET c == [x1 EXCEPT !.timer = FALSE]
           d == [c EXCEPT !.cnt = (@ + 1) % CntMod]
       IN IF c.state \in X1Done
          THEN x1' = c /\ UNCHANGED <<x1starts, x1touts>>
          ELSE /\ x1' = IF Restarts(d) THEN StartSm(d) ELSE d
               /\ x1starts' = IF Restarts(d) /\ x1touts < CntMod THEN x1starts + 1 ELSE x1starts
               /\ x1touts' = IF x1touts < CntMod THEN x1touts + 1 ELSE x1touts
    /\ x1proved' = IF x1'.state = "WAIT_FOR_IDENTITY" THEN FALSE ELSE x1proved

\* accepted in every state; makeSurereTimerIsRunning
HandleIdentity(c) == [c EXCEPT !.state = "WAIT_FOR_METHOD", !.timer = TRUE]

RequestIdentity ==
    /\ HasUser
    /\ x1' = HandleIdentity(x1)
    /\ x1proved' = FALSE
    /\ UNCHANGED <<x1starts, x1touts>>

\* EAP-MD5: one challenge, and the method is finished
RequestMd5 ==
    /\ x1.state = "WAIT_FOR_METHOD" /\ "md5" \in Methods /\ HasPassword
    /\ x1' = [x1 EXCEPT !.state = "WAIT_FOR_RESULTS", !.method = "md5"]
    /\ UNCHANGED <<x1proved, x1starts, x1touts>>

\* EAP-MSCHAPv2, OpCode CHALLENGE: answered, and the response that proves the
\* authenticator's knowledge is kept; the method goes on
RequestChallenge(ch) ==
    /\ x1.state = "WAIT_FOR_METHOD" /\ "mschap" \in Methods /\ HasPassword
    /\ x1' = [x1 EXCEPT !.method = "mschap", !.auth = ch]
    /\ UNCHANGED <<x1proved, x1starts, x1touts>>

AnySuccess(c, ch) == TRUE

MatchesAuth(c, ch) == ch = c.auth

\* OpCode SUCCESS: finishes the method when it carries the kept response (the
\* last challenge's, of whatever round); a wrong one is answered with a NACK.
\* What is compared is the text up to the first space, which may be empty, and
\* so is authenticatorResponse until the first challenge.
RequestSuccess(ch) ==
    /\ x1.state = "WAIT_FOR_METHOD" /\ "mschap" \in Methods /\ HasPassword
    /\ MatchesAuth(x1, ch)
    /\ x1' = [x1 EXCEPT !.state = "WAIT_FOR_RESULTS", !.method = "mschap"]
    /\ x1proved' = (x1.auth # NoChallenge /\ ch = x1.auth)
    /\ UNCHANGED <<x1starts, x1touts>>

\* smCnt is reset by every Success packet, the ignored ones included; both
\* methods' Success returns true
HandleSuccess ==
    /\ x1' = [x1 EXCEPT !.cnt = 0,
                        !.state = IF @ = "WAIT_FOR_RESULTS" THEN "DONE_OK" ELSE @]
    /\ x1starts' = 0 /\ x1touts' = 0
    /\ UNCHANGED x1proved

HandleFailure ==
    /\ x1.state = "WAIT_FOR_RESULTS"
    /\ x1' = [x1 EXCEPT !.state = "DONE_FAIL"]
    /\ UNCHANGED <<x1proved, x1starts, x1touts>>

\* the plugin is removed, its timer stopped, and added to the client again
X1OnRemove == x1' = X1OnCreate /\ x1proved' = FALSE /\ x1starts' = 1 /\ x1touts' = 0

X1Next ==
    \/ X1OnRemove \/ X1OnTimerEvent \/ RequestIdentity \/ RequestMd5 \/ HandleSuccess \/ HandleFailure
    \/ \E ch \in Challenges : RequestChallenge(ch)
    \/ \E ch \in Challenges \cup {NoChallenge} : RequestSuccess(ch)

X1Spec == X1Init /\ [][X1Next]_x1vars

-----------------------------------------------------------------------------
\* With MSCHAPv2 a client that ever answered a challenge is authenticated only
\* by an authenticator that showed, since the last identity request, the
\* response to a challenge this client answered (BuildResp's comparison with
\* authenticatorResponse).  Before the first challenge the kept response is
\* empty and an empty one matches it: such a client may be done unproved.
X1Mutual ==
    x1.state = "DONE_OK" /\ x1.method = "mschap" /\ x1.auth # NoChallenge => x1proved

\* Until 256 timeouts in a row, at most max(1, MaxStart) Start packets are sent
\* without a Success in between (onTimerEvent; smCnt is a uint8, so the 256th
\* timeout starts the count again).
X1StartsBounded ==
    x1touts < CntMod => x1starts <= (IF MaxStart = 0 THEN 1 ELSE MaxStart)

\* Authentication is mutual once a challenge was answered, and a silent
\* authenticator is not flooded (onTimerEvent, BuildResp).
X1Sound == X1Mutual /\ X1StartsBounded
=============================================================================
