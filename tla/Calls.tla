----------------------------------- MODULE Calls ------------------------------------
(***************************************************************************)
(* Video calls between two users (app.js); the gateway relays the signals. *)
(*                                                                         *)
(* A browser has one activeCall: a peer connection and a stream of a        *)
(* microphone and a camera.  Calling, answering and switching the camera    *)
(* await the permission, the devices and the other side; while they do, the *)
(* user may hang up or begin another call, the other side may decline or    *)
(* end, and the connection may fail.  The awaiting function goes on with    *)
(* whatever activeCall is by then.  Descriptions and candidates of the      *)
(* connection are left out.                                                *)
(***************************************************************************)
EXTENDS Naturals

CONSTANTS
  Parties,      \* two users
  MaxDials,     \* bound: how often Call and Accept are pressed
  MaxFlips,     \* bound: how often a camera is switched
  MaxHitches    \* bound: requests of a browser that fail, and connections that do

ASSUME CallsAssumption ==
  /\ \E p, q \in Parties : p # q /\ Parties = {p, q}
  /\ {MaxDials, MaxFlips, MaxHitches} \subseteq Nat

VARIABLES
  phone,        \* phone[p]: the browser of p, see Phones
  signals,      \* call:offer, call:decline and call:end on their way
  overlaid,     \* users whose calls or camera switches ran into each other
  dials, flipped, hitches

callsVars == <<phone, signals, overlaid, dials, flipped, hitches>>

\* The n-th connection of a browser is NoLink + n; so are its devices.
NoLink == 0
Links == 1 .. MaxDials
Microphone(n) == <<"microphone", n>>
Camera(n) == <<"camera", n>>
Inputs == {Microphone(n) : n \in Links} \cup {Camera(n) : n \in 1 .. MaxDials + MaxFlips}

\* startCall awaits, in this order: the permission, the devices, their list, its own
\* description, the acknowledgement; acceptIncomingCall opens the chat first.
Stages == {"permission", "select", "media", "devices", "describe", "emit"}

Phones == [peer : Links \cup {NoLink},      \* activeCall.peer (with its targetUserId)
           stream : SUBSET Inputs,          \* activeCall.localStream
           switching : BOOLEAN,             \* activeCall.switchingCamera
           reconnecting : BOOLEAN,          \* activeCall.reconnectTimer
           ringing : BOOLEAN,               \* pendingIncomingCall
           working : SUBSET Links,          \* the connections that are not closed
           live : SUBSET Inputs,            \* the devices that are not stopped
           setups : SUBSET [peer : Links, answers : BOOLEAN, at : Stages],
           flips : SUBSET [peer : Links \cup {NoLink}, from : Inputs, to : Inputs,
                           kept : SUBSET Inputs, at : {"media", "replace"}]]

CallsTypeOK ==
  /\ phone \in [Parties -> Phones]
  /\ dials \in 0 .. MaxDials /\ flipped \in 0 .. MaxFlips
  /\ signals \subseteq [to : Parties, kind : {"offer", "decline", "end"}]
  /\ overlaid \subseteq Parties
  /\ hitches \in 0 .. MaxHitches

CallsInit ==
  /\ phone = [p \in Parties |->
       [peer |-> NoLink, stream |-> {}, switching |-> FALSE, reconnecting |-> FALSE,
        ringing |-> FALSE, working |-> {}, live |-> {}, setups |-> {}, flips |-> {}]]
  /\ signals = {} /\ overlaid = {} /\ dials = 0 /\ flipped = 0 /\ hitches = 0

Other(p) == CHOOSE q \in Parties : q # p

\* cleanupActiveCall.
HungUp(b) ==
  [b EXCEPT !.peer = NoLink, !.stream = {}, !.switching = FALSE, !.reconnecting = FALSE,
            !.working = @ \ {b.peer}, !.live = @ \ b.stream]

Become(p, b) ==
  /\ phone' = [phone EXCEPT ![p] = b]
  /\ overlaid' = IF b.peer = NoLink /\ b.flips # {} THEN overlaid \cup {p} ELSE overlaid

Signal(p, kind) == signals' = signals \cup {[to |-> Other(p), kind |-> kind]}

Goes(b, s, at) == [b EXCEPT !.setups = (@ \ {s}) \cup {[s EXCEPT !.at = at]}]
Ends(b, s) == [b EXCEPT !.setups = @ \ {s}]

Hitch == hitches < MaxHitches /\ hitches' = hitches + 1

--------------------------------------------------------------------------------
(* startCall and acceptIncomingCall.                                       *)

Dial(p, answers) ==
  LET b == phone[p]
      n == dials + 1
  IN /\ n <= MaxDials
     /\ dials' = n
     /\ Become(p, [b EXCEPT !.ringing = @ /\ ~answers,
                            !.setups = @ \cup {[peer |-> n, answers |-> answers,
                                 at |-> IF answers THEN "select" ELSE "permission"]}])
     /\ UNCHANGED <<signals, flipped, hitches>>

PressCall(p) == Dial(p, FALSE)

PressAccept(p) == phone[p].ringing /\ Dial(p, TRUE)

\* createPeerConnection, and the request for the devices; only startCall hangs up first.
ConnectCall(p) ==
  \E s \in phone[p].setups :
    LET b == IF s.answers THEN phone[p] ELSE HungUp(phone[p])
        others == {o \in b.setups \ {s} : o.at \notin {"permission", "select"}}
        ready == [Goes(b, s, "media") EXCEPT !.peer = s.peer, !.working = @ \cup {s.peer}]
    IN /\ s.at \in {"permission", "select"}
       /\ phone' = [phone EXCEPT ![p] = ready]
       /\ overlaid' = IF b.peer # NoLink \/ others # {} \/ b.flips # {}
                      THEN overlaid \cup {p} ELSE overlaid
       /\ UNCHANGED <<signals, dials, flipped, hitches>>

\* ensureChatPermissionReady says no.
Refused(p) ==
  \E s \in phone[p].setups :
    /\ s.at = "permission"
    /\ Become(p, Ends(phone[p], s))
    /\ UNCHANGED <<signals, dials, flipped, hitches>>

\* prepareCallStream, once getUserMedia has given the devices.
GetDevices(p) ==
  \E s \in phone[p].setups :
    LET got == {Microphone(s.peer), Camera(s.peer)}
    IN /\ s.at = "media"
       /\ Become(p, [Goes(phone[p], s, "devices") EXCEPT !.stream = got,
                                                         !.live = @ \cup got])
       /\ UNCHANGED <<signals, dials, flipped, hitches>>

\* Seeded bug: a call that cannot be set up is only reported.
GiveUpCall_Alerts(p, s) == Become(p, Ends(phone[p], s))

\* The `catch' of both functions.
GiveUpCall(p, s) == Become(p, Ends(HungUp(phone[p]), s))

\* addTrack, createOffer and their like, which a closed connection refuses; then
\* call:offer or call:answer is sent.
Describe(p) ==
  \E s \in phone[p].setups :
    /\ s.at \in {"devices", "describe"}
    /\ IF s.peer \notin phone[p].working THEN GiveUpCall(p, s) /\ UNCHANGED signals
       ELSE IF s.at = "devices"
       THEN Become(p, Goes(phone[p], s, "describe")) /\ UNCHANGED signals
       ELSE /\ Become(p, Goes(phone[p], s, "emit"))
            /\ IF s.answers THEN UNCHANGED signals ELSE Signal(p, "offer")
    /\ UNCHANGED <<dials, flipped, hitches>>

Acknowledged(p) ==
  \E s \in phone[p].setups :
    /\ s.at = "emit"
    /\ Become(p, Ends(phone[p], s))
    /\ UNCHANGED <<signals, dials, flipped, hitches>>

\* No device, no description, no acknowledgement.
SetupFails(p) ==
  \E s \in phone[p].setups :
    /\ s.at \in {"media", "describe", "emit"}
    /\ Hitch
    /\ GiveUpCall(p, s)
    /\ UNCHANGED <<signals, dials, flipped>>

--------------------------------------------------------------------------------
(* Hanging up, declining, and what the other side and the connection say.  *)

\* endCurrentCall.
PressHangUp(p) ==
  LET b == phone[p]
  IN /\ b.peer # NoLink
     /\ Signal(p, "end")
     /\ Become(p, HungUp(b))
     /\ UNCHANGED <<dials, flipped, hitches>>

\* declineIncomingCall.
PressDecline(p) ==
  /\ phone[p].ringing
  /\ Signal(p, "decline")
  /\ Become(p, [phone[p] EXCEPT !.ringing = FALSE])
  /\ UNCHANGED <<dials, flipped, hitches>>

\* handleIncomingCallOffer, handleCallDecline, handleCallEnd.
GetSignal(p) ==
  \E s \in signals :
    LET b == phone[p]
    IN /\ s.to = p
       /\ \/ /\ s.kind = "offer" /\ (b.peer # NoLink \/ b.ringing)
             /\ signals' = (signals \ {s}) \cup {[to |-> Other(p), kind |-> "decline"]}
             /\ UNCHANGED <<phone, overlaid>>
          \/ /\ s.kind = "offer" /\ b.peer = NoLink /\ ~b.ringing
             /\ signals' = signals \ {s}
             /\ Become(p, [b EXCEPT !.ringing = TRUE])
          \/ /\ s.kind \in {"decline", "end"}
             /\ signals' = signals \ {s}
             /\ Become(p, IF b.peer = NoLink THEN b ELSE HungUp(b))
       /\ UNCHANGED <<dials, flipped, hitches>>

\* onconnectionstatechange of any connection that is not closed.
Disconnected(p) ==
  /\ phone[p].working # {}
  /\ Hitch
  /\ \/ Become(p, [phone[p] EXCEPT !.reconnecting = TRUE])
     \/ Become(p, HungUp(phone[p]))
  /\ UNCHANGED <<signals, dials, flipped>>

\* The timer of 12 seconds, or the connection is back.
ReconnectEnds(p) ==
  /\ phone[p].reconnecting
  /\ \/ Become(p, HungUp(phone[p]))
     \/ Become(p, [phone[p] EXCEPT !.reconnecting = FALSE])
  /\ UNCHANGED <<signals, dials, flipped, hitches>>

--------------------------------------------------------------------------------
(* flipActiveCamera.                                                       *)

PressFlip(p) ==
  LET b == phone[p]
      n == flipped + 1
  IN /\ n <= MaxFlips /\ ~b.switching
     /\ flipped' = n
     /\ \E camera \in b.stream :
          /\ camera[1] = "camera"
          /\ Become(p, [b EXCEPT !.switching = TRUE,
                                 !.flips = @ \cup {[peer |-> NoLink, from |-> camera, at |-> "media",
                                                    to |-> Camera(MaxDials + n),
                                                    kept |-> b.stream \ {camera}]}])
     /\ UNCHANGED <<signals, dials, hitches>>

\* The new camera is there; a connection is told to send it.
FlipCamera(p) ==
  \E f \in phone[p].flips :
    LET b == phone[p]
        got == [b EXCEPT !.live = @ \cup {f.to},
                         !.flips = (@ \ {f})
                                   \cup {[f EXCEPT !.at = "replace", !.peer = b.peer]}]
        done == [b EXCEPT !.live = (@ \cup {f.to}) \ {f.from}, !.stream = f.kept \cup {f.to},
                          !.switching = FALSE, !.flips = @ \ {f}]
    IN /\ \/ f.at = "media" /\ b.peer # NoLink /\ Become(p, got)
          \/ f.at = "media" /\ b.peer = NoLink /\ Become(p, done)
          \/ f.at = "replace" /\ f.peer \in b.working /\ Become(p, done)
       /\ UNCHANGED <<signals, dials, flipped, hitches>>

\* No camera, or a connection closed meanwhile.
FlipFails(p) ==
  \E f \in phone[p].flips :
    /\ \/ f.at = "media" /\ Hitch
       \/ f.at = "replace" /\ f.peer \notin phone[p].working /\ UNCHANGED hitches
    /\ Become(p, [phone[p] EXCEPT !.switching = FALSE, !.flips = @ \ {f}])
    /\ UNCHANGED <<signals, dials, flipped>>

CallsNext ==
  \E p \in Parties :
    \/ PressCall(p) \/ PressAccept(p) \/ ConnectCall(p) \/ Refused(p) \/ GetDevices(p)
    \/ Describe(p) \/ Acknowledged(p) \/ SetupFails(p)
    \/ PressHangUp(p) \/ PressDecline(p) \/ GetSignal(p)
    \/ Disconnected(p) \/ ReconnectEnds(p)
    \/ PressFlip(p) \/ FlipCamera(p) \/ FlipFails(p)

CallsSpec == CallsInit /\ [][CallsNext]_callsVars

--------------------------------------------------------------------------------
(* Properties.                                                             *)

\* Once nothing is being set up or switched, the microphones and cameras in use are
\* those that hanging up will stop, and without a call none is: whatever the user, the
\* other side or the connection ended while the browser was waiting.  Left out is a
\* user whose calls overlapped, or whose call ended while the camera was switched.
DevicesAreReleased ==
  \A p \in Parties \ overlaid :
    LET b == phone[p]
    IN b.setups = {} /\ b.flips = {} =>
         /\ b.live = b.stream
         /\ b.peer = NoLink => b.live = {}
================================================================================
