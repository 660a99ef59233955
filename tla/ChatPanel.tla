------------------------------ MODULE ChatPanel ------------------------------
(***************************************************************************)
(* The chat of a tab (src/web/app.js).  A reply may hold a preview, of a   *)
(* reminder or of a recurring rule, with a button that saves it.  The chat *)
(* does not wait for the tab's operation: a reply may take the place of a  *)
(* preview whose confirmation is under way.                                *)
(***************************************************************************)
EXTENDS Tab, Naturals

CONSTANTS
    Previews,       \* the replies that hold a preview, each an object of its own
    NoPreview,      \* any other reply, and none
    MaxAttempts     \* bound: confirmations sent

ASSUME ChatAssumption == NoPreview \notin Previews /\ MaxAttempts \in Nat

VARIABLES
    asked,          \* the messages sent so far, by the preview they are answered with
    chatting,       \* the message in flight (chatSending)
    lastChat,       \* state.lastChat
    inspected,      \* the reply that fills #chat-inspect, and whether its button is enabled
    confirming,     \* the preview whose confirmation is under way
    saved,          \* history: the rows created for each preview
    lost,           \* history: the previews with a confirmation whose answer was lost
    attempts        \* confirmations sent so far

chatVars == <<doing, asked, chatting, lastChat, inspected, confirming, saved, lost, attempts>>

ChatInit ==
    /\ asked = {}
    /\ chatting = {}
    /\ lastChat = NoPreview
    /\ inspected = [reply |-> NoPreview, enabled |-> FALSE]
    /\ confirming = NoPreview
    /\ saved = [m \in Previews |-> 0]
    /\ lost = {}
    /\ attempts = 0

Send(m) ==
    /\ chatting = {}
    /\ m \in Previews => m \notin asked
    /\ asked' = asked \cup {m}
    /\ chatting' = {m}
    /\ UNCHANGED <<doing, lastChat, inspected, confirming, saved, lost, attempts>>

\* renderChatInspection fills the panel anew.
ReplyArrives(m) ==
    /\ chatting' = {}
    /\ lastChat' = m
    /\ inspected' = [reply |-> m, enabled |-> m \in Previews]
    /\ UNCHANGED <<doing, asked, confirming, saved, lost, attempts>>

ReplyFails ==
    /\ chatting # {}
    /\ chatting' = {}
    /\ UNCHANGED <<doing, asked, lastChat, inspected, confirming, saved, lost, attempts>>

\* Resuming a task puts its result in the place of the last reply.
ResumeTask ==
    /\ AtOnce
    /\ lastChat' = NoPreview
    /\ inspected' = [reply |-> NoPreview, enabled |-> FALSE]
    /\ UNCHANGED <<asked, chatting, confirming, saved, lost, attempts>>

\* The button of preview m; `action` disables it while it runs.
Confirm(m) ==
    /\ inspected = [reply |-> m, enabled |-> TRUE]
    /\ m = lastChat
    /\ attempts < MaxAttempts
    /\ attempts' = attempts + 1
    /\ Starts("confirm")
    /\ confirming' = m
    /\ inspected' = [inspected EXCEPT !.enabled = FALSE]
    /\ UNCHANGED <<asked, chatting, lastChat, saved, lost>>

Save(m) ==
    /\ m \in Previews
    /\ GoesOn("confirm", "saved")
    /\ saved' = [saved EXCEPT ![m] = @ + 1]
    /\ UNCHANGED <<asked, chatting, lastChat, inspected, confirming, lost, attempts>>

Fault_ConfirmationLeavesTheReply(m) == m

\* Whatever reply is the last by now is given up.
AfterConfirmation(m) == NoPreview

\* The buttons of the panel as it is now are disabled; `action` enables its own again,
\* unless a reply has taken its preview from the panel.
SaveAnswered(m) ==
    /\ m \in Previews
    /\ Ends("saved")
    /\ lastChat' = AfterConfirmation(lastChat)
    /\ inspected' = [inspected EXCEPT !.enabled = inspected.reply = m]
    /\ confirming' = NoPreview
    /\ UNCHANGED <<asked, chatting, saved, lost, attempts>>

\* The server refuses or dies before the row is there, or the answer is lost after it.
ConfirmationFails(m) ==
    /\ m \in Previews
    /\ \/ Ends("confirm") /\ UNCHANGED lost
       \/ Ends("saved") /\ lost' = lost \cup {m}
    /\ inspected' = [inspected EXCEPT !.enabled = inspected.enabled \/ inspected.reply = m]
    /\ confirming' = NoPreview
    /\ UNCHANGED <<asked, chatting, lastChat, saved, attempts>>

ChatNext ==
    \/ \E m \in Previews \cup {NoPreview} : Send(m)
    \/ \E m \in chatting : ReplyArrives(m)
    \/ ReplyFails
    \/ ResumeTask
    \/ \E m \in Previews : Confirm(m)
    \/ Save(confirming) \/ SaveAnswered(confirming) \/ ConfirmationFails(confirming)

----------------------------------------------------------------------------
(* Properties *)

\* One preview is saved once, whatever replies arrive between the click and the answer:
\* a second row needs an answer that was lost, after which the preview can be confirmed anew.
PreviewSavedOnce == \A m \in Previews : saved[m] > 1 => m \in lost
=============================================================================
