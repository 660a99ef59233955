------------------------------ MODULE Console ------------------------------
(***************************************************************************)
(* The console (src/web/app.js) with the server's routes behind it.  The   *)
(* panels share nothing but the tab's one operation at a time, and an      *)
(* operation of another panel does no more than drop clicks, as a user who *)
(* does not click.  Each behaviour therefore works in one panel.  The      *)
(* Google panel keeps no state but that of the server, and its requests    *)
(* come from any tab.                                                      *)
(***************************************************************************)
EXTENDS AlertWatch, ReminderWatch, ChatPanel, GoogleCalendar

VARIABLE panel

Panels == {"alerts", "reminders", "chat", "google"}

consoleVars == <<panel, alertWatchVars, reminderWatchVars, chatVars, googleVars>>

ConsoleInit ==
    /\ panel \in Panels
    /\ TabInit
    /\ WatchInit
    /\ ReminderWatchInit
    /\ ChatInit
    /\ GoogleInit

\* What a panel leaves alone of the others'.
ofAlerts == <<inboxVars, watchVars, alertRequest, acking, notice>>
ofReminders == <<moment, row, tabState, inFlight, reading, history, notices>>
ofChat == <<asked, chatting, lastChat, inspected, confirming, saved, lost, attempts>>

Alerting == panel = "alerts" /\ AlertWatchNext /\ UNCHANGED <<ofReminders, ofChat, googleVars>>

Reminding == panel = "reminders" /\ ReminderWatchNext /\ UNCHANGED <<ofAlerts, ofChat, googleVars>>

Chatting == panel = "chat" /\ ChatNext /\ UNCHANGED <<ofAlerts, ofReminders, googleVars>>

Connecting == panel = "google" /\ GoogleNext /\ UNCHANGED <<doing, ofAlerts, ofReminders, ofChat>>

ConsoleNext ==
    /\ Alerting \/ Reminding \/ Chatting \/ Connecting
    /\ UNCHANGED panel

ConsoleSpec == ConsoleInit /\ [][ConsoleNext]_consoleVars
=============================================================================
