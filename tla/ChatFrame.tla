----------------------------- MODULE ChatFrame ------------------------------
(***************************************************************************)
(* The embedded chat of the React client (react-client/src/sdk), between   *)
(* its host, who calls the API, and the page in its frame.  openChat       *)
(* submits a form in the frame, which is blank until the page has come;    *)
(* the page asks for nothing before it has heard a heartbeat of the host;  *)
(* then it sends a port, and the host configures it through that port.     *)
(* The chat answers from the containers that ChatController was told are   *)
(* selected.  The page is of another origin, and the frame keeps it.       *)
(*                                                                         *)
(* Nothing in the repository renders the chat: the host is whoever calls   *)
(* the public functions, in any order.                                     *)
(***************************************************************************)
EXTENDS Naturals, Sequences

CONSTANTS
    ChatContainers,     \* containers to select
    WithDrive,          \* those that were loaded with their drive
    Instructions,
    Looks,              \* header, theme and prompts, as one value
    Undefined,
    MaxForms,           \* bound on the forms that are submitted
    MaxChatCalls        \* bound on what the host and the page ask for

ASSUME ChatAssumption == MaxForms \in Nat /\ MaxChatCalls \in Nat

VARIABLES
    selectedContainers, \* of ChatController
    subscribed,         \* the API listens to it
    settings,           \* what the API object holds
    port,               \* the API has the port of the page
    beats,              \* heartbeats that run, by the form they came with
    heartbeatInterval,  \* the last one that was started
    listening,          \* _messageListener is registered
    openings,           \* calls of openChat that wait for a token
    forms,              \* forms submitted so far
    loaded,             \* the page that a form asked for is in the frame
    introduced,         \* it has heard a heartbeat
    portSent,           \* its port is under way
    portQueue,          \* messages to it
    seen,               \* what it was told
    chatCalls,          \* counts what was asked for
    heard,              \* history: the last selection reached the API
    unsent              \* history: settings changed without a message

hostVars == <<selectedContainers, subscribed, settings, heard, unsent>>
linkVars == <<port, beats, heartbeatInterval, listening, portSent>>
shownVars == <<forms, loaded, introduced>>
frameVars == <<shownVars, portQueue, seen>>
chatVars == <<hostVars, linkVars, frameVars, openings, chatCalls>>

Fields == {"instruction", "dataSources", "look"}

Blank == [f \in Fields |-> Undefined]

(* A component makes one API object for its frame, and nothing is in it. *)
ChatInit ==
    /\ selectedContainers = {} /\ subscribed = FALSE /\ settings = Blank
    /\ port = FALSE /\ beats = {} /\ heartbeatInterval = 0 /\ listening = FALSE
    /\ openings = 0 /\ forms = 0 /\ loaded = FALSE /\ introduced = FALSE /\ portSent = FALSE
    /\ portQueue = <<>> /\ seen = Blank
    /\ chatCalls = 0 /\ heard = FALSE /\ unsent = {}

ChatCall == chatCalls < MaxChatCalls /\ chatCalls' = chatCalls + 1

(* What a message through the port says of the fields fs. *)
Message(fs, values) == [fields |-> fs, values |-> values]
Post(fs, values) ==
    portQueue' = IF port THEN Append(portQueue, Message(fs, values)) ELSE portQueue

-----------------------------------------------------------------------------
(* ChatController. *)

DataSources(cs) == cs \cap WithDrive

Subscribe(on) ==
    /\ ChatCall /\ subscribed' = on
    /\ UNCHANGED <<selectedContainers, settings, heard, unsent, linkVars, frameVars, openings>>

(* Mutant of SelectContainers: what was set before the port is not kept. *)
SelectContainersPosted(cs) ==
    /\ ChatCall /\ selectedContainers' = cs /\ heard' = subscribed
    /\ settings' = IF subscribed /\ port
                   THEN [settings EXCEPT !["dataSources"] = DataSources(cs)] ELSE settings
    /\ IF subscribed THEN Post({"dataSources"}, settings') ELSE UNCHANGED portQueue
    /\ UNCHANGED <<subscribed, unsent, linkVars, shownVars, seen, openings>>

(* The subscriber is setDataSources, which keeps them and tells the page. *)
SelectContainers(cs) ==
    /\ ChatCall /\ selectedContainers' = cs /\ heard' = subscribed
    /\ settings' = IF subscribed THEN [settings EXCEPT !["dataSources"] = DataSources(cs)]
                                 ELSE settings
    /\ IF subscribed THEN Post({"dataSources"}, settings') ELSE UNCHANGED portQueue
    /\ UNCHANGED <<subscribed, unsent, linkVars, shownVars, seen, openings>>

-----------------------------------------------------------------------------
(* The API object. *)

SetInstruction(i) ==
    /\ ChatCall /\ settings' = [settings EXCEPT !["instruction"] = i]
    /\ Post({"instruction"}, settings')
    /\ unsent' = IF port THEN unsent \ {"instruction"} ELSE unsent
    /\ UNCHANGED <<selectedContainers, subscribed, heard, linkVars, shownVars, seen,
                   openings>>

(* setHeader, setTheme, setZeroQueryPrompts, setSuggestedPrompts: the next *)
(* configuration will have it.                                             *)
SetLook(l) ==
    /\ ChatCall /\ settings' = [settings EXCEPT !["look"] = l]
    /\ unsent' = unsent \cup {"look"}
    /\ UNCHANGED <<selectedContainers, subscribed, heard, linkVars, frameVars, openings>>

(* A prompt is not kept: without a port it is lost. *)
SetPrompt ==
    /\ ChatCall /\ Post({}, settings)
    /\ UNCHANGED <<hostVars, linkVars, shownVars, seen, openings>>

(* A launch configuration sets the instruction even if it has none, and of *)
(* the look what it has.                                                   *)
OpenChat(i, l) ==
    /\ ChatCall /\ openings' = openings + 1
    /\ settings' = [settings EXCEPT !["instruction"] = i, !["look"] = l]
    /\ unsent' = unsent \cup {"instruction", "look"}
    /\ UNCHANGED <<selectedContainers, subscribed, heard, linkVars, frameVars>>

OpenChatAgain ==
    /\ ChatCall /\ openings' = openings + 1
    /\ UNCHANGED <<hostVars, linkVars, frameVars>>

(* openChat after its await, in the blank frame: a heartbeat starts, and   *)
(* the form is submitted.  The one before it is given up, but its          *)
(* heartbeat goes on, and is forgotten.                                    *)
TokenCame ==
    /\ openings > 0 /\ ~loaded /\ forms < MaxForms
    /\ openings' = openings - 1 /\ forms' = forms + 1
    /\ heartbeatInterval' = forms + 1 /\ beats' = beats \cup {forms + 1}
    /\ listening' = TRUE
    /\ UNCHANGED <<hostVars, port, portSent, loaded, introduced, portQueue, seen, chatCalls>>

(* There is no token, or the page is there, whose document throws.  Nobody *)
(* takes back what openChat had set.                                       *)
OpeningFails ==
    /\ openings > 0 /\ openings' = openings - 1
    /\ UNCHANGED <<hostVars, linkVars, frameVars, chatCalls>>

-----------------------------------------------------------------------------
(* The page in the frame, and how it is connected. *)

(* The last form that was submitted is answered. *)
PageLoads ==
    /\ forms > 0 /\ ~loaded /\ loaded' = TRUE
    /\ UNCHANGED <<hostVars, linkVars, forms, introduced, portQueue, seen, openings, chatCalls>>

(* A heartbeat reaches the page, and it sends its port. *)
Heartbeat ==
    /\ beats # {} /\ loaded /\ ~introduced
    /\ introduced' = TRUE /\ portSent' = TRUE
    /\ UNCHANGED <<hostVars, port, beats, heartbeatInterval, listening, forms, loaded, portQueue,
                   seen, openings, chatCalls>>

(* The port arrives: it is kept, and the page configured through it. *)
TakePort ==
    /\ port' = TRUE /\ portQueue' = <<Message(Fields, settings)>>
    /\ unsent' = {}

(* Mutant of OnWindowMessage: the heartbeat and the listener end whether   *)
(* or not the message has the port.                                        *)
OnWindowMessageDeaf ==
    /\ portSent /\ listening
    /\ portSent' = FALSE /\ listening' = FALSE /\ beats' = beats \ {heartbeatInterval}
    /\ TakePort \/ UNCHANGED <<port, portQueue, unsent>>
    /\ UNCHANGED <<selectedContainers, subscribed, settings, heard, heartbeatInterval, shownVars,
                   seen, openings, chatCalls>>

(* With it the listening ends, and the last heartbeat that was started.    *)
OnWindowMessage ==
    /\ portSent /\ listening
    /\ portSent' = FALSE /\ listening' = FALSE /\ beats' = beats \ {heartbeatInterval}
    /\ TakePort
    /\ UNCHANGED <<selectedContainers, subscribed, settings, heard, heartbeatInterval, shownVars,
                   seen, openings, chatCalls>>

(* The page asks for something, and its command is acknowledged; a query   *)
(* has a result as well.                                                   *)
OnChatWindowMessage(query) ==
    /\ ChatCall /\ port
    /\ LET answer == Message({}, settings)
           acknowledged == Append(portQueue, answer)
       IN  portQueue' = IF query THEN Append(acknowledged, answer) ELSE acknowledged
    /\ UNCHANGED <<hostVars, linkVars, shownVars, seen, openings>>

PageReads ==
    /\ portQueue # <<>>
    /\ LET m == Head(portQueue)
       IN  seen' = [f \in Fields |-> IF f \in m.fields THEN m.values[f] ELSE seen[f]]
    /\ portQueue' = Tail(portQueue)
    /\ UNCHANGED <<hostVars, linkVars, shownVars, openings, chatCalls>>

ChatNext ==
    \/ \E on \in BOOLEAN : Subscribe(on)
    \/ \E cs \in SUBSET ChatContainers : SelectContainers(cs)
    \/ \E i \in Instructions : SetInstruction(i)
    \/ \E l \in Looks : SetLook(l)
    \/ \E i \in Instructions \cup {Undefined}, l \in Looks \cup {settings["look"]} : OpenChat(i, l)
    \/ \E query \in BOOLEAN : OnChatWindowMessage(query)
    \/ OpenChatAgain \/ SetPrompt \/ TokenCame \/ OpeningFails
    \/ PageLoads \/ Heartbeat \/ OnWindowMessage \/ PageReads

ChatSpec == ChatInit /\ [][ChatNext]_chatVars
-----------------------------------------------------------------------------
Settings == [Fields -> {Undefined} \cup Instructions \cup Looks \cup SUBSET ChatContainers]
Messages == [fields : SUBSET Fields, values : Settings]

ChatTypeOK ==
    /\ selectedContainers \subseteq ChatContainers /\ subscribed \in BOOLEAN
    /\ settings \in Settings /\ seen \in Settings
    /\ forms \in 0..MaxForms /\ beats \subseteq 1..forms /\ heartbeatInterval = forms
    /\ loaded \in BOOLEAN /\ introduced \in BOOLEAN
    /\ port \in BOOLEAN /\ portSent \in BOOLEAN /\ listening \in BOOLEAN
    /\ openings \in Nat /\ chatCalls \in 0..MaxChatCalls
    /\ portQueue \in Seq(Messages)
    /\ heard \in BOOLEAN /\ unsent \subseteq {"instruction", "look"}

(* When the page that is in the frame has read all its messages, it has    *)
(* the settings of the API, but for those that openChat or a setter of the *)
(* look changed after it was configured; and its data sources are those of *)
(* the selected containers, if the API listened when they were selected    *)
(* (ChatEmbeddedAPI.ts:131-145, 212-321; ChatController.ts:45-48).         *)
SettingsShown ==
    port /\ portQueue = <<>> =>
        /\ \A f \in Fields \ unsent : seen[f] = settings[f]
        /\ heard => seen["dataSources"] = DataSources(selectedContainers)

(* A chat that was opened and is not connected will be, by the last        *)
(* heartbeat, which still runs, or by the port that is under way to the    *)
(* listener.  Once it is connected, the heartbeats that go on, for ever,   *)
(* are those of the openings that others overtook while the frame was      *)
(* blank (ChatEmbeddedAPI.ts:131-145, 249-275).                            *)
PageIsReached ==
    forms > 0 =>
        IF port THEN ~listening /\ beats = 1..(forms - 1)
        ELSE /\ listening /\ heartbeatInterval \in beats
             /\ introduced => portSent
=============================================================================
