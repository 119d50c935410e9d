# Yottagram in TLA+

Yottagram is a Telegram client for Sailfish OS, written in C++ and Qt on top of
TDLib.  These modules model the parts of it that keep state and whose
correctness depends on the order in which things happen: TDLib's answers and
updates, the user's actions on a page, timers, other threads, another process,
and the end of the program.  Everything under `Yottagram/vendor` is a library
and is modelled, where it matters, from the way `Yottagram/src` uses it
(*external* below).  Paths are relative to `src/Yottagram/src` unless they begin
with `qml`.

## The system

    QML pages ---calls---> Chat, ChatList, StickerSets, ... --sendQuery--> TelegramManager
        ^                         ^                                           |      ^
        | rows, roles, texts      | signals (one per type of answer/update)  |      | queued signal
        +-------------------------+-------------------------------------------+      |
                                                          ClientManager::send ->  TDLib  -> TelegramReceiver (thread)
    voicecall plugin (process) <--D-Bus--> DBusHelper <-> Calls <-> tgcalls (threads), PulseAudio
    screen of the system  <----- Notifications            Core, DataManager, QSettings <-> disk

One GUI thread runs all the classes.  `TelegramReceiver` is a thread that waits
for TDLib and emits each object as a queued signal, so answers and updates are
handled one at a time, in TDLib's order, and always late.  tgcalls calls back on
threads of its own.  The voicecall plugin is a process of its own.  The disk, the
stored settings, the server and the screen outlive the program.

### Inventory

| component | state | operations | what is hard | what makes it correct |
|---|---|---|---|---|
| Chat, messages (`chat.cpp`, `message.cpp`) | `_messages`, `_message_ids` (rows), `_lastMessageId`, `_getMessageCache` | history pages, fetch by id, scroll, clear, properties; handlers of new, sent, failed, deleted, evicted messages | answers that come late; ids that change when a message is sent; TDLib dropping objects | one row per message, no hole in the window, no row of a deleted message, blank rows filled in |
| Chat, unread mentions (`chat.cpp`, `chatlist.cpp`) | `_unreadMentionCount`, `_firstUnreadMention` | update of the count, search, its answer | a search that is overtaken by the updates | the page scrolls to a mention that is unread |
| ChatList, positions (`chatlist.cpp`, `chat.cpp`) | `_chats`, three kinds of id vectors, `_chats_ids`, positions in each Chat, refresh timer | create, update of positions by four handlers, switch list, start-up | the same fact in three copies (list, Chat, view); signals sent only for the selected list | the copies agree; the view is told of every row and of every change of order |
| Chat page (`qml/pages/Chat.qml`), `openChat`/`closeChat` | the stack of pages, `_isOpen`, the application's state | push, cover, pop, background, tap on a notification | a page is pushed before the one below is gone | the chat in front counts as open |
| Composer (`qml/pages/Chat.qml`, `chat.cpp`) | text field, message edited or replied to, `_draftMessage` | write, send, save, report, restore | the same draft in the field, in Chat and in TDLib, each late | nothing written is lost, and it is sent once, as what it was meant |
| TelegramManager, TelegramReceiver (`core/`) | `_messageId`, `_messages` (contexts), `_networkType` | `sendQuery`, `sendQueryWithResponse`, `sendQuerySync`, `messageReceived` | an unlocked counter used by two threads; answers in any order | one reply per query, to its caller |
| Calls, voicecall plugin (`calls.cpp`, `dbushelper.cpp`, `YottagramVoicecallPlugin/`) | `_state`, `_callId`, `_instance`; the handler on the screen | `updateCall`, `discard`, `answer`, `changeSpeakerMode`; `newCall`, `callReady`, `discardCall`, `hangup` | D-Bus messages without a call id, crossing | the screen shows the call that is on; hanging up ends it; audio ends with it |
| Files, File (`files/`) | `files_`, the state of each file | `updateFile`, `appendFile`, download, cancel | signals emitted between two assignments; copies of a file in every object that holds it | what the program knows of a file is what TDLib has |
| Message text, CustomEmojis (`message.cpp`, `customemojis.cpp`, `textentityprocessor.cpp`) | the formatted text, its connections and timer; `_customEmojis` | format, ask for emojis, answers, file updates, new id | three things that come one by one, and signals connected and disconnected in between | an emoji in a text becomes an image |
| AutoDownloadSettings (`components/autodownloadsettings.cpp`) | settings per type of connection, their copy in QSettings | load, set, save, send | the end of the program between store and send | the server has what the user sees |
| PinnedMessages (`components/pinnedmessages.cpp`) | `_messages`, `_currentMessage` | paging, restart on update, bar | a restart while a page is under way; answers told apart by the chat alone | the user reaches every pinned message |
| Notifications (`notifications.cpp`) | `_notifications` | group updates | open chats, kinds that are not shown, a screen that outlives the program | the screen shows what TDLib has told |
| StickerSets, StickerSet, picker (`stickersets.cpp`, `stickerset.cpp`, `qml/components/StickerPicker.qml`) | ids, sets, predefined sets; rows, the row picked, the grid | installed, recent, favourite; open, pick, scroll | lists whose places do not agree; sets asked for when a row is read | rows and grid show the right set |
| Core, DataManager (`core.cpp`, `datamanager.cpp`) | `files_directory`, `new_files_directory` | two moves of the data at a start | a crash or a failed rename between two steps | the setting names the data |
| Authorization (`authorization.cpp`) | state | parameters, login, logout | little | TDLib is opened where the data is |
| Notification settings (`chat.cpp`, `components/scopenotificationsettings.cpp`, two pages) | the last object TDLib sent, of the chat and of its scope; the switches | change one field and send all; report | a binding that writes what it reads; a default that is old | a choice is not lost, and the switch comes to rest |
| ChatListTopics, ChatListFolders | topics, folders | updates, answers | two kinds of topic id | one entry per topic |
| ProxyModel, Users, Contacts, group information, message contents, link previews, AudioRecorder, image plugins, `emoji.h` | last object TDLib sent, or none | getters, formatting, I/O, data | little | - |

`PROJECT.json` lists the components with their status, and the hazards at their
lines, with the properties that cover them.

## Modules

| module | models | used by |
|---|---|---|
| `Updates` | the FIFO from TDLib to the GUI thread: `Post`, `Received` | most modules below |
| `Acts`, `Requests` | acts of users, counted; the FIFO from the GUI thread to TDLib | `StickerSets`, `Composer`, `NotificationSettings` |
| `ChatTimeline` | class Chat's messages and rows, with TDLib and the page | `MCChatTimeline` |
| `ChatPositions` | class ChatList's lists, Chat's positions, the view | `MCChatPositions` |
| `RequestReply` | what TelegramManager promises: one reply per query | refined by `RequestTable` (`INSTANCE RequestReply WITH`) |
| `RequestTable` | request ids, contexts, threads, answers | `MCRequestTable` |
| `Calls` | class Calls, the plugin, D-Bus and TDLib's calls | `MCCalls` |
| `Files` | classes Files and File, TDLib's files, downloads | `EmojiText`, `Session` |
| `EmojiText` | text of messages, CustomEmojis, the emoji picker; composes `Files` | `MCEmojiText` |
| `DataDirectory` | the moves of the data at a start | `Session` |
| `DownloadSettings` | the settings of automatic downloads, the network type | `Session` |
| `Session` | the program from start to start; composes `DataDirectory`, `DownloadSettings`, `Files` | `MCSession` |
| `Searches` | `searchChatMessages` (external) | `PinnedMessages`, `UnreadMentions` |
| `PinnedMessages` | class PinnedMessages and the bar | `ChatPage` |
| `UnreadMentions` | the unread mentions of a chat | `ChatPage` |
| `Notifications` | class Notifications and the screen | `ChatPage` |
| `ChatPage` | the life of a chat's page and of the program; composes the three above | `MCChatPage` |
| `StickerSets` | class StickerSets and the picker of stickers | `MCStickerSets` |
| `Composer` | text field, edits, replies and drafts | `MCComposer` |
| `NotificationSettings` | the settings of a chat and its scope, and their switches | `MCNotificationSettings` |

Proofs are in `ChatTimelineProofs`, `ChatPositionsProofs`, `RequestTableProofs`,
`CallsProofs`, `EmojiTextProofs`, `SessionProofs`, `ChatPageProofs` and `GuiProofs`,
which has those of `StickerSets`, `Composer` and `NotificationSettings`.  The last
two name their specifications `ComposerSpec` and `SettingsSpec`, so that one
module can extend all three; each theorem is about one of them.

A module has the variables of the classes first (each comment names the member),
then what is between them and TDLib, then what is external, then *history
variables*, which no action reads and only properties do (`evicted`, `torn`,
`overlapped`, `disturbed`, `missed`, ...).  There is one action per handler or
operation, with the name of the method.  An operator whose comment says *Mutant
of* is a wrong version of the definition that follows it; no specification uses
it.  It stands there to show that the property it names in `PROJECT.json` tells
the two apart.

### ChatTimeline

TDLib keeps the messages of one chat (`server`, `unsent`) and posts events to a
FIFO; the page asks for history, for messages by id and for properties; the
handlers of `chat.cpp` take the head of the FIFO.  A message that is being sent
has a temporary id and gets a larger one when it is sent or has failed
(`Message::updateMessageSendSucceeded`, `Chat::onMessageIdChanged`; failures
are not handled by the code, and neither in the model).  `updateDeleteMessages`
with `from_cache` is TDLib dropping an object from its memory: class Chat drops
its own, keeps the row, and `data()` fetches the message when the row is read.

The rows are a bag of ids, since the page sorts them (`chatProxyModel` in
`qml/pages/Chat.qml`).  The content of a message and topics are left out;
mentions, pinned messages and drafts have modules of their own.

What is claimed, and what is excepted, says how the code behaves:

* `NoDuplicateRows`: excepted are messages TDLib has dropped from memory, which
  the next page gives a second row (`newMessage` asks `_messages`, not the rows).
* `RowsAreLive`: excepted are messages whose sending failed, which keep their
  temporary row, and dropped ones.
* `BlankRowsAreFetched`: excepted are fetches that failed; the code never asks again.
* `HolesAreExplained`: the rows are a window of the chat.  Excepted (`torn`): a second
  window is opened, or a page comes that was asked for when the rows were others,
  while there are rows already or a page that extends them is on its way; and a
  message is sent past others that have no row.  The case in which all rows were
  deleted while a page that extends them was on its way was found by the proof.
* `LastMessageAgrees`, `FollowsNewMessages`, `RowShowsItsMessage`, `PropertiesFindMessage`.

### ChatPositions

`SetChatPositions` is the loop that three handlers run over the positions of an
update, and one over a single position; `UpdateChat` starts the timer or tells
the view; `TimerFires` makes the view read the orders.  `view` is what the view
has been told and has read: the order of each row, read at the moment the model
announces the row, which is before the position is stored (`chatlist.cpp:401`).
`Null` is the position of a folder the chat has left: the key of
`_folderPositions` stays and its pointer is null.  `crashed` is set when
`Chat::getOrder` dereferences it; `CrashNeedsLeftFolder` shows that this is the
one way to get there, and the model stops there.  A new chat reports its
positions by updates only: `Chat::initialize` drops the ones it comes with.

### RequestTable and RequestReply

`sendQuery` is split into the steps another thread can come between: load and
store of `_messageId++`, the entry in `_messages`, and `ClientManager::send`.
The GUI thread handles an answer only between its own sends.  `overlapped`
records that two threads have been inside `sendQuery` together.  `RequestReply`
promises that each query is reported once, to its caller, in the end, and that
the promise may be broken once sends have overlapped, for then ids may collide
(`void`, which the refinement mapping takes from `overlapped`).  `RequestTable`
implements it (`Implements`), and `TableMatchesRequests` says the same of the
table.  `NobodyIsToldTwice`, and as theorems `OneReplyEach` and
`AnswersAreKnown`, hold after an overlap too.  The queries of the tgcalls thread stand for
`sendCallSignalingData`.

### Calls

TDLib's calls, class Calls and the plugin, joined by three bounded queues:
TDLib's updates, D-Bus calls to the plugin, D-Bus signals back.  D-Bus messages
carry no id: `id` in a message to the plugin and `meant` in a request record
which call was meant, for the properties only.  `_callId` starts as any number.
Calls that begin before the last one is over everywhere set `disturbed`; the
properties of the screen and of the hang-up are stated for `Orderly` behaviours,
because for calls that meet the code does not keep them (a refused second call
removes the first from the screen, `calls.cpp:85`, and its end stops the first
one's audio).  `EndedCallLeavesNothing` holds for all behaviours.

### Files and EmojiText

`Files` has TDLib's files (present, partial, being downloaded) and the copies that
objects carry through the FIFO.  `updateFile` is one action that keeps the order
of the code: the file's signals are emitted, and `considerAutoDownloading` runs,
at the place where the code emits them (`files/file.cpp:98`), so what a slot
reads there is old or new as it is in the code.  `appendFile` skips files that
are known.  Sizes are abstracted to whether there is something on the disk.

In `EmojiText` a message formats its text: for each custom emoji it shows the
image if CustomEmojis has the sticker and Files has the thumbnail's path; else it
asks for the sticker, or connects to the sticker's file and starts a single-shot
timer when that file is said to be there.  An emoji waits for three things, and
the message listens to the sticker while it shows the thumbnail.  The picker and
other messages ask for the same emojis.

* `FilesAgree`: once the FIFO is empty, what the program knows of each file is
  what TDLib has.
* `EmojisAreCurrentOrAwaited`: an emoji in a text is the present image or the text
  will be formatted again.  Excepted (`missed`): another message or the picker
  brought the emoji, and the answer to the own query is skipped
  (`customemojis.cpp:53`); the message was sent meanwhile and the answer names its
  old id (`chat.cpp:2375`); the thumbnail's path changes after the sticker's, to
  which the message listens (`message.cpp:806`); a query that failed.
* `EmojisAppear`: the same as liveness.

### DataDirectory, DownloadSettings and Session

`DataDirectory` has what each path holds and the two settings.
`moveDataIfUnset` and `moveDataIfNeeded` are split at the rename and at the
moment QSettings is written, and the program may end between them.
`DownloadSettings` has the objects, their copy in QSettings, the queries on their
way and the server's settings.  `Session` runs them from one start to the next,
with the login, photos that are downloaded within the settings (`Files`), another
program that makes directories in the way, and crashes.

* `SettingNamesTheData`: excepted are a start cut off between the rename and the
  setting (`core.cpp:161`) and a rename of the old default that failed
  (`core.cpp:139`, whose result is ignored).
* `SettingsAreInForce`: as the code has it: every type of network is served by the
  object of wifi (`core.cpp:57-60`), and roaming and cellular are swapped on their
  way to TDLib (`core/telegrammanager.cpp:340`).
* `MovesAreSettled`: an ordered move is carried out or given up.

### ChatPage, PinnedMessages, UnreadMentions, Notifications

`Searches` is what `searchChatMessages` does: what a search finds is settled some
time before its answer is emitted, so searches overtake each other and the
updates.  `PinnedMessages` pages through them and starts anew whenever a message
is pinned or unpinned; answers are told apart by the chat alone, so those of an
earlier paging, or of the object of an earlier page, join the new one.
`Notifications` shows the groups of a chat that is not open.  `ChatPage` composes
the three with the page: pushed and popped with an animation, covered, in the
background, opened a second time by a tap on a notification; and with the end of
the program, after which the screen still has what was put there.  A notification
whose text has a custom emoji ends the program (`message.cpp:803`, CustomEmojis
is null in the Message that `Notifications` makes): `CrashOnNotification`.

* `PinsAreReachable`: no pinned message is missing from the list and the bar is
  there.  Excepted for the bar are a list that was fetched anew since the last tap
  (`_currentMessage` is kept and may be past the end, and the bar is hidden) and a
  bar that the user has closed: its close button assigns to the Loader's `active`
  (`qml/pages/Chat.qml:419-421`), which is no longer bound to `id()` then, so on that
  page the bar stays away for messages that are pinned later too.
* `ListIsExact`: newest first and each once; excepted are deleted messages and a
  paging begun while answers of an earlier one were on their way.
* `MentionsAgree`: the first unread mention is the newest of them; excepted are a
  refused search and an answer found before the last mention was read and
  emitted after (`chat.cpp:2207`).
* `ScreenAgrees`: the screen has what TDLib has told; excepted are kinds that are
  not shown, what came while the chat was open, and what an earlier run of the
  program left there (`notifications.cpp:67` is not connected).
* `NobodyInFrontIsTold`: a user who has the chat in front is not told of its
  messages.  The converse fails: a chat behind another page counts as open when
  the application comes back (`qml/pages/Chat.qml:157`).

### StickerSets

TDLib's installed sets, what was asked for, the two lists of the class (the ids
installed, and the sets that have come), the predefined sets in front of them, and
the picker: which rows are read and which set the grid below shows.

* `RowsShowTheirSets`: a row shows its set as soon as it has come; excepted are
  rows that are not the place of the set in `_stickerSetIds`, which is what
  `dataChanged` names (`stickersets.cpp:238`).
  What is installed at the start is a constant (`AtFirst`): no set differs from
  another, so the run needs one list of each length.
* `GridStaysPut`: the stickers are exchanged only by the user, except when
  another set moves into the row picked (`qml/components/StickerPicker.qml:48`).
* `PickedSetAppears`: the set that was picked appears, unless it is refused or the
  rows change.

### Composer

The text field of the page, the draft of Chat and the one of TDLib, the requests
and reports between them, edits and replies, pages that cover each other, and
another device.  Words are numbered by the act that wrote them.  The page puts
Chat's draft into the field at every `draftMessageChanged`, which Chat emits for a
report, and without one for the emojis of a message that it does not have, the draft
included (`chat.cpp:2378`), and for the file of an emoji (`chat.cpp:2408`):
`OnCustomEmojiUpdated` and `OnDraftMessageEmojisChanged`.  These two may happen at
any time, because messages and emojis are not in this module.

* `DraftsAgree`: once all is handled the copies agree; excepted is a message sent
  from a field without the focus, for which nothing removes the draft
  (`qml/pages/Chat.qml:1193`).
* `NothingIsLost`: what was written is in the field or on its way to TDLib until it
  is sent or dropped; excepted are words in whose place the field was given an older
  draft, before they were saved or before Chat had them, by a report or a new page
  (`qml/pages/Chat.qml:83`, `qml/pages/Chat.qml:133`) or by emojis that came
  (`chat.cpp:2378`, `chat.cpp:2408`), and an edit of a message that is gone
  (`chat.cpp:1665`).
* `WordsGoWhereMeant`: what is sent is sent once, and as the edit or the message it
  was meant to be; the exceptions (a reply chosen during an edit, which keeps the
  edit's words, `qml/components/MessageContextMenu.qml:70`; drafts of an edit, and
  drafts that come into an edit) are named at the definition.

### NotificationSettings

The settings of a chat as TDLib and Chat have them, each its own value or the
default of the scope; the queries that carry all of them; and, on two pages
(`qml/components/chatInfo/UserInfo.qml`, `qml/components/ChatNotifications.qml`),
switches that follow the chat by a binding until the user taps them.  A switch
writes whenever it changes: when its page is opened, and when a report moves it.
A setter stores "default" when the new value is that of the scope, as far as the
chat knows it.  Two settings stand for four, and the scope is known from the
start (before that `_scopeNotificationSettings` is null, and dereferenced).  No
signal of the chat tells of a new scope, so a bound switch keeps what it showed.
What the chat has at first is bounded in the run by the constant `Stored`.

* `ChoicesStay`: when nothing is under way TDLib has what was chosen last.
  Excepted (`excused`): muting for an hour from a switch that is bound and on, which
  writes "muted for ever" when the report turns it off; a choice that meets a
  query on its way, which repeats what the chat knew of the other settings; one
  that meets a change of the scope, with which it was compared; and, with a bound
  switch, any change that meets another.  Changes of the scope make anything right.
  Two of these came out of the proof: a choice made while the scope is changed and
  changed back (what is known and what TDLib has agree, and the reports between do
  not), and a change of the scope that meets a report which a bound switch answers.
* `SwitchSettles`: TDLib's reports and the switches' writes come to an end.
  Excepted (`crossed`): two changes meet while a switch is bound; then two
  reports that disagree are answered in turn, and need never end.

## Runs

| run | instance | shows | distinct states, time |
|---|---|---|---|
| `timeline_memory` | 2 ids, 2 events in flight, 1 request, all request types, 2 evictions | rows, blank rows and properties with messages dropped from memory | 3.8 M, 118 s |
| `timeline_paging` | 3 ids, 2 events, 1 history request, no eviction | rows against new, sent, failed and deleted messages | 2.1 M, 109 s |
| `positions` | 1 chat, 1 folder, orders 0..2, 1 event, 4 changes | lists, Chat and view agree; the null pointer; the view catches up | 446 k, 120 s |
| `requests` | 3 queries, one of an unhandled type, 2 threads | refinement of `RequestReply` with liveness, and what survives the race | 357 k, 35 s |
| `request_id_zero` | as `requests`, with 1 thread | a violation, see Findings | - |
| `calls` | 2 calls, queues of 1, 2 acts of the user | screen, audio, requests, and hanging up ends a call | 1.1 M, 164 s |
| `emoji_text` | 1 emoji, 2 messages, 2 files, queue of 2, 2 queries, 1 incident | files agree; emojis are shown or awaited; liveness | 561 k, 159 s |
| `session` | 3 paths, 1 photo, 2 types, queue of 1, 3 acts, 1 incident | data directory, settings, and moves, over several starts | 796 k, 39 s |
| `chat_page` | 2 messages, 3 notifications of which 1 fits, 2 searches, queue of 2, 3 acts | pinned messages, mentions, screen, and the page in front | 4.3 M, 70 s |
| `sticker_sets` | 3 sets, queue of 1, 2 acts | rows and grid of the picker; liveness | 390 k, 56 s |
| `composer` | 2 acts, 2 requests, 1 report | drafts agree, nothing is lost, words go where meant | 2.4 M, 26 s |
| `notification_settings` | 2 settings, 2 requests, queue of 2, 3 acts | choices stay; switches and TDLib stop answering each other | 2.4 M, 135 s |

Why these bounds are enough for the interesting cases.  A duplicate row, a hole
or a late answer needs two messages, one event in flight and one request; three
ids give a message being sent that is overtaken by another, which needs a
temporary id, an overtaking id and a final id.  The copies of a position disagree
over one chat and two lists, and the handlers of two chats touch no common state
but the set of rows, so the run of positions has one chat and spends its states
on three orders, a folder and four changes.  (The same properties hold for two
chats with one order and three changes, and for two chats with two orders and two
changes.)  A lost context needs two queries in flight and one more to show
that the table recovers.  Calls that meet are two; a queue of one message in each
direction lets every pair of messages cross.  An emoji is missed between two
messages that ask for it; each of its two files can be lost once.  A
move of the data involves the old default, the new one and one other path, and a
crash can come in each of several starts.  A paging that joins an earlier
one needs two pages of one message and one restart; a notification group of
capacity one has one shown and two waiting.  Three sets let one move into the
place another has in the other list.  Two acts of writing are what a draft and
the words that replace it are; two requests and one report can cross.  Of
settings sent whole, one is changed and one comes along; two reports make a
switch answer twice, and a third change meets what two have left.  All bounds
are CONSTANTS, named in the modules' headers.  Deadlock is not checked where
bounds make the system stop (all messages sent, all calls over, all acts spent).

### Fairness

* `ChatPositions`: the single-shot timer fires (`WF(TimerFires)`).  A stream of
  updates that restarts the timer before it fires is bounded by `MaxChanges`.
* `RequestTable`: a thread finishes its `sendQuery`, TDLib answers every request
  it has accepted, the GUI thread handles every queued signal.
* `Calls`: queues are emptied (GUI thread and plugin run event loops), TDLib
  handles requests and ends a call it is hanging up.  Nothing is assumed of the
  user, of the other side, or of new calls.
* `EmojiText`: the event loop handles what is queued, single-shot timers fire,
  TDLib answers and handles requests, and a download comes to an end, well or not.
* `Session`: a start that has begun goes on, and the user starts the program
  again.  Crashes are acts, so `MaxActs` bounds them.
* `StickerSets`: the event loop handles what is queued, and TDLib answers.  An
  answer may be a refusal, which is an exception of the property.
* `NotificationSettings`: TDLib handles queries, the event loop handles reports.
* `ChatTimeline`, `ChatPage` and `Composer` state no fairness: the code never
  repeats a request, so what they claim is safety, of states in which everything
  has been handled, and of steps.

## Proofs

The theorems hold for every value of the constants that the named assumptions
allow: any number of messages, chats, queries, threads, calls, files, paths,
notifications, and any bounds.

* `ChatTimelineProofs` (from `BoundsAssumption`): `TypeCorrect`, and for each property
  an invariant that rests on those before it:
  * `RowsInv`: rows are unique, every row is a cached message or one that TDLib
    dropped, ids in use are below the next id, every event in the FIFO is sound, and
    a `sendSucceeded` event's id is in no event before it.  The last is why a page
    cannot bring the final id of a message before the row has been renamed.
    `RowsAreUnique` follows.
  * `ObjectsInv`: an object that says another id than the one it is stored under has
    no row, and no event names that id any more (`RowsShowTheirMessages`).
  * `LiveInv`: a row, or an id an event will give a row, is of the chat or is taken
    away by an event behind it (`NoRowOfTheDead`).
  * `FetchInv`, `KnownInv`: what has been asked for is under way or failed; while
    nothing is dropped from memory, an answer with properties finds its message
    (`BlankRowsAreOnTheirWay`, `PropertiesAreSafe`).
  * `LastInv`: when a new message is handled, the chat's last message is the one it
    comes after (`LastMessageIsRight`, `PageFollows`).
  * `OrderInv`, `WindowInv`: an event that announces an id comes before any that
    carries a larger one, pages have no holes, and no message is missing between the
    rows and the places where pages under way will extend them (`RowsAreAWindow`).
* `RequestTableProofs` (from `ThreadsAssumption`, `NoQueryAssumption`,
  `SilentAssumption`): `IndInv` is `TypeOK /\ Numbered /\ Placed /\ Matched`.
  `Numbered` (the counter never returns to the ids of updates) and `Placed` (a
  query is in one place) do not need the sends to be apart; `Matched` does.
  `OwnReplies`, `TableIsExact`, `OneReplyEach` and `AnswersAreKnown` are their
  consequences; `TableImplements` is the safety part of the refinement, for any
  number of threads: initial states map to initial states, steps to steps or
  stutters, and a step that may break the promise has an overlap before it.
* `ChatPositionsProofs` (from `ListsAssumption` and `BoundsAssumption`):
  `ListsInvariant` proves `TypeOK /\ ListsInv` inductive.  `ListsInv` adds
  `AnnouncedFirst` to `ListsMatchPositions`: a chat is announced by one event,
  which comes before every other event about it.  Without it a position could come
  for a chat that has no Chat object, or a second announcement could replace an
  object and lose its positions.  It rests on TDLib announcing each chat once and
  first (external), and on `onCreatedPrivateChat` leaving a known chat alone.
  `ListsAgree` and `TypeCorrect` follow.  `CrashIsExplained`: only the position of
  a folder can be null (`NullInFolders`).  `ViewIsTold`: each handler tells the view
  of the rows it adds and removes, from `ListsInvariant`.  `PositionsFollowTdlib`
  needs the invariant `LastWord`: the last update that mentions a list says what
  the server has, or, when no update mentions it, the Chat object has it.
* `CallsProofs` (from `BoundsAssumption`): `TypeCorrect`, and `EndedLeavesNothing`,
  which is inductive by itself and holds with no assumption on how calls meet: only
  `Ready` starts audio, only `DiscardedOrError` enters an ended state, and it stops
  both; `changeSpeakerMode` looks at the state.  `OneCallAtATime` proves
  `OrderlyInv`: while calls do not meet there has been none, or there is a last one,
  which every report, D-Bus message and request is about, and which class Calls and
  the plugin either have not heard of (and are at rest) or both have.  It is needed
  because D-Bus messages carry no id: what is meant can only follow from there being
  one call.  `ScreenIsRight`, `ActsMeanTheCall` and `HandlersAreKept` are its
  consequences.
* `EmojiTextProofs` (`MessagesAreTold` from `EmojiFilesAssumption`):
  `FilesFollowTdlib`, from `FilesInv`, which has `Shapes` (what the FIFO can hold),
  `FilesHold` (a known file is what TDLib has, or an `updateFile` that says so is
  queued) and `CopiesHold` (behind every object with an old copy there is an
  `updateFile` of the change).  The last is needed because `appendFile` takes a file
  from any object that comes by.  `MessagesAreTold` adds `EmojisKnown`: both files of
  an emoji that is known are known, and a message listens only to known emojis, so
  that `updateFile` tells every change of their paths.
* `SessionProofs`: `DataInvariant` (from `PathsAssumption`) says at each step of a
  start where the data may be, which is what a crash at that step leaves to the
  next start; `DataIsFound` follows.  `SettingsReachTdlib` (from
  `TypesAssumption`), by `SettingsInv`: of the network and of each type of
  connection the last query on its way says what the program wants, and where no
  query is left TDLib has it (`NetworkIsTold`, `SettingsAreTold`).
* `ChatPageProofs`: `ScreenIsWhatWasTold` from `ScreenInv`: no queued group update adds
  and removes one notification (`Sound`), the last one that names a notification
  agrees with what TDLib has told (`LastWord`), one that no queued update names is
  on the screen as it should be (`Settled`), and what is shown, missed and left over
  fit together (`Books`).  `NobodyIsTold` from `FrontIsOpen`: the page in front has a
  chat that counts as open.  From `MessageAssumption`: `PinsStayReachable`, by
  `PinsInv` (every pinned message is in the list, or a queued event or a search
  leads there, and the current message is in a list not fetched anew); `ListStaysExact`, by `ExactInv` (one search or answer at a time, and
  what it finds goes on where the list ends); `MentionsStayRight`, by `MentionInv`
  (a search that is still right is under way, or the last event that tells of
  mentions leaves the chat right, or the chat is right) with `CountInv` and
  `StartInv`.
* `GuiProofs`, one part for each component.
  * `StickerSets` (from `SetAssumption`): `PickerInvariant`, which adds to
    `RowsShowTheirSets` that all that is installed has a place in `_stickerSetIds`
    (`SetsInv`), so a set that comes keeps the places of others, and that the grid
    shows the row picked (`GridInv`).  `RowsAreShown`, `GridIsLeftAlone`.
  * `Composer`: all three theorems are about `Newest`, what TDLib's draft is going to
    be: the last draft on its way, or TDLib's.  `DraftsComeTogether` by `FieldInv` (the
    saved field has it, or a report will fill the field), `WordsAreKept` by `KeptInv`
    (it is what the user wrote, unless replaced), `WordsAreSentAsMeant` by `MeantInv`
    (it is nothing that was sent).
  * `NotificationSettings`: `ChoicesAreKept` by `FinalInv`, the settings that TDLib is
    going to have are right for each choice, and `FollowInv`: while a switch follows
    the chat it answers every report, so not the last but all that is under way must
    be right, of the scope too.

Every invariant and every action property that a run checks is a theorem.  Only
model-checked is liveness (`ViewCatchesUp`, `HangupEndsTheCall`, `EmojisAppear`,
`MovesAreSettled`, `PickedSetAppears`, `SwitchSettles`, the liveness part of
`Implements`), which is out of the prover's reach.  `RequestIdIsNonZero` is violated.

## Findings

`request_id_zero`: the first request of the program has the id 0
(`core/telegramreceiver.cpp:31`), and `Client.h:84` says *"Request identifier.
Must be non-zero."*  The request (`setLogVerbosityLevel`) is lost.  (TelegramManager's
own ids begin at 2: `_messageId` starts at 1 and is incremented before its use.)

Other behaviour met while modelling.  The properties name as exceptions what
touches them; nothing in the repository says otherwise of it.

* `chat.cpp:180`: the null position of a folder the chat has left.
* `chat.cpp:820`: `_unreadMentionCount` is compared before it is first written; the
  model lets it be anything.
* `chat.cpp:644`: `draftMessageReplyId` is 0 for every message, the test is the wrong
  way round, so a reply is saved with a draft and never restored.
* `message.cpp:803`, `notifications.cpp:67`: a notification with a custom emoji ends
  the program; notifications of an earlier run stay on the screen.
* `qml/pages/Chat.qml:419`: closing the bar of pinned messages ends the binding of its
  Loader, so the bar does not come back on that page, whatever is pinned.
* `chat.cpp:2378`, `chat.cpp:2408`: emojis that come, also those of a message that is
  no longer in memory, have the page put the stored draft into the text field, and
  what the user has typed since is gone with no report under way.
* `core.cpp:139`, `core.cpp:161`: the two exceptions of `SettingNamesTheData`.
* `core.cpp:57-60`, `core/telegrammanager.cpp:340`, `core/telegrammanager.cpp:287`:
  one object for all networks; roaming and cellular swapped; the answer with the
  presets has no case and reaches nobody.
* `stickerset.cpp:33`, `stickerset.cpp:131`: `_thumbnailIds` is never cleared when a
  set comes anew; a set is dereferenced that may be null.
* Second rows after an eviction, rows of failed messages, fetches that are never
  repeated, calls that meet.

## Plan

Done: message timeline, chat positions, request table, calls; files and emojis in
texts; the data directory, the settings and the session; the chat's page with
pinned messages, mentions and notifications; sticker sets; the composer; the
settings of notifications.

Next, in this order:

1. Topics: `ChatTimeline` with a second kind of history (`chat.cpp:1915`), and the
   lists of topics; needs an instance with one message, as the history doubles.
2. A module that composes `RequestTable` with a chat, so that the FIFO of
   `ChatTimeline` is an implementation of the request table.
3. Secret chats and the preview cache in `ChatPositions`.
4. Proofs of what comes with 1-3, and of action properties that say which steps may
   set the history variables that excuse something (`torn`, `joined`, `excused`).

## Not modelled

* `emoji.h` is a table of data of twenty thousand lines, more than half of the
  lines of the program: it has no behaviour to model.
* Getters and formatting: message contents (`contents/`), link previews, the other
  text entities, users, contacts and group information keep the last object TDLib
  sent and return its fields.
* Codecs and I/O: `ffmpegioplugin`, `tgsioplugin`, `audiorecorder.cpp`.
* `ProxyModel`'s list is TDLib's last answer, and what can go wrong in its dialog
  depends on when the QML engine destroys a delegate, which is not in this source.
* The callbacks of tgcalls: the moments at which they run are not in this source
  (hazard at `calls.cpp:162`).
* Topics: see Plan.
* Within the modules: sizes and progress of downloads, limits of an object of
  settings, the presets, wording and layout, attachments.
