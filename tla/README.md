# Open Meet in TLA+

TLA+ models of the server of [Open Meet](../src/README.md) and of the pages that
speak its protocols, the TLC runs that check them on small instances and the
proofs, checked by TLAPS, of the properties that matter most for instances of
any size.

Open Meet is a NestJS API (`apps/server`) with a web and an admin client. The
API keeps its rows in PostgreSQL, its sessions and presence in Redis, its media
in LiveKit, and pushes events to browsers through two Socket.IO namespaces
(`/meeting`, `/chat`) that span every API process by a Redis adapter. What is
hard about it is the time between two awaits: handlers decide from what they
read and write after other handlers, timers, webhooks and processes have moved.
That is what the models are about.

- [1. Inventory](#1-inventory)
- [2. How code becomes actions](#2-how-code-becomes-actions)
- [3. The modules](#3-the-modules)
- [4. What TLC checks](#4-what-tlc-checks)
- [5. What is proved](#5-what-is-proved)
- [6. What the code does not keep](#6-what-the-code-does-not-keep)
- [7. What is not modelled](#7-what-is-not-modelled)
- [8. Plan](#8-plan)

Paths below are relative to `src/apps/server/src/` unless they begin with
`apps/`, which is under `src/`.
`PROJECT.json` names, for every definition that stands for code, the lines it
stands for, and lists the hazards each property was written for.

## 1. Inventory

| component | state it keeps | operations | talks to | modelled in |
|---|---|---|---|---|
| **Meeting lifecycle** `modules/client/meetings` | the meeting row (`status`, `startedAt`, `endedAt`), participant rows, one `setTimeout` per meeting *in each process* | create, join, guest session, leave, end, rename; `enforceMeetingDurationLimit` | LiveKit (asks for the limit before a token; reports `room_finished`), the workspace configuration (`maxMeetingMinutes`), the gateway (`MEETING_ENDED`) | `Meeting`, `MeetingLifecycle` |
| **Console over meetings** `modules/admin/meetings` | none of its own: it writes the rows of meetings and participants | end a meeting or all active ones, put a participant out, delete a meeting | LiveKit (closes the room, removes the participant, as best it can); nobody is told | `Meeting`, `Attendance`, `Recording` |
| **Scheduling and recurrence** (in `meetings.service.ts`) | one meeting row per occurrence | expand a rule, create a series, invite | mail | `Series` |
| **Meeting gateway** `modules/client/chat/gateways/chat.gateway.ts` | `pendingKnocks`, a map *in each process*; the rooms `<code>` and `host:<code>`, on all of them | join, leave, knock, cancel, respond, disconnect; relays of chat, reactions and hands | the pages of guests (`waiting-room.tsx`), hosts (`knock-notifier.tsx`) and meetings (`meeting-shell.tsx`), meetings | `Knock`, `Attendance` |
| **Web meeting page** `apps/web/features/web/meeting` | per tab: the session that outlives the page (`active-meeting-store.ts`), the socket, the room of the media server | enter, announce, re-announce on a rendering, minimize, leave, be put out, be told of the end | the gateway, the REST API, LiveKit | `Attendance` |
| **Recording** `modules/client/recording` | recording rows; the egress jobs live in LiveKit | start, stop, list, stream; `egress_ended` webhook | LiveKit, meetings, the gateway | `Recording` |
| **LiveKit integration** `integrations/livekit` | none | mint a token, receive webhooks | meetings, recording | in those |
| **Sessions** `modules/client/auth`, `modules/admin/users` | hashed refresh tokens in Redis, users, invitations | sign in (password, Google), refresh with rotation, logout, change the password, invite, accept | presence | `Sessions` |
| **Pictures** `modules/client/auth/services/avatars.service.ts` and three more | a key in a row, a file in the storage | upload, remove, of users, administrators, groups and the workspace | the storage | `StoredFiles` |
| **Role grants** `modules/admin/rbac` | role rows with a revision, a cache *in each process* | guard a request, update or remove a role, seed | every route of the console | `RoleGrants` |
| **Administrators** `modules/admin/accounts` | accounts, their roles, invitations | create, invite, accept, assign, delete, boot | roles | `Administrators` |
| **Groups and roles** `modules/client/messaging/services/groups.service.ts`, `modules/admin/groups` | conversation (`ownerUserId`, `status`), memberships with OWNER / ADMIN / MEMBER | create, add, remove, leave, promote, demote, transfer, delete; the console adds, removes and deletes | the chat bus | `Groups` |
| **Conversations** `conversations.service.ts`, `read-state.service.ts` | per member: removed, hidden, cleared, read | open, hide, clear, remove, mark read, come back on activity | messages | `ReadMarks` |
| **Messages** `messages.service.ts`, `reactions.service.ts`; `apps/web/features/web/chat` | message and reaction rows; the page's cached messages | send, edit, delete, react, list; optimistic entry, event, answer, refetch | the chat bus, the pages | `Thread` |
| **Presence and `/chat` gateway** `conversation.gateway.ts`, `presence.service.ts` | counters in Redis, the rooms `user:<id>` and `conversation:<id>` | connect, disconnect, list, join, snapshot, disconnect on logout | every client | `Presence` |
| **Polls** `polls.service.ts` | poll, options, votes | create, vote | conversations | `Polls` |
| **Attachments, push, mail, in-meeting chat, settings** | uploads and queues, single rows | best-effort sends, single-row updates | - | - |

What is hard in each, and what makes it correct:

* **Meeting lifecycle.** *Hard:* joins write from an old snapshot; two first
  joins race; every process has its own timer and clears only its own; the
  limit changes while timers are armed; a process dies with its timers; host,
  webhook, timers and an administrator end the same meeting at once, and the
  administrator clears no timer and tells nobody. *Correct when* the row tells
  one story, only those entitled end the meeting, an active meeting with a limit
  always has somebody who will end it, a timer never outlasts the limit, nobody
  is let in past the limit, and an ended meeting stays over.
* **Scheduling.** *Hard:* months of different lengths, leap years, a count that
  includes the first meeting; one occurrence of several that fails, codes that
  collide. *Correct when* what is made is a beginning of the series the rule
  asks for, all of it when the answer is given, and nobody is invited before.
* **Waiting room.** *Hard:* a count over all processes is awaited between a
  knock's arrival and its parking; hosts come, go and come back while knocks
  move; guests have several tabs; a disconnection is a handler with awaits of
  its own; a page that connects again shows that it waits and does not knock
  again; the map is local though the rooms are not. *Correct when* no guest
  waits for nothing, every host page shows every knock, only the host lets a
  guest in, and an answer reaches whoever waits.
* **Attendance.** *Hard:* five ways of coming and going (REST join and leave,
  `MEETING_JOIN`, `MEETING_LEAVE`, the disconnection) write one row that is kept
  per user, not per tab, and none waits for another; a rendering sends a leave
  and a join; a socket connects again by itself; the meeting ends meanwhile, or
  an administrator marks the user as left; a joining is recorded before the token
  is asked for.
  *Correct when* who is in is present and in the room, who has left is marked
  so, and the end reaches every page.
* **Recording.** *Hard:* the job starts before its row exists; stops, repeated
  and early webhooks and crashes fall between any two accesses, and so does the
  deletion of the meeting, with which its rows go. *Correct when*
  a row's verdict is the media server's, no job records behind the database's
  back, and a settled row stays settled.
* **Sessions.** *Hard:* rotation reads a token and deletes it in two steps;
  revocation scans keys while sign-ins add some; an invitation is accepted while
  it is revoked. *Correct when* a sign-in that ended stays ended and a password
  change leaves no token of before.
* **Pictures.** *Hard:* file, row and old file are three writes of several
  uploads, removals and failures. *Correct when* the file a row names is there.
* **Role grants, administrators.** *Hard:* caches of several processes, an
  invalidation that reaches one of them, a read that answers after the update;
  a count of the super administrators before the write that needs it. *Correct
  when* a request is granted what the row says, and the console keeps a super
  administrator.
* **Groups.** *Hard:* a handler checks a role, a count or a membership in one
  query and writes in a later one; the console writes to the same rows with
  another check. *Correct when* a group with members has somebody who can manage
  it, at most one member has the owner's role, nobody comes back but by being
  added, and a deleted group stays as it is.
* **Presence.** *Hard:* connection and disconnection of one socket overlap, the
  counter is decremented and deleted by two calls, snapshots take back what
  looks dead, a conversation begins while a page lists them. *Correct when* who
  is connected is counted, and every page is in the rooms of its conversations.
* **Messages.** *Hard:* the answer of a send, its event, other events and a
  refetch come in any order, twice or not at all; an edit and a deletion check
  before they write. *Correct when* the page shows the message once, as it is.
* **Conversations, polls.** *Hard:* times chosen before the write that uses
  them, a delete and an insert of two overlapping ballots. *Correct when* a
  message brings a removed conversation back, and a voter has one choice.

## 2. How code becomes actions

The API is single-threaded JavaScript: a handler runs undisturbed between two
awaits. So **one action is one database, Redis or media-server access, or one
synchronous stretch that touches state of the process**; a stretch that only
decides where to go next belongs to the access before it. A call in flight is a
record with a program counter (`pc`) and the snapshot it took (`seen`,
`seenStart`, `max`, `egress`, `admins`, ...), and the guards of later steps read
the snapshot where the code does, never the current row. In `Meeting` and
`Recording` a call is made at most once, and which operation it performs and for
whom is drawn in the initial state, so a run with two calls covers every pair of
operations. In the other modules a call is one of a number of handlers that run
at the same time, and is used again when it has finished.

Failures: `AccessFails` makes an access reject, `Crash` takes a process with its
calls and timers; both draw on one budget, `MaxFaults`. A query that has reached
the database but whose answer is lost is a `Crash` after the write. Where nothing
but the handler itself is lost, one action that ends it stands for both
(`AuthAbandon`, `FileAbandon`, `AbandonMessage`, ...), and it has no budget.

A page is modelled by what it does with a packet, an answer or a click, each of
them one action; packets that different processes send overtake each other.

Operations on different meetings share no state (the maps are keyed by meeting
id or code), so each module models one meeting. The refusals that come before
any state is touched (unknown code, invalid DTO, a guest token of another
meeting) leave the state as it was and are left out.

## 3. The modules

### MeetingLifecycle, Meeting

`MeetingLifecycle` is the abstract promise: a meeting waits, is started by a
pending first join, and ends; once it has ended and no first join is pending it
is *over* and nothing starts it again. The set `pending` is part of the promise
because the code needs it: a join that read WAITING before the end starts the
meeting again (section 6).

`Meeting` is the code. State: the row, participant rows, `limit`
(`WorkspaceConfig.maxMeetingMinutes`; 0 is null), a clock `now`, `timers` (the
deadline of each process's `maxDurationTimers` entry), the calls, and the events
the room was sent. The processes' timer callbacks are calls too, named by their
process.

| actions | code |
|---|---|
| `Begin`, `Find` | arrival, `findByCode` |
| `JoinFound`, `Upsert`, `MarkStarted` | `join` |
| `GuestFound` | `createGuestSession` |
| `TokenFound`, `TokenRefind` | `mintToken` |
| `LeaveFound`, `MarkLeft` | `leave` |
| `WebhookFound` | `receiveWebhook` for `room_finished` |
| `EnforceLimit`, `ReadLimit`, `ApplyLimit` | `enforceMeetingDurationLimit`, `scheduleMaxDurationTimer` |
| `EndFind`, `EndFound`, `MarkEnded`, `Announce` | `end`, and the controller's emit |
| `TimerFire` | the timer's callback |
| `ForceFound`, `ForceEnd`; `BulkEnd`; `KickFound`, `FindParticipant` | the console's `forceEnd`, `bulkEndActive`, `kickParticipant` |
| `Tick`, `SetLimit` | time; the administrator's `updateConfig` |

`Meeting` implements `MeetingLifecycle` under the mapping `pending <- Pending`,
the joins whose snapshot is WAITING and that have not written.

The console's ends write the row whatever it says by then, clear no timer and
emit nothing; what it does at the media server after that changes nothing here
but that a webhook may follow, and one may come at any time anyway. The deletion
of the meeting is left out: from then on no query finds the row (`Recording` has
it, for what it leaves behind).

Bounds: the clock stops at `MaxTime`. One simplification is named in the module:
the timer callbacks of one process run one at a time.

### Knock

State: connections and rooms, `pendingKnocks` of each process as the set of
sockets whose knock is parked, what `handleDisconnect` still has to do for a
closed socket, what the pages show (`view` of a guest, `list` of a host), and
the handlers in flight. A socket is one connection of a page (`PageOf`) and used
once: a page that loses it takes another, and goes on showing what it showed. A
waiting page that connects again does not knock again (`waiting-room.tsx` uses
`socket.once('connect')`), though `handleDisconnect` has dropped its knock. The
set `unheard` remembers the pages whose last knock or answer was lost, so, or by
a query that failed.

| actions | code |
|---|---|
| `Connect`, `Disconnect`, `CloseHost`, `DenyAllPending` | `handleConnection`, `handleDisconnect`, `denyAllPending` |
| `Join`, `Joined`, `HostJoined`, `Replay` | `onJoin` |
| `Knock`, `HasHostPresent`, `NoHost`, `ParkKnock` | `onKnock` and the page that knocks |
| `KnockCancel` | `onKnockCancel`, no await |
| `Respond`, `Responded` | `onKnockRespond` and the page that answers |
| `Fails` | `findRawByCode` or `fetchSockets` rejects in a knock or an answer |

Whether `client.rooms` still lists the rooms when `handleDisconnect` runs is the
library's business, not the repository's: `CloseHost` allows both answers. The
meeting's own room, and `onLeave`, which does not leave the host room, touch none
of this and are in `Attendance`.

### Attendance

One user in one meeting that has started. State, per tab: the mounted page, the
store that outlives it (`none`, `full`, `mini`, `ended`), the socket of the
meeting's shell, whether it is in the gateway's room; the participant row
(`present`: a `leftAt` is missing), which is **one per user**; the meeting's end
(`over`: going on, ended by the console and silent, ended in its row, announced)
and the pages it is on its way to; the handlers in flight. Each handler is of
one of five kinds: `enter` (REST join and token), `join` and `leave` (the
gateway's), `gone` (its disconnection), `bye` (REST leave). A handler's `before`
names those that were in flight when it began: what was sent earlier.

| actions | code |
|---|---|
| `Enter`, `FindMeeting`, `UpsertParticipant`, `MintToken`, `StartSession` | `MeetingClient`, `meetings.join`, `mintToken`, which may fail after the join was recorded, `proceedToRoom` |
| `OpenPage`, `ClosePage` | the page mounts and unmounts around the store: full window, small window |
| `Announce`, `Reannounce`, `Render`, `Reconnect`, `DropConnection` | `useMeetingSocket` and the effects of `MeetingShell` |
| `JoinRoom`, `LeaveRoom`, `CloseSocket` | `onJoin`, `onLeave`, `handleDisconnect` |
| `TakeLeave`, `LeaveAnswered`, `Departs`, `MarkParticipantLeft` | the controls' leave, `onDisconnected`, `meetings.leave` |
| `QueryFails` | a query of any of these handlers rejects |
| `PutOut`, `CloseTab` | the media server or the network; the user |
| `MarkEnded`, `EmitEnded`, `MeetingEnded` | `end` and what a page does about it |
| `ForceEnd`, `KickParticipant` | the console: an end that is not announced; a user marked as left, whose removal from the media room (`PutOut`) may fail |

`Render` is there because the effect that announces a page depends on objects
that `useSound` and `useNotification` make anew on every rendering: each sends a
`MEETING_LEAVE` and a `MEETING_JOIN` that two handlers serve, in any order. The
renderings before the first connection send nothing and are left out.

### RecordingLifecycle, Recording

State: the rows in the order they were created, the status of each, the egress
jobs of the media server, the `egress_ended` webhook of each, the requests, and
the jobs whose end the room was told of. `meeting` is the one column of the
meeting's row that `start` reads; it moves as `Meeting` moves it.

| actions | code |
|---|---|
| `FindMeeting`, `CheckRecording`, `LaunchEgress`, `CreateRow` | `start` |
| `FindActive`, `StopEgress`, `MarkStopping` | `stop` |
| `HookFind`, `HookWrite`, `HookTell` | `handleEgressEvent`, and the emit in `livekit.service.ts` |
| `EgressEnds`, `Redeliver` | the media server |
| `DeleteMeeting` | the console's `delete`, or that of the host's account: the rows go with the meeting, the jobs go on |

`RecordingLifecycle` is the abstract promise: a job records and ends, its row is
written once, is picked and marked by stops, and is settled the way the job
ended. The set `picked` is part of the promise for the same reason as `pending`
above: a stop writes STOPPING on the row it picked, whatever has settled it
since (hazard at `recording.service.ts:160`). `Recording` implements it under
`job <- Outcome` (who stopped a job does not matter) and `picked <- Picked`, the
rows held by stops that have not marked them, and `status <- Row`, which is
*gone* once the meeting is deleted (the lifecycle's `Delete`); the checks of
`start`, the order of the webhook's steps, redeliveries, failures and crashes
are stutters or `Abandon`.

### Groups

State: the role of each user in one group (`none` without a row),
`ownerUserId`, whether the group is deleted, and the handlers in flight with
what they have read: the actor's role (`mine`), the target's (`theirs`), the
admins counted, the members, the owner.

| actions | code |
|---|---|
| `Begin` | the route: remove or leave, promote or demote, and so on |
| `GetMeta`, `GetMembership` | `assertGroupAdmin`; `GetMembership` alone is the check of who leaves |
| `CountAdmins`, `LastLeaves` | `groupAdminCount`, `memberUserIds` for the last admin |
| `PickInvitable` | the candidates of `addMembers` |
| `GetTarget`, `FindOwner` | the target of a demotion or a transfer, and the owner to be replaced |
| `Require` | the one check of the console |
| `AddMembers`, `RemoveMember`, `SetMemberRole`, `TransferOwnership`, `Delete` | the writes, of both services |
| `Abandon` | a query that rejects, or a crash |

The role endpoint with role OWNER (`own`) checks the actor twice, once before it
calls `transferOwnership`, and so does the model. `TransferOwnership` is one
action though the transaction has three statements: the other writers touch a
single row each, so PostgreSQL's row locks order them before or after it.

### Sessions

The sign-ins of one user: the account and its invitation, the refresh tokens
whose key is in Redis, and the handlers. `root` remembers which sign-in a token
descends from.

| actions | code |
|---|---|
| `InviteUser`, `UpsertInvite`, `RevokeInvite`, `AcceptInvite`, `AcceptFindUser`, `CreateInvited`, `DeleteInvite` | the console's invitation, `acceptUserInvite` |
| `Login`, `LoginWithGoogle`, `LinkGoogle`, `IssueTokens` | `login`, `loginWithGoogle`, `issueTokens` |
| `RefreshFind`, `RefreshDelete`, `RefreshUser` | `refresh` |
| `Logout` | `logout`, or the key's time is up |
| `ChangePassword`, `UpdatePassword`, `ScanTokens`, `RevokeBatch`, `AnswerChange` | `changePassword`, `revokeAllForUser` |
| `DeleteUser`, `AuthAbandon` | the console's delete; a rejected access |

The scan owes every key that is there from its beginning to its end; whether it
returns one that came meanwhile is open, as Redis says of `SCAN`.

### StoredFiles

One picture out of four (a user's, an administrator's, a group's, the logo; which
one is drawn at the start): the key in its row and the files of the storage. Nine
routes begin a handler that has read the old key (`FindFor`); `PutFile`,
`NameFile`, `AuditChange` and `DeleteOld` are its accesses, in the order of the
code: the file before the row, the old file last.

### RoleGrants, Administrators

`RoleGrants` is one role: the row with `cacheRev`, a cache in each process, and
the guard that reads the row on each request and takes the cached grants when the
revisions agree (`FindRole`, `Resolve`, `AnswerGuarded`), against `UpdateRole`,
`WriteRole`, `RemoveRole`, `EraseRole` and a process that starts (`Restart`),
which seeds the Member role. `Administrators` is all accounts, roles and
invitations: `CreateAccount`, `InsertAdmin`, `UpsertAdminInvite`,
`AcceptAdminInvite`, `DropInvite`, `RevokeAdminInvite`, `AssignRole`,
`DeleteAccount`, `CountSupers`, `WriteAssignment`, `EraseAccount`, the roles, and
`Boot`, which makes sure that somebody can sign in.

### Presence

The chat sockets of one user. `con` is where `handleConnection` is for a socket
and `dis` where `handleDisconnect` is; the two overlap.

| actions | code |
|---|---|
| `OpenSocket`, `JoinUser`, `ListConversations`, `JoinListed`, `PresenceConnect`, `ConnectFails` | `handleConnection` |
| `CloseSocket`, `PresenceDisconnect`, `EraseCount` | `handleDisconnect`, `PresenceService.disconnect` |
| `ReadCount`, `FetchSockets`, `ForceOffline` | `areOnline`, `markOffline`: a snapshot takes back a count without a socket |
| `LogoutFinds`, `LogoutCloses` | `disconnectRoom` |
| `MakeConversation`, `AnnounceConversation`, `OnConversationNew`, `OnJoin` | a conversation that begins, and the page that is told of it |
| `ProcessStops` | a process stops with its sockets; no handler runs for them |

### Thread

One message, and the page of its author: the row with a revision that grows with
every write, the handlers (`FindMessage`, `CreateMessage`, `UpdateContent`,
`SoftDelete`, `WriteReaction`, `ReadMessage`, `EmitMessage`), the packets on
their way to the page (events, answers, fetches), and the page's cache with its
optimistic entry (`SendMessage`, `Refetch`, `Receive`, `MissEvent`). `Upserted`,
`Patched` and `Fetched` are the three ways a packet changes the cache.

### AtomicPoll, Polls, ReadMarks

`Polls` is a poll and its ballots: `CheckVote`, then the transaction of two
statements, under READ COMMITTED as PostgreSQL runs it (`DeleteVotes`,
`InsertVotes`, `RollBack`). `AtomicPoll` is what it promises: a ballot replaces
its voter's choices in one step. `Polls` implements it, a ballot taking effect
when it inserts, with one exception that the promise has to spell out: of a
voter whose ballots overlapped (`overlapped <- crossed`) the later ballot leaves
some of what was there.

`ReadMarks` is one member's row of a direct
conversation (removed, hidden, cleared at, read at) under `FindDirect`,
`RestoreForViewer`, `CreateDirect`, `SetHidden`, `ChooseTime`, `ClearForViewer`,
`RemoveForViewer`, `ChooseMark`, `MarkRead`, while messages are sent by either
side: `PostMessage` and the three queries of `activityVisibilityChanges`
(`FindRemoved`, `ReviveRemoved`, `UnhideSender`), and `PostPoll`.

### Series

`schedule()` with the rule's arithmetic as operators (`AddDays`, `AddMonths`,
`NextDate`, `Goes`) and the creation of the occurrences one by one, each with a
few attempts at a code (`CreateOccurrence`, `Collide`, `FailOccurrence`,
`DispatchInvites`). The reference (`RuleDate`, `Wanted`) says which dates a
calendar gives the rule, without stepping from one to the next.

### Instances

`MCMeeting`, `MCKnock`, `MCRecording` and `MCGroups` give the constants of one
module. `MCGateway`, `MCAccounts` and `MCMessaging` hold several modules that
share no variable: a variable `part` says which of them moves in a behaviour,
and the others stay as they began. Their product would say no more, for no
action of one reads or writes what another does; where two components do share
state (`Knock` and `Attendance` share the gateway, `Meeting` and `Recording` the
meeting's row), each has the part of it that it reads.

## 4. What TLC checks

`tlc -config X.cfg M`, with the files of the table. `CHECK_DEADLOCK FALSE`
throughout: a system whose calls have all returned may rest.

| run | module, cfg | question | instance |
|---|---|---|---|
| `meeting` | `MCMeeting` | do the row, the timers and the lifecycle survive every interleaving, with faults? | 2 processes, 2 calls (any two operations, the console's included, any user), host and one guest, limits none / 1 / 2 that change at any time, clock to 2, 1 fault |
| `meeting_live` | `MCMeeting`, `MCMeetingLive.cfg` | is the limit enforced, and the end announced? | 2 processes, 2 calls (join, token, end, webhook, the console's ends), limit 1, clock to 2, no faults |
| `meeting_resurrected` | `MCMeetingResurrect.cfg` | does an ended meeting start again? *(it does)* | 1 process, 2 calls |
| `gateway` | `MCGateway` | do guests wait for nothing, do hosts miss knocks? is who is in present, who has left marked so, and who is there told of the end? | *knock:* 1 process, 2 handlers at a time, the host and one guest; a second tab of the host up to the first loss, or losses and a second connection of the guest's page. *attendance:* 2 tabs, 2 handlers at a time, 1 rendering, lost connection, failed query, reload or kick |
| `knock_live` | `MCKnockLive.cfg` | is a waiting guest answered? | 1 host tab, 1 guest whose page may connect again, failing queries |
| `knock_two_servers` | `MCKnockTwoServers.cfg` | does an answer reach a guest of another process? *(it does not)* | 2 processes |
| `recording` | `MCRecording` | are rows truthful, jobs accounted for, rows settled and ends told? | 3 requests, 2 jobs, 1 fault, the meeting deleted at any time |
| `recording_twice` | `MCRecordingTwice.cfg` | is one recording in progress at a time? *(no)* | 2 requests, 2 jobs |
| `groups` | `MCGroups` | what can overlapping changes do to roles and ownership? | 3 users, 2 handlers at a time; add, remove, leave, demote, transfer, delete |
| `groups_ungoverned` | `MCGroupsRace.cfg` | does a group keep an admin while it has members? *(no)* | 3 users, 2 handlers; leave, promote, demote |
| `accounts` | `MCAccounts` | do sign-ins end for good, do caches lag, does the console keep somebody, is a picture there? | *sessions:* 3 tokens; *grants:* 2 processes, 2 grants, 3 revisions; *admins:* 2 addresses, 3 roles; *files:* 3 names; 2 handlers at a time each |
| `messaging` | `MCMessaging` | are rooms joined and sockets counted, does the page settle, does a vote replace the last, does a conversation come back, is the series the rule's? | *presence:* 2 sockets, 2 snapshots; *thread:* 3 revisions, 1 packet on its way when another is sent, 2 handlers; *polls:* 2 voters, 3 options, 2 ballots; *marks:* 2 handlers, clock to 3; *series:* ends of months and a 29th of February, intervals 1 and 2, counts, last days, and the code's limits of 24 occurrences and 5 attempts |

**Why the bounds are enough.** Every hazard in the list needs at most two calls
of the meeting plus timers (a stale join against an end; two first joins; a
re-arm against a clear), and the timer of each process is a third and fourth
actor. Two clock ticks let a limit of 1 pass before, while and after a restart
moves the start, and a limit of 2 differ from it. In the waiting room two tabs
of the host are what it takes for one to leave, and deny, while the other joins,
and two connections of the guest's page for one to be lost; a behaviour has one or the
other, and a lost knock or answer only with one tab of the host (`CONSTRAINT
OneMore`); the theorems have both. Three requests
let two starts race with a stop; because TLC's symmetry is not sound for
liveness, the `recording` run keeps one of the behaviours that differ in names
only by `CONSTRAINT InTurn`, an order on the kinds of the requests, which never
change, and on the first use of the jobs. In a group the hazards are between two
handlers, and three users are an owner, another admin and a member who is left
behind; the operations the `groups` run leaves out repeat the steps of those it
has (`own` is a transfer checked twice, `promote` a role written with fewer
checks than `demote`, and admins come from transfers; the console adds and
removes with the check it deletes with), and the theorems hold for all of them.
In the attendance every hazard needs two handlers: a leave and a join of one
tab, an arrival and the end, a leave and another tab's. The run stops at the
first pair that was served in another order than it was sent (`CONSTRAINT
InOrder`): the mark of it stays, `InMeansPresent` and `EndReachesPages` leave
such behaviours out, and for `OutMeansLeft` the theorem does not. Two tokens and
their successor, two names and the one they replace are what a race between two
handlers takes. 24 occurrences and 5 attempts are the code's own limits. The
theorems of section 5 remove the bounds for every safety property the runs
check, but those the code does not keep.

The type invariants are proved as well; the run of the gateway checks one, and
the others do not repeat theirs.

**Properties.**

| property | says |
|---|---|
| `Meeting!RowConsistent` | status and timestamps agree; an admitted user has a row in a started meeting |
| `TimerWithinLimit` | a timer armed from an old snapshot fires within a configured limit of the start now in the row |
| `LimitWatched` | without faults an active, limited meeting always has a timer or a call that will end it |
| `EndedByRight` | only host, webhook, timer, a call past its limit or an administrator ends the meeting |
| `AdmittedWithinLimit` | nobody is let into an active meeting past the limit the call read, lost timers or not |
| `ImplementsLifecycle`, `OverForGood` | the refinement, and what it says of ended meetings |
| `LimitEnforced`, `EndAnnounced` | an active limited meeting ends; the room is told, unless an administrator was among those who ended it |
| `Knock!WaitingIsParked` | a page that waits has its knock parked or under way, unless the knock was lost with its connection or a query |
| `HostSeesKnocks` | every host page shows every parked knock, or is about to, unless an answer of it was lost |
| `AdmittedByHost` | only the host's answer to a parked knock of this very page lets it in |
| `AnswerSettles` | an answered user has no knock parked anywhere (`knock_two_servers`, which refutes it) |
| `KnockAnswered` | a guest who waits while a host is there is answered, or the host goes, or the knock or an answer was lost |
| `Recording!RowTruthful` | a row is settled the way its job ended, never before |
| `NoOrphans` | without faults every job has a row or a request about to write it, until the meeting is deleted |
| `FinalForGood` | a settled row changes only under a stop that had picked it, or goes with its meeting |
| `ImplementsRecordingLifecycle` | the rows and jobs go through the lifecycle of a recording, however starts, stops, webhooks and failures interleave |
| `HookSettles`, `EndIsTold` | a webhook that finds its row settles it; the room hears of every end; both until the meeting is deleted |
| `Groups!LastAdminKept` | members lose their last admin only by the console, which asks for no right in the group, or by a handler whose readings are out of date |
| `OneOwnerKept` | two owners only come of a transfer whose previous owner is out of date |
| `ReturnsAsMember` | who has left comes back by being added, as a plain member, never by a promotion or transfer in flight |
| `DeletedIsFrozen` | once deleted, and the handlers that found it before done, a group only loses members that leave |
| `Attendance!InMeansPresent` | once the handlers are done, a page in the meeting is in its room and its user present, unless it came back silently or its join failed, another tab went, a join and a leave were served the other way round, or the console put the user out |
| `OutMeansLeft` | who left by the controls is marked so, in whatever order the handlers ran, unless a tab or a call went without a word, or was let down after its joining was recorded |
| `EndReachesPages` | once an end is announced, no page that had said it was there, and is connected, stays in the meeting |
| `Sessions!SignedOutForGood` | a sign-in that ended while none of its refreshes was under way never gets a token again |
| `PasswordChangeRevokes` | an answered password change has left no token of before, whatever came and went during the scan |
| `StoredFiles!NamedFileStored` | the file a row names is in the storage |
| `RoleGrants!GrantsCurrent` | a request is granted what the row said when it was read, whatever the caches hold, but for a role deleted and seeded again |
| `Administrators!LastSuperKept` | only a handler that was overtaken takes the last super administrator |
| `Presence!RoomsJoined` | a page that connects while a conversation begins is in its room, or on the way, unless its request to join failed |
| `CountedWhileConnected` | a connected user is counted, but for three named ways the code loses a count |
| `Thread!PageSettles` | when nothing is on its way and no packet came out of turn since the last fetch, the page shows the message once, as it is |
| `Polls!OneChoice` | in a poll of one choice a voter has one, unless two of its ballots overlapped |
| `ImplementsAtomicPoll` | a ballot takes effect at once: it replaces its voter's choices, whole, and nobody else's; of overlapping ones the later keeps all of its own and some of the earlier |
| `ReadMarks!RemovedComesBack` | a removed conversation is brought back by the next message, or somebody is about to |
| `Series!SeriesFollowsRule` | what is made is a beginning of the rule's series, all of it when done, and nobody is invited before |

**Fairness.** Nobody is obliged to begin a call. A call that has begun runs on
(`WF` on its steps): Node runs the continuation of a settled promise, and an
access settles, by an answer or a rejection. An armed timer fires and the clock
ticks (`WF`). In `Knock` a handler and the work of a disconnection run on, and a
host to whom a page keeps showing a knock answers it in the end: that needs
strong fairness, for the page loses and regains the knock, and it is an
assumption about people, not code. Nothing makes a page that lost its knock try
again, for nothing in the code does. In `Recording` only a webhook that has
arrived is served; a job may record for ever, and the one fault the run allows
is left out by the properties. `meeting_live` has no faults, for with one the
code does lose its last timer. The other modules state safety only: what has to
happen in them is said of the states in which nothing is in flight any more
(`Quiet`, `PageSettles`), which no fairness is needed for.

## 5. What is proved

For every value of the constants, within each module's named assumption
(`MeetingAssumption`, `KnockAssumption`, `AttendanceAssumption`, ...: what the
constants are, e.g. that calls are not servers, the host is a user, `NoTab` is
not a tab, or a bound is a number).

| module | theorem | invariant it rests on |
|---|---|---|
| `MeetingProofs` | `TypeCorrect`, `RowIsConsistent`, `AlwaysWatched`, `Refinement`, `NeverAgain`; `TimersAreTimely`, `EndsByRight`, `AdmitsWithinLimit` | `IInv`; `TInv` |
| `KnockProofs` | `TypeCorrect`, `NobodyWaitsUnparked`, `OnlyTheHostAdmits`; `HostsSeeEveryKnock` on one process | `IInv`, `SInv` |
| `AttendanceProofs` | `AttendanceTyped`, `InIsPresent`, `OutIsLeft`, `EndReaches`; `GatewayComposes`, `GatewayHolds` | `AInv` |
| `RecordingProofs` | `TypeCorrect`, `RowsAreTruthful`, `NoJobIsOrphaned`, `SettledForGood`, `Refinement` | `IInv` |
| `GroupsProofs` | `TypeCorrect`, `LastAdminStays`, `OneOwnerStays`, `BackAsMember`, `FrozenOnceDeleted` | `IInv` |
| `AccountsProofs` | `SignedOutStaysOut`, `PasswordRevokes`; `NamedFilesStored`; `GrantsAreCurrent`; `LastSuperStays`, `AdminTypes`; `AccountsCompose`, `AccountsHold` | `SessionsInv`; `FilesInv`; `GrantsInv`; `AdminInv` |
| `ThreadProofs` | `PageShowsTheMessage`, `ThreadTyped` | `ThreadInv` |
| `MessagingProofs` | `RoomsAreJoined`, `CountedStays`, `PresenceTyped`; `OneChoiceStays`, `PollsTyped`, `BallotsReplace`; `RemovedReturns`, `MarksTyped`; `AddDaysIsExact`, `SeriesFollows`, `SeriesTyped`; `MessagingComposes`, `MessagingHolds` | `RoomsInv`, `CountInv`, `SpanInv`; `PollsInv`, `BallotsAsk`; `MarksInv`; `SeriesInv` |

**Meeting.** None of the properties is inductive: whether a step keeps the row
consistent depends on what the stepping call has read. `CallShape` says, for
each program counter, what the snapshot is worth: a call at `limit` holds a row
it read, or wrote, as ACTIVE, and so the meeting has a start; one at `start` has
its participant row. `IInv == TypeOK /\ CallShape /\ RowConsistent /\
LimitWatched`. `LimitWatched` is kept because every step that clears a timer is
made by a call that is then on its way to end the meeting, or finds it ended;
the proof names that call (`Pressing`); an administrator's end clears none, and
leaves a meeting that has ended. `TInv` adds the clock: a start held in a
snapshot is never later than the start in the row (`SnapshotsOld`), because
`markStarted` only moves the start forward; so a deadline computed from any
snapshot is within the limit of the start in the row, and a call that is about
to end the meeting for the limit's sake is past it (`EndRight`). `Refinement`
maps each action to a step of `MeetingLifecycle` or a stutter: a `Crash` is an
`Abandon`, and `MarkStarted` from whatever status is `Start`.

**Knock.** `IInv` adds to the types that parked knocks are of sockets of this
process, one for each user (`Parked`), that only open sockets of the host are in
or on the way to the host room (`HostsOnly`), and that a page has one connection
at a time, one as long as it waits, and its knock under way on that one, but for
what was lost with a connection (`PagesInv`); with them `WaitingIsParked` is
inductive. `HostSeesKnocks` holds only where the map and the rooms span the same
processes, so it assumes `OneProcess`; the run `knock_two_servers` shows what
becomes of an answer where they do not.

**Recording.** `CallShape` says that a request about to create a row holds a
running job without one that no other request holds, and that a stop holds the
job of a row; `HookShape` that a webhook exists when its job has ended, and is
past its look-up when the row is there. `Refinement` needs both: `Record` may
write a row only once because a `create` holds a job without a row, `Settle` is
of an ended job with a row because a webhook past its look-up is, or the meeting
was deleted and the webhook's write throws. After a deletion all is a stutter but
what the jobs do. Which rows are
picked hangs on the requests alone, so a step that moves a request off `halt`
and `mark` shrinks `Picked`, or leaves it when another stop holds the same row;
both are what `Mark` and `Abandon` allow.

**Groups.** `Shape` says what a handler's record is worth at each query: who is
about to write has been seen as an admin, or leaves as a member; a leaving
admin has counted another, or nobody else in the group; a demoted admin has
been counted with another. `LastAdminStays` then goes through the writes: if
nothing the handler read has changed, the admin it saw, or counted, is still
there. `OneOwnerStays` needs only that a transfer demotes the owner it read;
`FrozenOnceDeleted` that every check of a deleted group but a leave's ends its
handler.

**Attendance.** The three properties speak of states in which nothing is in
flight; `AInv` says what is owed until then. `PresenceInv`: while the meeting
goes on, a join is under way that began after all that is about to mark the user
as left (`Telling`), or the user is present and nothing is about to, or every
tab that counts is on its way out. `RoomInv` says the same of each tab and the
room, with the leaves of its socket. A rendering keeps both because its join
waits for its leave: serving them the other way round is what `crossed` marks,
and then nothing is claimed. A kick disturbs nothing else: until the next join
`kicked` stands for the presence it took. `Accounted`: a present user who was
not put out has a tab in the meeting, or a handler that is about to make one,
that has not been answered a leave. `ToldInv`: once the end is announced, who is
in the meeting and not strayed has the news on its way, and who still enters has
strayed.

**Accounts.** A scan owes every token that was live when the password changed:
`SessionsInv` says that such a token is in what is still to be returned
(`Sweeping`), or gone; and no step puts back a token once issued. `FilesInv`
says that a handler that is about to name a file has put it there, and that one
about to delete a file deletes one that the row does not name, since names are
fresh. In `GrantsInv` any two that know a revision, row, caches and requests,
agree on what it grants, and no cache holds a later one than the row: that is
what makes a stale entry harmless. `AdminInv` says that who demotes or deletes a
super administrator has counted another.

**Messaging.** `RoomsInv` follows a socket through its connection: one that has
joined the user's room hears of every conversation announced since.
`CountInv` compares the counter with the sockets that were counted and whose
disconnection has not decremented yet; it needs their number, and so
`IsFiniteSet(Sockets)`. `PollsInv` says that a ballot about to insert has deleted
all choices of its voter, unless another one overlapped. `MarksInv` says that a
removal about to be written is not older than the newest message, unless one
came in between.

`PollsInv` also gives the refinement of `AtomicPoll`, with `BallotsAsk`: a
ballot in flight names choices that its poll allows. Until it inserts nothing
has moved for the voters, since its deletion shows only when the transaction
commits.
`SpanInv` bounds the counter: each socket adds one at most once and takes one
back at most once, and a snapshot sets it to nothing, so it stays within the
number of sockets of zero, below included.

**Thread.** That the page shows the message in the end says nothing of the steps
before. `ThreadInv` says what a row is worth wherever it is, in a packet or in a
handler about to tell it (`Fresh`): when it is not older than what the page was
told, it differs from the message only in what a later change did that is still
to be told. While no packet came out of turn or was lost, and none on its way is
late, the same is true of the page (`PageKnows`), and it has one entry
(`PageShape`). When nothing is on its way nothing is still to be told, and so the
page is right.

**Series.** `SeriesInv` says that each date made is the one the closed form of
the reference gives for its number, and that another is wanted while the loop
goes on. The step is arithmetic of the calendar:
`AddDaysIsExact` (days are added over months of different lengths and leap
years) and `AddMonthsIsDate`, for which `DaysBefore` is shown to grow by
`MonthLength` from month to month. Where such a lemma would take induction over
the months (`MonthsPass`), it looks at the least number for which it fails
instead. The clamping of a day to its month is part of the reference, so the
theorem says nothing against the drift of a series on a 31st.

**Next to each other.** `GatewayComposes`, `AccountsCompose` and
`MessagingComposes` say that a behaviour of a run that holds several components
is a behaviour of each: the others stutter. With them `GatewayHolds` (on one
process), `AccountsHold` and `MessagingHolds` state everything those runs check,
and the types, for every value of the constants.

**Only model-checked.** The liveness properties (`LimitEnforced`,
`EndAnnounced`, `KnockAnswered`, `HookSettles`, `EndIsTold`), which need
fairness and `ENABLED`. The four properties the code does not keep are refuted by
TLC.

## 6. What the code does not keep

* **An ended meeting starts again** (`OnlyWaitingStarts`). `join` reads WAITING,
  awaits the limit check and the participant's row, then writes ACTIVE without a
  condition. If the host, the webhook or a timer ends the meeting in between,
  the row becomes ACTIVE again, with a new `startedAt` and the old `endedAt`.
  The unit tests expect a single WAITING -> ACTIVE transition. `OverForGood`
  and the refinement say how far it goes: only first joins in flight do this.
* **An answer at another process is lost** (`AnswerSettles` on two processes).
  `hasHostPresent` and the rooms span all processes, `pendingKnocks` does not:
  a host on another process than the guest's is shown the knock, answers, and
  nothing happens. The README promises that the namespace scales horizontally.
* **Two recordings at once** (`OneRecording`). The check and the row are on the
  two sides of a call to LiveKit.
* **Members without an admin** (`StaysGoverned`). A leaving admin counts the
  admins and goes in a later query: two who leave together each count two. The
  error and the unit tests say that the last admin may not leave, or be demoted,
  while members remain. `LastAdminKept` says that it takes such a race, or the
  console, which removes whom it likes.

Properties are stated so that they say what the code does keep:
`WaitingIsParked` for guests with one tab (a second tab's knock replaces the
first's, which is then never answered), `NoOrphans` and `LimitWatched` without
faults, `HookSettles` for webhooks that find their row (an earlier one is
acknowledged and dropped), `FinalForGood` but for a stop that had picked the
row, those of the recording until the meeting is deleted (a job that runs then
has no row and goes on), `OneOwnerKept` for the rows that have the owner's role:
an owner may be made an ADMIN by the role endpoint, which refuses only MEMBER,
or leave, and stays in `ownerUserId`.

The other modules met behaviour of this kind on the way. It is in their models,
as a step or as an exception a property names, and no run is spent on refuting
what nobody promises:

* *Meeting.* An administrator's end (`forceEnd`, `bulkEndActive`) is not announced
  to the room: it is written to the row, and the webhook that follows the closing
  of the media room finds the meeting ended and returns. The pages find out when
  LiveKit puts them out, if it does. The timers stay armed and their `end` returns.
* *Knock.* A guest whose connection is lost while waiting connects again, shows
  that it waits and has no knock anywhere, for good (`unheard`): the page knocks
  on its first connection only. A knock or an answer whose query fails is lost the
  same way, for the page that sent it hears of no failure.
* *Attendance.* Every rendering of the meeting page leaves and joins again
  (`apps/web/features/web/meeting/components/meeting-shell.tsx:205-221`), and
  the server may serve the join first: the page is then in no room and its user
  marked as left (`crossed`). A socket that connects again by itself says
  nothing (`strayed`). One tab's going marks the user as left while another tab
  is in (`shared`). A join that runs after the leave, or after the page is gone,
  leaves a participant who is present for good (`unsaid`), and so does a token that
  is refused after the join was recorded. `kickParticipant` marks a user as left and
  swallows the failure to remove them from the media room: the page stays in, its
  user absent (`kicked`), until it is rendered. A join of the gateway that fails is
  not made again until then. A page that arrives,
  or announces itself again, while the meeting ends is told nothing.
  `MEETING_LEAVE` is emitted on unmount after the socket was closed, and never
  sent. `proceedToRoom` starts the session of a page that is gone.
* *Sessions.* A refresh that had found its token goes through a logout and a
  password change; two of them with one token both succeed. The comparison that
  is to find a reused token never fails, so that its revocation is not reached.
  An invitation that is gone when it is to be deleted makes the call fail though
  the account was made.
* *RoleGrants.* A role deleted and seeded again begins its revisions anew, and a
  process that kept an entry of its former life grants that.
* *Administrators.* Two super administrators who go at the same time each count
  the other.
* *Presence.* The counter is lost in three ways, which `CountedWhileConnected`
  names; a disconnection whose connection was never counted is one. A
  `CONVERSATION_JOIN` whose check fails is neither answered nor sent again: the
  page stays out of that room until it connects again.
* *Thread.* A reconnection fetches the conversations and not the messages: a
  missed event is missed until the next fetch. An edit that overtakes the event
  of the new message shows it twice for a while, an edit after the deletion
  writes a text into the row, and a reaction's event is applied to what is
  there, older or newer.
* *Polls.* Two overlapping ballots of one voter give two choices.
* *ReadMarks.* A removal, a clearing or a read mark written late moves the time
  back; a message between the time of a removal and its write is hidden with it;
  a poll does not bring a removed conversation back.
* *Series.* Adding months clamps to the last day of a short month and stays
  there; `BYDAY` is ignored though the DTO's example has it
  (`modules/client/meetings/dto/schedule-meeting.dto.ts:33`); a last day without
  a time means its midnight, so that its own occurrence is left out; a failure
  half way leaves part of a series, uninvited.

## 7. What is not modelled

* Renaming, invitations' mails and history queries of meetings: single-row writes
  and reads that none of the modelled operations depends on.
* Chat, reactions and raised hands in the `/meeting` namespace: relays.
* Grants and signatures of LiveKit tokens, and their use after a meeting ended:
  the media server is not part of the repository.
* Attachments, mentions, replies, pins, stars and search of messages; typing and
  the chosen status; the list of conversations, its badges and its order.
* The recording banner of the meeting page. `emitStarted` follows the insert
  after another await, so the room may hear of the end first; the model keeps no
  order between a room's events, and this is the one hazard without a property.
* Mail, push, analytics, audit trails, the settings that are single rows, titles
  and pictures' formats, and the rows that go with a deleted user.
* Client code but for the pages named in section 3. Most of the repository is
  that: forms, lists, dialogs and layout over the queries of the services, DTOs,
  styles and translations, which keep no state that two actors share. That is
  why the lines the models stand for are a small part of all lines.
* The deletion of a meeting is a step of `Recording` only. In `Meeting` no query
  finds the row afterwards, in the waiting room a knock or an answer fails
  (`Knock!Fails`), and what a page still in a deleted meeting does is not modelled.

## 8. Plan

What is left, the most consequential first.

1. `MeetingSystem`: `Meeting`, `Recording` and `Attendance` composed over one
   meeting row, to ask what becomes of a running egress and of those present when
   a meeting ends and starts again.
2. The recording banner: the events a room is told in their order, with the
   page's own question and its answer.
3. Attachments: stored and inserted before the message that claims them; a
   message whose claim finds nothing is empty.
4. The list of conversations and its badges: events, read marks and refetches
   of the page, as `Thread` has them for one message.
5. `Groups` and `Sessions` against abstract specifications of their own: a group
   whose changes are atomic but for those that were overtaken, and a session that
   is signed in or out.
