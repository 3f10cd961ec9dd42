# TLA+ models of jlu_drcom

Models, model-checking runs and proofs for the DrCOM campus-network client in
`drcom/` (a C program, an OpenWrt init script and a LuCI page). The models are
written from the source; this file says what each part of the system does,
which module models it, what the runs and the theorems show, and what is left.

## 1. The system

### Components

| component | source | state it keeps | operations |
|---|---|---|---|
| UDP exchange | `drcom/src/keepalive.c:24-225` | the socket, the packet being waited for, the attempt number | send and wait for a matching datagram, resend up to 3 times; wait only |
| Keepalive exchanges | `drcom/src/keepalive.c:227-568` | the counter, modulo 255 on the wire | `keepalive_1` (one or two exchanges), `keepalive_2` (two or three) |
| Retry policy | `drcom/src/retry_policy.c` | none | delays, thresholds, template and extra-packet choice, profile defaults |
| DHCP session | `drcom/src/auth.c` | `try_counter`, `login_failed_attempts`, the static `login_retry_delay_seconds`, `stop_requested`, `auth_information`, `keepalive_try_counter`, `keepalive_rounds` | challenge, login, keepalive loop, give up, back off, log out |
| PPPoE session | `drcom/src/auth.c:607-767, 954-1004` | two counters, seed, encryption mode and type, `login_first`, `first` | challenge, login, `keepalive_2` in a loop |
| 802.1X login | `drcom/src/eapol.c`, `main.c:257-270` | `recvbuff`, `sendeap->id`, the tries of a stage, the keep-alive pid file | logoff and start, identity, MD5 challenge, one interface after the other; the keep-alive process and its hand-over |
| Process start | `drcom/src/main.c`, `daemon.c` | options, signal handlers, pid file | parse options, daemonise, read the configuration, install handlers, `dogcom(5)` |
| Supervision | `drcom/files/etc/init.d/drcom` | the port state file | free port 61440, start under procd with respawn, stop with TERM then KILL after 10 s |
| Configuration | `drcom/src/configparse.c`, `retry_policy.c:62-101` | `drcom_config`, `config_explicit` | parse lines, refuse what is not understood, apply profile defaults to what was not written |
| LuCI controller and page | `controller/drcom.lua`, `view/drcom/form.htm` | the snapshot cache; refresh timer, busy flag | status, logs, service actions, saving the configuration |
| Packet contents | `protocol.c`, `libs/` | none | digests, checksums, field layout |
| Build and packaging | `scripts/`, `Makefile` | none | packages |

The client is one thread. It talks to one server over one UDP socket; nothing
tells two sessions or two processes on that socket apart except the bytes its
filters read. SIGINT and SIGTERM only raise `stop_requested`, which `dogcom`
polls between calls. procd starts the process, restarts it when it dies, and
kills it ten seconds after a TERM. With `-x` an 802.1X login over a raw socket
precedes the session; it leaves a keep-alive process behind that belongs to
nobody and that the next login finds through a pid file. The init script clears the port before a
start; LuCI calls the init script and reads the log and the process table.

### What is hard

* **Late datagrams.** The login and logout filters read one byte, `keepalive_1`
  reads one byte, and the counter of `keepalive_2` recycles. Only challenges
  carry a random id.
* **Stopping.** The flag is polled, so a stop may arrive in every call, and
  each exit path has to decide about the server's session.
* **State between attempts.** The retry delay is a static variable; the
  failure count, the round count and the login template survive different
  stretches of the loop.
* **Restarts.** A killed process leaves a session at the server and datagrams
  on the network; its successor binds the same port.
* **802.1X.** The raw socket hears every frame of every interface, the filters
  have no receive timeout, an answer is built from whatever was received last,
  and pids in a file outlive their processes.
* **Time.** A wait starts again with each unexpected datagram; a clean stop
  may need longer than procd grants; the script waits ten seconds for a client
  that procd would start again after five.
* **Defaults.** A profile and explicit keys may stand in any order, and a key
  may be written with the value zero.

What makes each component correct: the *UDP exchange* returns only a datagram
that answers its packet; the *keepalive* counts a round good only when the
server answered that round; the *session* carries the authentication data of
its own login, gives up exactly after the threshold, waits as long as it was
told, and leaves through a logout; *PPPoE* in addition must make progress or
use up its tries; *802.1X* must report success only with the port open, come to
an end, and leave one keep-alive process that the next login can find; *configuration*
must let explicit keys win; *port recovery* must free the port without killing
a logout it could have waited for; *LuCI* must not show a state from before an
action as the result of it. `PROJECT.json` lists the hazards line by line.

## 2. Modules

| module | models | extends |
|---|---|---|
| `RetryPolicy` | the decision functions of `retry_policy.c` | |
| `UdpExchange` | the socket, the filters, the two waiting loops, the network | |
| `Keepalive` | `keepalive_1` and `keepalive_2`, one step per exchange | `UdpExchange`, `RetryPolicy` |
| `AuthServer` | the server, external: what the client needs it to be | `UdpExchange` |
| `DhcpSession` | `dogcom()` in DHCP mode, stop, kill, respawn; the composition of all of the above and the properties | `Keepalive`, `AuthServer`, `RetryAfter` |
| `ClientLifecycle` | abstract specification: offline, online, resting, leaving, gone; implemented by `DhcpSession` and by `ServiceControl` | |
| `MCDhcpSession` | rejection sets, refusal texts and symmetry for TLC | `DhcpSession` |
| `RetryAfter` | `extract_retry_after_seconds`, against a definition without its loop | |
| `TimedSession` | `dogcom()` in DHCP mode with `-e`, second by second, a datagram being the answer, a stray, or missing | |
| `ServiceControl` | the init script, procd and another program on the port, composed with the client | `TimedSession` |
| `ConfigParse` | `main()` from its options to `dogcom(5)`, `config_parse`, the profile's defaults | |
| `MCConfigParse` | command lines, files and profiles for TLC | `ConfigParse` |
| `PppoeSession` | `dogcom()` in PPPoE mode, over the same exchanges and the same server | `Keepalive`, `AuthServer` |
| `LuciController` | the controller's snapshot cache, its handlers, the service they act on | |
| `LuciConsole` | the page: refresh chain, timer, follow-ups, clicks; composed with the controller | `LuciController` |
| `EapLogin` | `try_smart_eaplogin` and `eaplogin` against a switch (external) | |
| `EapKeeper` | `eap_daemon`: children, keep-alive processes, the pid file | |
| `ExchangeOrder` | what an in-order network makes of the exchanges: the invariants all sessions share | `Keepalive`, `AuthServer` |
| `DhcpOrder`, `PppoeOrder` | the inductive invariants of one session each, for such a network | the session, `ExchangeOrder` |
| `ExchangeProofs` | lemmas about the socket, the exchanges and the server; the quotients of `RetryPolicy` | `ExchangeOrder` |
| `DhcpSessionProofs`, `PppoeSessionProofs` | theorems | `DhcpOrder` or `PppoeOrder`, `ExchangeProofs` |
| `ServiceControlProofs`, `ConfigParseProofs`, `LuciConsoleProofs`, `EapLoginProofs`, `EapKeeperProofs` | theorems | the module they are about |

How state corresponds to the code:

* `xch` is the call the thread is blocked in, or its result: `st` is `wait`
  inside `recvfrom`, `got` or `failed` after the call returned; `sends` is
  `attempt + 1`. One `Begin` is the building of a packet and its first
  `sendto`; `Timeout` is a `recvfrom` that returns -1 and the resend that
  follows, if any; `IgnoreUnexpected` is the `continue` of the receive loop.
* A datagram is the record of the bytes the filters read (`first`, `second`,
  `sixth`, the pair at offsets 2 and 3 as `echo`, `len`), its sender, and what
  the caller copies out of it (`data`, `code`, `after`). `fresh` is a history
  variable: no guard reads it, properties do.
* `pc` is the place in `dogcom`; the header of `DhcpSession` lists its values.
* `seed`, `auth` and `session` identify the login by the seed it was made from.
  `session` is the one the server holds.
* `keepalive_rounds` and `login_failed_attempts` grow for ever in the code. The
  model counts them in the quotients `NextRounds` and `NextFailedLogins`;
  `ExchangeProofs` proves that every decision read from them is the same.
* `RetryAfter` has the loop of `extract_retry_after_seconds` as a recursive
  function: `Scan(text)[i]` is what `value`, `have_digits` and the result are
  after `i` bytes of the text. `RefusalTexts` are the texts it is compared on; a
  reply itself carries the number already read, as `after`.
* `WayOut`, `Patience` and `PartsLeft` are measures: what is left to do, in
  places of the loop (`PlacesToEnd`, `PlacesToFailure`, `WaitsHere`) and, within a
  call, in timeouts (`WaitLeft`). They are functions of the state; no guard reads
  them.

* In `TimedSession`, `call` is the `recvfrom` or the `sleep` the thread is
  blocked in, `left` the seconds until it returns by itself, `sends` is
  `attempt + 1`, `togo` the exchanges of the round still to be answered. Time
  passes only while the thread is blocked: `ClientTick` is one second, and no
  action lets it pass a moment when something is due. `elapsed`, `caught`,
  `faults` and `strays` are history; two guards read them: `Stray` its bound, and
  `LoginRefused`, since a server refuses a client whose session it holds only
  after something was lost.
* In `ServiceControl`, `script` is where the init script is (`poll` in the loop
  of ten one-second sleeps, `struck` in the sleep after the KILL), `portState`
  the status in `/tmp/drcom-port-state`, `procd` what procd does with the
  instance and `procdLeft` the seconds to its next move. Who has the port
  follows from `call` and `squatter`. A restart of the service is `Stop` and
  then one of the starts, with anything in between.
* In `ConfigParse`, `setting` is `drcom_config` and the globals that both the
  options and the file set, `explicit` is `config_explicit`, `at` the option or
  line read next. A text is a name; what its parser makes of it (its length, its
  lower case, its hex digits, its number, whether it is an address) is a constant.
  `Profiles` is `drcom_profile_defaults_for_name`.
* In `PppoeSession`, `number` and `counter` are the two packet counters modulo
  the modulus, `tries` is `try_counter`. A wait of `pppoeChallenge`,
  `pppoeLogin` or `notice` is a bare `recvfrom` and takes any datagram.
* In `LuciController`, `world` is what a snapshot would say now (process,
  autostart link, configuration file) and `cache` the stored snapshot with its
  age. One handler is one action: Lua runs each to its end.
* In `LuciConsole`, `refresh` says which of the two requests of `refreshAll` is
  out (`idle` is `refreshBusy = false`), `armed` whether the timeout of
  `refreshTimer` is pending, `followUps` how many 1.5 s timeouts are, `get` and
  `post` the requests in flight, `shown` and `logs` the last data rendered. A
  JavaScript callback is one action. `RenderForm` is `render_form` without an
  action the form offers; a service action posted to it does what
  `ServiceAction` does and is in `OtherPage`.
* In `EapLogin`, `pc` is the filter the process is in, `try` the `i` of the
  stage's loop, `late` whether more than TIMEOUT seconds have passed since the
  filter was entered, `last` is `recvbuff`, `sent` is `sendeap->id`. One
  `recvfrom` with the turn of the loop it ends, and the answer or repetition
  that follows, is one action; `Proceed`, `Refused`, `Ignored`, `Repeated` and
  `TriesExhausted` are its outcomes. A frame that is no EAP frame for this host
  is `other`, but the byte where an id would be is kept, because the next answer
  may be built from it. Such an answer is also addressed to that frame's sender;
  the model lets it reach the switch, or be lost.
* In `EapKeeper`, `role` says what each pid of the system is at the moment and
  `file` what the pid file holds. A child is `forked` until `eap_daemon` has
  killed the process of the file, `heir` until it has truncated the file,
  `writing` until it has written its pid, then `keeper`.

Assumptions the models make of what is outside the code:

* The server answers each request that reaches it, refuses any login it likes,
  may end a session at any time, and holds one session (one account).
* `rand()` does not repeat the two id bytes of a challenge that is still on its
  way, nor the id behind a session either side holds (`FreshNonces`).
* A stop of `DhcpSession` is procd's (`stop_service`): procd does not respawn
  after it. `ServiceControl` also has TERMs of others, which procd takes for a
  crash.
* procd starts a process only when the one before it is gone, respawns after
  five seconds, and kills `term_timeout` seconds after its TERM. A TERM ends the
  `sleep` or the `recvfrom` it finds (the kernel does not restart a `recvfrom`
  with `SO_RCVTIMEO`); one that arrives just before such a call ends nothing.
* Another program may take the port while the service is off, with or without a
  pid that can be seen, and give it up at any time. None takes it from procd while
  procd has the instance, nor while the script clears it. procd's limit on the
  number of respawns is left out: the model may always respawn.
* `usleep(200000)` between two packets takes no time.
* A line of the configuration is what one `fgets` of 256 bytes returns. The paths
  given with `-c` and `-l` can be resolved; there is memory for them.
* The switch answers in the order it is asked, numbers its questions, closes the
  port on a logoff, and may refuse, repeat a question, or ask at any time whether
  the host is there. Frames are lost but not reordered: it is one link.
* A pid file that exists can be opened, and no other program writes it. The
  children of two logins do not overlap (`Overlap = FALSE`): a login takes three
  round trips, a child a few system calls. With `Overlap = TRUE` TLC finds two
  keep-alive processes, one of which the file does not name.
* Autostart and the configuration are changed only through LuCI; the process may
  start or end on its own. The router's clock may be set back.

## 3. Runs

The runs of the client have deadlock checking off because the client does end,
and so has `config`; those of the page and of `EapKeeper` have it on; `EapLogin`
ends and has it off; in `ServiceControl` every script command may be given at any
time, but a client under a sleeping script may wait for nothing else, so it is off.
Nonces are symmetric where no liveness is checked.

| run | module | configuration | shows |
|---|---|---|---|
| `generic` | `MCDhcpSession` | generic profile, `-e`, `keepalive1_mod`, kills and respawns, in-order network that loses and duplicates | `TypeOK`, `AuthMatchesLogin`, `CleanLogoutReleases`, `StopExitReleases`, `FreshRoundReplies`, `TemplateAlternates`, `KeepsLifecycle` |
| `stop` | `MCDhcpSession` | JLU profile, no `-e`, strays, addresses that parse or not, all shapes of rejection, fairness | `AuthMatchesLogin`, `DelayHasCause`, `CooldownIsRead`, `StopIsHonoured`, `StopLeadsOut` |
| `keepalive1` | `MCDhcpSession` | as `generic`, without kills and `keepalive1_mod` | violates `FreshKeepalive1Replies`: see findings |
| `pppoe` | `PppoeSession` | PPPoE mode without `-e`, strays, in-order network without duplication, fairness | `TypeOK`, `FreshRoundReplies`, `StopIsHonoured`, `SilenceEndsTheClient`, `StopLeadsOut`, `SilenceIsCounted` |
| `control` | `ServiceControl` | scaled durations, losses, failing sends, one stray, another program on the port | `TypeOK`, `StopIsTimely`, `LeftBehindHasCause`, `KillHasCause`, `StateFileIsTrue`, `BindsSucceed`, `KillsOnlyTheWarned`, `KeepsLifecycle` |
| `grace` | `ServiceControl` | the durations of the code, nothing lost | violates `GracefulStop`: see findings |
| `config` | `MCConfigParse` | twelve command lines, files of up to three of 24 lines | `SettingsAsWritten`, `StartsIfSound` |
| `page` | `LuciConsole` | one page and the controller, failing requests, clock set back, fairness | `RefreshPending`, `PausedIsQuiet`, `CacheKeepsSettings`, `DisplaySettles` |
| `switch` | `EapLogin` | two interfaces, losses, an older keep-alive process, other traffic that never stops | `TypeOK`, `SuccessIsEarned`, `LoginEnds`, `LoginAdvances` |
| `quiet` | `EapLogin` | no other traffic is promised | violates `TimeoutsEnd`: see findings |
| `handover` | `EapKeeper` | four pids, logins, deaths and pid reuse at any point | `OneKeeper`, `FileNamesKeeper` |
| `reused` | `EapKeeper` | the same | violates `KillsOnlyKeepers`: see findings |

What the properties say:

* `AuthMatchesLogin`: the authentication data in use came from the login just
  sent. The login filter alone does not give this. On an in-order network the
  challenge before it does: whatever precedes the challenge's answer in the
  buffer is drained while waiting for that answer. The same argument is behind
  `CleanLogoutReleases`, and it is why the client asks for a challenge before a
  logout; the mutant `BlindLogout`, which does not, fails. With reordering
  neither holds; `StopExitReleases` and `KeepsLifecycle` do, and are proved for
  any network; the first two are proved for every network in order.
* `FreshRoundReplies`: the two packets that end every `keepalive_2` (`first` and
  `third`), without which no round is good, are answered only by replies to
  themselves, although counters recycle and restart at every login. The optional
  extra packet before them is left out, for of it the claim is false: its filter
  (`keepalive.c:449`) names the counter but no type, and a copy of `keepalive_1`'s
  answer passes. With `extra` among the kinds TLC finds that in `generic`, and the
  PPPoE counterpart in `pppoe` (see findings). For the two it needs the modulus to exceed what the rounds that may fail in a row use up: with
  `CounterModulus = 2` and `FailureThreshold = 2` TLC finds a stale reply, with
  3 and 2 none. The code has 255 and 6.
* `StopExitReleases`: after a stop the server keeps a session the client knew
  of only if the logout was tried to the end, or the session was given up.
* `DelayHasCause`: the static retry delay never carries an old cooldown.
* `TemplateAlternates`: from the fourth failure on, templates alternate.
* `KeepsLifecycle`: the client implements `ClientLifecycle`, under the mapping
  `Phase`, `Misses`. Both models of `dogcom` keep it, each with a mapping of its
  own: `DhcpSession`, where a session ends because of what a datagram says, and
  `ServiceControl`, where it ends because of when a signal comes. They are two
  refinements of one specification; the only difference is `OnCommand`: in
  `ServiceControl` a client that was asked to stop may be started again.
* `StopIsHonoured` (liveness): a requested stop ends the process.
* `StopLeadsOut`: how. After a stop every step of the thread and every wait that
  runs out lowers `WayOut`, and nothing raises it, a kill, a stray or a late
  answer included. A failed exchange is not begun again, a round is not followed
  by another, and the number of timeouts left is bounded by the place the stop
  came at. It needs no fairness. The mutants are a resend that is not counted and, in
  PPPoE mode, a login that is tried again on the spot.
* `CooldownIsRead`: what the loop of `extract_retry_after_seconds` returns for a
  text is the first number followed by a unit of seconds, if it is at most 1800.
* `StopIsTimely`: from TERM to exit pass at most one full round, the nap after it
  and a logout, and one wait more for each stray datagram; out of a sleep before
  a login, no more than that sleep. With the numbers of the code and both options
  that is 60 + 20 + 24 seconds.
* `LeftBehindHasCause`: a process that ends by itself leaves its session at the
  server only if something was lost, or a signal cut the wait for its login.
* `KillHasCause`: a client that slept when it was asked to stop is killed by
  procd or by the script only after a fault or a stray. Late answers and the
  TERM of the script use up less than three waits, nine of procd's ten seconds.
  (That a kill takes two faults would hold in a model with whole seconds only:
  three late answers and one wait that ran out may take twelve.)
* `KillsOnlyTheWarned`: the KILL of port recovery never meets a process that
  procd started after the TERM. The script looks at the port each second, and
  procd waits five; the mutant `PollsOnRegardless`, which does not look, fails.
* `BindsSucceed`: when procd is about to start the client nobody holds the port, no
  other program and no earlier client that still runs or is logging out. That a
  start waits for a client in its logout is `ensure_bind_port_available`; the mutant
  `StartFreeOfOthers`, which overlooks the service's own client, fails.
* `StateFileIsTrue`: the state file, which LuCI shows, says `free` or `recovered`
  exactly while procd has the instance.
* `SettingsAsWritten`: the client runs with what the file says last, over what
  the options say last; a profile fills its five fields exactly where the file
  has none, in whatever order they stand.
* `StartsIfSound`: it starts only when every option and every line was
  understood, and refuses only when one was not, or 802.1X failed.
* `FreshRoundReplies` of `PppoeSession`: challenge and login take any datagram
  and so fall behind the server; the two packets that end the `keepalive_2` that
  follows are filtered and, because `keepalive_counter` is not reset between
  sessions, not fooled. The extra packet, which is sent until a first round was
  good, is: a late 07 answer with its counter passes for its own. This
  needs a network that does not duplicate. With duplication a datagram sent once
  can feed every unfiltered wait while one request stays queued at the server
  for a whole cycle of the counter; for each modulus tried TLC finds it, with as
  many duplicates as the modulus (255 in the code).
* `SilenceEndsTheClient` (liveness): without `-e`, when nothing arrives any more,
  the client leaves the loop, although only failed challenges are counted.
* `SilenceIsCounted`: how. Without `-e` each step that takes no datagram lowers
  `Patience`: the tries left, then the calls to the next failed challenge, then
  the timeouts left in this one. A datagram that is taken may raise it, for a
  heard challenge leads into a login and a round that count nothing.
* `RefreshPending`: on a page that is watched and not paused something that ends
  in another refresh is always pending.
* `PausedIsQuiet`: the timer never runs on a page that is paused or hidden.
* `CacheKeepsSettings`: the cached snapshot agrees with the router in what only
  LuCI changes. Without the forced refresh of `service_action` it would serve the
  old autostart setting for three seconds.
* `DisplaySettles` (liveness): a page that stays watched ends up with the status
  and the logs of the service as it is. It is stated of the end only: on the way
  a late status reply may overwrite the answer to an action, the snapshot taken
  with an action may precede procd's work, and the follow-up may be dropped.
* `SuccessIsEarned`: when the login reports success the switch has the port
  open. `filte_success` reads a code and one id byte; that no stale success, no
  answer to the logoff and no answer meant for an older keep-alive process passes
  for it follows from the order of the three stages on one link.
* `LoginEnds` (liveness): with traffic that does not stop every stage uses up its
  tries, on the switch's interface and on the others.
* `LoginAdvances`: a step either leaves stage, interface, try and clock alone or
  lowers `PartsLeft`: no frame of the switch, of another host or of an earlier
  login takes a stage back or gives it a try more.
* `OneKeeper`: at most one process of ours is past the kill of `eap_daemon`.
* `FileNamesKeeper`: the file names every process that is in `eap_keep_alive`, so
  that the next login finds it.

### Bounds

* `RequestCap = 1`, `ReplyCap = 2` (1 in `stop`): a duplicate and an older
  reply can meet in the socket buffer, which is what every stale-datagram
  scenario needs. A full queue drops, which the network may do anyway.
* 5 nonces (4 with fairness): ids held by the session, by the authentication
  data and by three datagrams can all differ, so a fresh one always exists.
* `FailureThreshold = 2` for 6, `RetryCount = 1` for 3, `ExtraInterval` 1 or 2
  for 10, `CounterModulus = 3` for 255, `TryTimes = 2` for 5: each keeps the
  boundary it stands for (below, at, after), and the theorems hold for all
  values.
* `ServiceControl`: `control` scales the durations (`WaitSeconds = 2`,
  `RetryCount = 2`, `NapSeconds = 8`, `TermTimeout = Polls = 7`,
  `RespawnSeconds = 3`) and keeps their order: a wait is shorter than the
  respawn, that shorter than the two timeouts, an exchange that fails shorter and
  two longer than them, the nap longer. `FaultCap = 2` distinguishes none, one
  and more; `FailureThreshold = 2`, `MaxStrays = 1`, one round of three
  exchanges. `grace` has the values of the code, which `KillHasCause` and
  `StopIsTimely` were also checked with, one stray and no faults.
* `ConfigParse`: `FileLength = 3` holds a profile, an explicit key and a line that
  contradicts either, in every order. The theorems need no bound.
* `RetryAfter`: the texts of `MCDhcpSession` have up to five bytes of each kind
  the loop tells apart. The theorem is about every sequence of bytes.
* `PppoeSession`: `ReplyCap = 2`, `TryTimes = 2`, `CounterModulus = 3`, so the
  counter wraps within one behaviour. `FreshRoundReplies` was also checked with
  modulus 2 and 4, the liveness properties also with duplication.
* `LuciConsole`: `Ttl = 1` for three seconds: a cache that is fresh, at its limit
  and expired; `ClockSlack = 1` second back; two configurations;
  `MaxChanges = 2` actions, page loads or events and `MaxFollowUps = 2` let two
  actions meet in one refresh; `MaxFaults = 1` failed request at any point. The
  safety properties were also checked with `Ttl = 3`. The theorems need none of these
  bounds. `MaxChanges` makes the world quiet in the end, which `DisplaySettles`
  presumes.
* `EapLogin`: `IdModulus = 3` for 256 (the logoff id, and two that questions
  alternate with, so an old id recurs within one login), `TryTimes = 2` for 3
  (a first try, a last one), two interfaces with the switch at the first, so
  that its frames are still heard while the second is tried (the second as well was
  checked), queues of one or two frames: an old frame and a
  new one can be on their way at once. A full queue drops.
* `EapKeeper`: four pids hold two processes of ours and two others at a time; the
  theorems hold for any set.

### Fairness

`FairSpec` of `DhcpSession` and `PppoeSession` asks that the thread keeps running (`WF` of `ClientStep`) and that a
blocked `recvfrom` eventually times out (`WF` of `TimeoutStep`). `SO_RCVTIMEO`
is three seconds, so the second is what the code gets if the line is quiet for
that long at some point; a steady stream of datagrams is not excluded by the
code, and that hazard is listed as open. Nothing is asked of the network or of
the server: `StopIsHonoured` holds against a server that never answers.

`FairSpec` of `LuciConsole` asks that the browser runs callbacks and timeouts
that are due, that the controller answers a request that did not fail, and that
the router's clock advances (otherwise the cache would never expire). Clicks,
faults, other pages and changes of the service are not asked to happen.

`EapLogin` asks that the process runs, that time passes, that a frame in the
socket is received and that the switch handles what reaches it (`QuietSpec`).
`BusySpec` adds that there always is some frame on some interface, which a raw
socket of `ETH_P_ALL` hears; it is what `LoginEnds` needs, and what `quiet`
shows to be needed. Nothing keeps the link from losing every frame.

### Findings

**`keepalive1`.** `keepalive_1` (`keepalive.c:278, 322`) accepts any datagram of the server that
begins with 0x07. README.md:214 of the repository says stale packets are skipped
while waiting for a keepalive reply. Run `keepalive1` shows a round whose
`keepalive_1` is answered by a leftover of an earlier exchange. The extra exchange
of `keepalive_2` (`keepalive.c:441-473`) is a second instance: it asks for 07 and
the counter only, and accepts either type, so a second copy of `keepalive_1`'s answer
(counter byte 0) passes for the answer to the first extra packet of a session, and in
PPPoE mode a late answer to a challenge or a login does. The consequence is bounded:
`FreshRoundReplies` shows that the two packets that end the round are not fooled, so a
dead server is still noticed.

**`quiet`.** eapol.h:9 says a request is made again after TIMEOUT seconds. The
filters look at the clock between two `recvfrom` calls, and these have no timeout
(`eapol.c:117, 135, 170`). With no other traffic a lost request or a silent
switch leaves the login waiting for ever.

**`grace`.** `dogcom` reads the flag once per round (`auth.c:887`). A TERM during
a round lets it finish and `sleep(20)` begin; the signal is spent, so nothing ends
that sleep early, and procd kills the process after ten seconds
(`init.d/drcom:124`) without a logout. `scripts/tests/auth_static_smoke.py:46`
expects both logged-in stop exits to log out, and README.md:208 of the repository
builds on it. A TERM during the nap, which is most of the time, is answered at
once: `KillHasCause`.

**`reused`.** eapol.c:328 says the earlier keep-alive process is killed.
`eapol.c:342-345` kills whatever process has the pid now: another program after
the keep-alive process died, or the child itself.

## 4. Proofs

`tlapm` checks all theorems from the named assumptions on the constants and, where
a theorem states one, a hypothesis about what is outside the code: the network
(below) or the children of two logins (`EapKeeperProofs`).

* `DhcpSessionProofs!Invariance`: `IInv` is inductive. `TypeOK` alone is not:
  `tries` stays in range only because an attempt starts below `TryTimes`
  (`AttemptCounted`), `failures` only because the loop runs below the threshold
  (`BelowThreshold`). `DelayHasCause` needs that an attempt runs with the
  default delay (`DelayIsDefault`) and that nothing is received outside a call
  (`WaitsInCalls`). `StopExitReleases` needs that outside a session the client
  knows of none it has not given up (`NoSessionForgotten`). The step is proved
  one action at a time: `TypeStep`, `ControlStep`, `DelayStep`.
* `TypeCorrectness`, `DelaysHaveCauses`, `StopExitsRelease` follow from it.
* `Refinement`: `Spec => KeepsLifecycle`; `RefinementStep` names the abstract
  action of each step. `ServiceControlProofs!Refinement` proves the same of the
  timed client. Its mapping needs one more invariant, `NothingMissed`: in a nap no
  failure is counted, so that the round after it begins with none missed.
* `DhcpSessionProofs!StopsLeadOut` and `PppoeSessionProofs!StopsLeadOut` prove
  `StopLeadsOut` for every `RETRY_COUNT`, on any network, against any server.
  `WayOut` is lexicographic, a place first and then a timeout; `FewerPlaces` of
  `ExchangeProofs` says that a place fewer outweighs every wait, and
  `WaitShortens` that a wait only gets shorter. That no call is waited in which
  the place does not name is `WaitsInCalls` (`CallOfPlace` in PPPoE mode).
* `PppoeSessionProofs!SilenceCounts`: `SilenceIsCounted`. `ClientTurns` lists the
  ways from call to call; `LeadsToChallenge` and `TryIsWorthIt` are its two cases,
  the steps that count nothing and the failed challenge. The second needs
  `TriesLeft`: the loop runs only with a try left.
* `EapLoginProofs!LoginGoesForward`: `LoginAdvances`, for any number of interfaces
  and tries.
* `DhcpSessionProofs!ReadsCooldowns`: for every sequence of bytes the loop of
  `extract_retry_after_seconds` returns what `Cooldown` says without a loop;
  `CooldownsAreRead` is its form as an invariant. The induction the provers do not
  have is replaced by a least counterexample: a position at which the invariant of
  the loop (`ScanInv`) fails has a least one below it (`LeastNat`, from the
  library's `WFMin`), which is not 0 and not the successor of a good one. The
  value that stops growing at six digits is compared with the decimal value through
  the significant digits: four of them are exact, five are past 1800 anyway.
* `DhcpSessionProofs!TemplatesTakeTurns`: the action property
  `TemplateAlternates`, on any network. `TemplateInv` says which template was
  tried last at each place where the next may be chosen: the quotient of the
  failed logins determines it from the fourth failure on.
* `ExchangeProofs`: `RoundsQuotient` and `FailedLoginsQuotient`, the soundness of
  the two bounded counters; and the lemmas both sessions rest on: types of the
  queues, the datagrams and the calls, and the steps of the pipe below.
* `ServiceControlProofs!Invariance`: `OuterInv`, the
  conjunction of the client's `ClientInv` and of `ServiceInv`, is inductive.
  `StopIsTimely` becomes inductive when `elapsed` is bounded by what the thread
  can still have spent at the place it is in: `StopInv` adds, for each call, the
  longest time in that call (resends done, seconds gone) and the longest way out
  after it. `BindsSucceed` and `StateFileIsTrue` need that a squatter excludes an
  instance of procd, and a fork to come a client that runs; `KillsOnlyTheWarned`
  needs that, as long as the script waits for the client it warned, procd's respawn is further off than the
  script's next look at the port (`procdLeft > scriptLeft`). `TypeCorrect`,
  `StopBounded`, `BindsNeverFail`, `PortStateIsTrue` and `KillsAfterWarning`
  follow, for any durations; of the respawn timeout it is only assumed that it is
  longer than one second.
* `NothingLeftBehind` and `KillsHaveCauses` prove `LeftBehindHasCause` and
  `KillHasCause` by budgets. `SessionInv` counts, for a call of the logout, the
  attempts a signal cut short against the senders of TERM still to come
  (`Cut + OpenTerms <= 2`): the script and procd send one each, because a stop
  leaves procd no second and a recovery keeps the script busy until the client is
  gone. With two resends or more (`AttemptsAssumption`; the code has three) an
  attempt is left. `GraceInv` counts seconds: without a fault and a stray no wait
  runs out, so a logout spends at most a wait for the challenge, one for the
  answer, and one that the script's TERM cut. `GraceAssumption` says that three
  waits fit into procd's timeout and two into the script's loop.
* `EapLoginProofs`: `LoginTyped` and `SuccessEarned`. `LoginInv` says that a success
  on its way, or in `recvbuff`, was said of the port as it still is
  (`SuccessLasts`). That is kept because what would undo it, a logoff or a new
  start, never lies behind an answer to a challenge in the queue
  (`AnswersLast`), and because no success is on its way when a new login begins
  on the interface of the switch (`Unasked`).
* `ConfigParseProofs`: `RunsAsWritten` and `RefusesForCause`. The invariant says
  of the first `at - 1` options, then of the first `at - 1` lines, what
  `SettingsAsWritten` says of all of them, and that `explicit` holds exactly the
  profile's keys among those lines.
* `LuciConsoleProofs!Invariance`: `IInv` of `LuciConsole` is inductive.
  `RefreshPending` needs that a running timer has a watched page
  (`PausedIsQuiet`), and the types need that an action under way has room for its
  follow-up (`ControlsHeld`). `RefreshNeverStalls`, `PauseHolds` and
  `CacheFollowsActions` follow.
* `EapKeeperProofs`: `KeepersAreAlone` and `FileFindsKeeper` prove `OneKeeper` and
  `FileNamesKeeper` for any set of pids, assuming `~ Overlap`. `OneKeeper` is not
  inductive: a child becomes the heir beside a keeper only if the file does not
  name it (`FileNamesKeeper`), and that survives the truncation of the file only
  because one child is at work at a time (`OneChild`). `IInv` of `EapKeeper` is
  their conjunction.

### The order of the datagrams

Four theorems say which answers are never mistaken for others on a network that keeps
datagrams in order (`~ Reorders`; it may lose them). They share one idea.
The two queues are a pipe: requests on one side, what the server made of them on
the other. `Fifo` says that what is fresh lies behind what is not. An exchange
whose filter names its request (the random bytes of a challenge, the counter and
step of a `keepalive_2`) has, when it begins, nothing in the pipe that looks like
it (`NothingLike`); from then on its own request and answer are exactly the fresh
ones (`Distinct`), so once the answer is out, everything older has left the pipe
before it (`Cleared`). `PipeInv` is the conjunction, for a set of exchanges.

* `AuthIsOurs` and `CleanLogouts` (`OrderInv` of `DhcpOrder`): for challenges
  `NothingLike` is `FreshNonces`. After the challenge the pipe holds nothing old,
  so the one login in it is ours, what accepts it says so (`AcceptsAreOurs`), and
  the server has this session or none (`SessionIsOurs`); likewise for a logout
  (`LogoutIsAnswered`). Duplication, kills and respawns do not matter.
* `DhcpSessionProofs!RoundRepliesAreFresh` (`RoundInv` of `DhcpOrder`): for the
  two last packets of a `keepalive_2` (`Beats`) `NothingLike` has to come from the
  counter. A failed round leaves
  packets behind, of at most two more numbers than the round before it, and what
  was there before the first failed one was cleared away, by the last answered
  `keepalive_2` or by the challenge of the login: `WindowKept`. Hence the hypothesis
  `Turns`, `2 * FailureThreshold <= CounterModulus` (12 and 255 in the code). It
  is sufficient, not necessary: `generic` has 4 and 3, and TLC finds no
  stale reply there. `RoundInv` itself was checked by TLC with modulus 4.
* `PppoeSessionProofs!RoundRepliesAreFresh` (`RoundInv` of `PppoeOrder`): nothing
  counts the failed rounds of PPPoE mode and nothing resets the counter, so no
  window bounds how old a packet may be. What bounds it is the way: a round
  begins only after an answer to a challenge and one to a login, and taking an
  answer takes a datagram out of the pipe, so each number a packet takes is paid
  for by a place that everything older has moved ahead (`Paid`, `Earned`,
  `Due`). A packet as old as a whole cycle of the counter would have left the
  pipe. This needs that the network does not duplicate, since a duplicate is a
  place earned for nothing (section 3), and `Places <= CounterModulus`: no more
  than 255 datagrams on their way and in the socket buffer at once. That is an
  assumption about the network which no line of the code enforces. The client
  sends one datagram per wait. A wait that is answered takes one out of the pipe,
  so the pipe grows only by waits that are not, of three seconds each: a longer
  one would hold datagrams older than ten minutes. The `pppoe` run meets it with
  3 and 3; it is sufficient only, since with modulus 2 TLC finds nothing either.

Only model-checked: `StopIsHonoured`, `SilenceEndsTheClient`, `LoginEnds` and
`DisplaySettles`, since liveness under fairness is out of the prover's reach. What
the first three rest on is proved: the measures of `StopLeadsOut`,
`SilenceIsCounted` and `LoginAdvances` are natural numbers that only fall. Left to
TLC is that, as long as the measure is not 0, a step that lowers it is enabled and
by fairness taken. `DisplaySettles` has no such measure in the project. Every other
property of a passing run is the statement of a theorem.

## 5. Not modelled

* The daemon: `-d` forks twice and writes two pid files before the session starts;
  the packaged service does not pass it, and nothing reads the files.
* Of the configuration: what a parser finds in one text (digits of hex forms,
  quotes, blanks) is a constant; a line longer than 255 bytes, which `fgets`
  hands over in pieces, is so many lines.
* Of 802.1X: the ten-second rule of `eap_keep_alive` (it needs time; `EapLogin`
  lets a keep-alive process answer or stay silent), a stop during the login,
  `eaplogoff` and `eaprefresh`, which nothing calls.
* Of LuCI: the analysis of the log and of the port's owners, the feedback line,
  the network panel, translations. They are functions of text.
* Time in `DhcpSession`, `PppoeSession` and `EapLogin`: a timeout may come at any
  moment of a wait, a sleep may end at any moment. `TimedSession` has the seconds,
  and abstracts the datagrams instead; the two are not composed. Other failures
  of `dogcom` before its loop (`socket`, `setsockopt`) are left out.
* Packet contents, logging, messages, `WIN32` and `TEST` builds.

## 6. Plan

Each module with its runs and mutants, in this order.

1. Done: `RetryPolicy`, `UdpExchange`, `Keepalive`, `AuthServer`, `DhcpSession`,
   `ClientLifecycle` and their proofs; `PppoeSession`; `LuciController`,
   `LuciConsole` and its proofs; `EapLogin`; `EapKeeper` and its proofs;
   `RetryAfter`; `ConfigParse` and its proofs; `TimedSession`, `ServiceControl` and
   their proofs.
2. Done: the order invariants behind `AuthMatchesLogin`, `CleanLogoutReleases` and
   both `FreshRoundReplies`; `TemplateAlternates`; the types of `PppoeSession`; the
   types and `SuccessIsEarned` of `EapLogin`.
3. Done: the measures behind `StopIsHonoured`, `SilenceEndsTheClient` and
   `LoginEnds`; `extract_retry_after_seconds` for every text; `ClientLifecycle` as
   the common abstraction of `DhcpSession` and `ServiceControl`.
4. Open: a measure for `DisplaySettles` (callbacks out, seconds to the end of the
   cache, follow-ups).
5. Open: the clock of `eap_keep_alive`, with its ten-second rule.
6. Open: a model with datagrams and seconds at once. `DhcpSession` and
   `TimedSession` keep one promise, but neither implements the other.
