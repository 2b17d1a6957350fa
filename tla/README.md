# Verification of the MatchPatch overrides

MatchPatch holds C++ overrides of Chromium. A file below `src/chromium_src/`
redefines names with the preprocessor, includes the upstream file of the same
path and adds or replaces functions. The upstream files are not in the
repository. What an override calls, and what calls it, is modelled from the way
the override uses it; the map marks such definitions *external*. The Markdown
files beside the sources describe matches and patches and are documents, not
code; `src/main.py` has no logic.

Every module here is translated from the sources. One action stands for one
operation with everything it calls, a critical section is one action, and the
place where a thread or a callback can come in between is the boundary of two
actions.

## 1. Inventory

Most overrides are wording, layout, tables of constants or a call that is
replaced by nothing. The parts below keep state or take decisions of their own.

| Component | State | Operations | Works with | What is hard | Correct when | Status |
|---|---|---|---|---|---|---|
| SOCKS5 authentication (`net/socket/socks5_client_socket.*`) | two nested state machines, the message buffer and its rest | Connect, DoAuth, Authenticate, callbacks of the transport, Disconnect | upstream's DoLoop, transport socket, proxy | partial and pending reads and writes, errors in the middle, a closed stream | the proxy receives the message unchanged, credentials leave only on request, no tunnel without an accepted answer | modelled, proved |
| Update check (`components/update_client/update_checker.*`) | queue of ids, request in flight, results, callback | CheckForUpdates, CheckNext, UpdateResultAvailable | upstream UpdateChecker | order of the ids, error of one request of several | a Google component is asked for alone, each id once, the caller gets one outcome | modelled, proved |
| Cookie decisions (`components/content_settings/core/common/cookie_settings_base.*`) | none of its own: rules of the user, preference, features | IsFullCookieAccessAllowed, ShouldUseEphemeralStorage, IsEphemeralCookieAccessAllowed | called by the next two | two lookups of the main frame that need not agree, explicit rules, Shields down recognised by a pattern, hosts without a registrable domain | persistent and ephemeral storage exclude each other, and a stricter preference grants nothing, but for the exceptions that can be named | modelled, proved |
| Cookie jars (`net/cookies/cookie_monster.*`, `cookie_options.*`, `services/network/cookie_settings.*`) | the persistent store, one ephemeral store per top-frame domain | set, read, four kinds of deletion, deletion of a domain | decisions above; pages of all sites | settings change during a read, deletions must reach all jars | no identifier goes from one top frame to another | partly modelled, proved |
| Storage origins (`components/content_settings/core/browser/cookie_settings.*`) | map (domain, origin) to opaque origin, under a lock | ShouldUseEphemeralStorage, TakeEphemeralStorageOpaqueOrigins, ShutdownOnUIThread | decisions above; several threads; clean-up of closed pages | decision outside the lock, insert inside it | one origin per pair, none lost, none cleared twice | modelled, proved |
| Device list (`components/sync_device_info/`) | device list and its store, calls being retried, token pref | DeleteDeviceInfo, OnDeviceInfoDeleted, refresh, sync changes, loading | change processor, server, other clients, posted tasks | retries, tombstones of oneself, uploads that add oneself again, lost acknowledgements, restarts | a client that was deleted stays out, the list settles on what the server has, retries end, hidden devices return | modelled, partly proved |
| Partitioned HSTS (`net/http/transport_security_state.*`) | HSTS map with a partition per entry | add, ask, delete for a host, clear | network requests, persister, disk | each call has to set the right partition; deletions and notification in two implementations | nothing learned below one site is used below another | modelled, proved |
| Tab focus (`chrome/browser/ui/webui/tab_search/`, `chrome/browser/resources/tab_search/auto_tab_groups/`) | handler: what an undo needs; page: topic to undo, error, loading | GetFocusTabs and its answer, UndoFocusTabs, GetSuggestedTopics, the clicks of the page | asynchronous assistant, windows of the user, one message pipe | overlapping requests, tabs moved or closed meanwhile, page and handler each keep whether there is something to undo | an undo restores what the move took, and is offered as long as it can | partly modelled, partly proved |
| Connection pools (`third_party/blink/renderer/modules/eventsource`, `websockets`) | the in-use tracker of each source and channel | connect, reconnect, fail, close, tear down, dispose | a pool per kind with a limit; garbage collection | a reconnect at the limit, failures that are final or not, lost contexts | never more restricted connections than the limit, a place as long as a connection | modelled, proved |
| Permission requests (`components/permissions/permission_request_manager.*`) | none of its own: upstream keeps the queue | a predicate that groups wallet requests, AcceptDenyCancel | upstream manager, dialogs outside the repository | partial decisions of one prompt | each sub-request is decided once | not modelled |
| Component registration (`components/component_updater/`) | none of its own: upstream keeps the components | EnsureInstalled, OnDemandUpdate | upstream service | one unregistered id refuses the whole list | each call gets one answer | not modelled |
| Upgrade at startup (`chrome/browser/first_run/upgrade_util_win.cc`) | time-out kept in the registry, rename process | InvokeGoogleUpdateForRename | COM object on a pool thread, elevated process, restarts | a late object, a kill before the time-out is written, a rename that outlives the browser | few waits in vain, the rename happens some day | modelled, proved |
| Differential updates (`chrome/installer/mini_installer`, `setup/unpack_archive.cc`, `setup/install_worker.cc`, `util/google_update_settings.cc`) | `-full` suffix of "ap", kept chrome.7z, archive type of a run | SetInstallerFlags, PatchSetup, UnpackChromeArchive, work items, UpdateInstallStatus | update server, other installers, the registry | failure or kill of any step, archive that is gone, refused writes | the next package fits what the last run left; the browser gets up to date even if no patch can be applied | partly modelled, proved |
| Small decisions (secure DNS with the VPN, feature defaults, host and port with credentials) | none or a table | lookups, parsing, formatting | configuration readers | several overrides of one value that must agree | parse after format gives the input | not modelled |
| Worker settings, omnibox, context menu, sync engine, update status, region and search engines, fingerprinting defences, privacy removals, browser chrome, profiles and importers, mobile shells, preload list generator, install modes, loose copies | see `PROJECT.json` | | | little or no state of their own, or all of it upstream | | not modelled |

How they interact: the cookie decisions are shared by the jars and by the
storage origins, which both `EXTENDS CookieAccess`, so that the user's rules
change between any two of their steps. The tab focus page talks to its handler
through a message pipe (`TabFocusPage` extends `TabFocus`). The two kinds of
connection share the setting that restricts their pools. The differential
updates and the rename at startup are two parts of one upgrade: the installer
leaves a new executable, the next start puts it in place; they share no state
that either of them reads. The SOCKS socket, the device list, the update checker
and the HSTS map are driven by upstream code only.

`PROJECT.json` lists the hazards found on this survey, each at its line, with
the properties that cover it. Noted further, of parts without a model or of
behaviour that no text of the repository settles:

- `install_worker.cc:138` writes that the VPN services were removed when the work
  items are collected, before the item that removes them runs or fails;
- `device_info_sync_bridge.cc:26-28` clears the progress token in memory and stores
  at once that this is done: after a restart before the download the hidden
  devices are not listed;
- `device_info_sync_bridge.cc:94-101` removes the record and the metadata of the
  deleted device from the store before the server knows. After a crash nobody
  tells the server about the deletion, and a client that was deleting itself
  finds a store without its own record, which upstream takes for corrupt: it
  starts clean and joins the chain again;
- `cookie_settings_base.cc:43-48` compares `GetDomainAndRegistry` of two urls, which
  is empty for IP addresses and for localhost: two such hosts are one party to
  `BraveIsAllowedThirdParty`, while `SameDomainOrHost` (`:105`) tells them apart;
- `cookie_settings_base.cc:198-223`: below a session-only main frame, once third
  parties are blocked, an entity pair (the rule of the url may even block it), two
  hosts without a registrable domain, and the page's own site in a frame without
  a `site_for_cookies` get persistent storage, because this branch does not look at
  the mode;
- `cookie_settings_base.cc:178-180` looks the main frame up with the `site_for_cookies`
  of the request. Below a frame of another site it is null, so with third parties
  blocked a session-only main frame is answered as a refused third party and its
  mode is not seen: a url with an allow rule of its own has persistent storage
  there, while the comment at `:199-200` speaks of blocking all non
  ephemeral-supported activities (the second case of `EphemeralExcludesFull`);
- `services/network/cookie_settings.cc:17-37` goes on to upstream when ephemeral
  access is refused. With first-party ephemeral storage and without ephemeral
  storage itself, a session-only page so gets persistent cookies that
  `IsFullCookieAccessAllowed` refuses;
- an event source whose context is destroyed keeps its tracker until it is
  collected, which may be as late as the last reference another page holds;
- `update_checker.cc`: consecutive Brave components share one request, the class
  comment speaks of one for each;
- `socks5_client_socket.cc:130`: lengths are cut to one byte.

## 2. Modules

| Module | Models | State and actions |
|---|---|---|
| `SocksAuth` | `SOCKS5ClientSocket::DoAuth`, `SOCKS5ClientSocketAuth` and the greeting macros | `next_state`, `auth_state`, `buffer`, `left`, `rv` as in the code; `ctl` says whether a DoLoop is on the stack or waits. One action per case of the loops, two callbacks, Disconnect |
| `UpdateChecker` | `SequentialUpdateChecker` | `remaining` is `remaining_ids_`, `in_flight` the request given to `update_checker_`; `requests` and `answered` are history. The stable partition is given by the place each id ends up at, so that it can be reasoned about without recursion |
| `CookieAccess` | `CookieSettingsBase` overrides | operators with the names of the functions; the rule map as three functions (own rule of a site, rule of a top site, default); actions are the user's edits |
| `EphemeralCookies` | `CookieMonster` | `main`, `stores` (one jar per domain), `pending` read; SetCanonicalCookie, GetCookieList and its answer, all deletions, edits |
| `EphemeralOrigins` | `CookieSettings` (browser) | `origins` as a function of functions; per thread `call`: decided but not yet in the critical section |
| `OriginMemory` | what the map of opaque origins promises | `live`, `given`, `spent`; Give, CleanUp. The abstract specification of `EphemeralOrigins` |
| `DeviceInfoBridge` | `DeviceInfoSyncBridge`, `device_info_prefs` | `all_data`, `calls` with attempt and state, what is on disk and in memory of the progress token; `uploading` and `unsynced` what waits for the server; server and other clients as an environment; `gone` is history |
| `PartitionedHSTS` | `TransportSecurityState` | `sts` a set of entries with their partition, `dirty` and `disk` for the persister |
| `TabFocus` | `TabSearchPageHandler` | `strip` the tabs per window, `record` is `original_tabs_info_by_window_`, `asked` the open questions to the assistant, answered in any order; `moves` and `disturbed` are history. `Move` detaches and inserts as TabStripModel does |
| `TabFocusPage` | `auto_tab_groups_page.ts` with its template, over `TabFocus` | `undoTopic`, `errorMessage`, `needsPremium`, `isLoadingTopics` as in the page; `calls` and `replies` are the pipe |
| `ConnectionPool` | `EventSource`, `WebSocketChannelImpl` overrides | `source`, `socket` states of upstream as far as the overrides see them, `tracker` and `sockTracker` the trackers that are set; one action per override and per upstream step that reaches one |
| `RenameAtStartup` | `InvokeGoogleUpdateForRenameBrave` and the launcher | `pc` of the main thread, `saved` the registry value, `delay` of the COM object, `mine` and `orphan` rename processes |
| `DeltaUpdate` | mini installer, `UnpackChromeArchive`, work items, `UpdateGoogleUpdateApKey` | `full` the suffix, `archive` the version whose chrome.7z is kept, `phase`, `package`, `type` and `result` of the run |

`MC*` modules give the constants their values; `*Proofs` modules hold the
theorems, one for each component, except that `EphemeralCookiesProofs` also has
those of `CookieAccess`, which `EphemeralCookies` extends, and `RestartProofs`
those of `DeltaUpdate`, `RenameAtStartup` and `DeviceInfoBridge`. The last two
have names of their own for their specifications (`StartupSpec`, `DevicesSpec`)
so that one module can extend all three. Definitions whose name begins with `Mut` are what plausible mistakes
in the code would look like: with one of them in place of the definition below
it, the property named with it in `PROJECT.json` fails.

Abstractions. A url, an origin and a top frame are their registrable domain, or
their host where it has none (HSTS keeps host and scheme, which its partition
depends on). A partition hash
stands for what is hashed, so collisions are left out. A cookie has a host and
no name of its own: two cookies of a host replace each other. The content of a
device record is left out, "the record differs" is a flag; so is the pulse that
uploads it once a day. A caller that stops sync after its callback is not followed
further. Error codes are one
error. Tab focus: a window's session id is its number, and the windows are
visited in that order. Connections: what travels over them is left out.
Differential updates: a version is a number, an archive is the version it
holds; a package is what its parts are, not their bytes. An archive given by hand is
taken to be named chrome.7z (`install_worker.cc:195` keeps the name it has).

## 3. Runs

| Run | Question | Bounds |
|---|---|---|
| `socks_auth` | every split and order of synchronous and pending reads and writes, every answer, a cancellation at any wait | six endpoints; bytes 0..3, so that the name of four characters overflows its length byte; both answer bytes free |
| `socks_auth_bad` (violation) | is Authenticate never called in STATE_BAD? | as above |
| `update_checker` | every list in every order, every answer to every request | two Brave and two Google ids: both kinds of batch, before and after each other |
| `cookie_access` | every rule, default, feature and preference; every request | four sites: the two of an entity pair, a host of the local network and a page of a trusted scheme, the last two without a registrable domain, so that each clause has an instance and a counter-instance |
| `ephemeral_cookies` | sets, reads, deletions and edits in every order | two sites, each the top frame of the other and of itself; two cookies: one that is set and one it meets; one read outstanding; first-party ephemeral storage, with ephemeral storage itself and without it |
| `ephemeral_origins` | two threads, takes, edits and shutdowns in every order | two sites, two threads, three opaque origins: two may race and one may follow a take |
| `device_info` | deletions with retries against uploads and deletions here and elsewhere, lost acknowledgements and a restart at any moment | this client and one other, two deletions (of one client or two), a limit of three attempts instead of five (a first, a middle and a last one; the proof is for any), one restart |
| `partitioned_hsts` | adding, asking, deleting, writing, and restarts that may switch the feature | two sites, one with a subdomain and one without a registrable domain; secure, insecure, opaque top frames and none; two entries, enough for one that decides and one it is confused with |
| `tab_focus` | requests, answers, undos, errors and edits in every order | four tabs in windows of three and of one, so that a move may take several tabs of a window or close it; two requests of either kind, two open calls: two may overlap; answers of up to two ids, repeated and unknown ones among them; one edit |
| `connection_pool` | connecting, reconnecting, failing, closing, a lost context, changes of the setting | three sources for two places, so that a reconnect meets the limit with and without its own place in it; two channels for one: one that holds and one that is refused |
| `rename_at_startup` | starts, exits and kills while the object is slow and rename processes outlive their browser | a delay of up to three increments, so that two waits may fail, and two kills, so that a new time-out may be lost twice |
| `delta_update` | full and differential packages, every failure and kill | three releases: a failed one, its replacement and the next; one run of setup.exe by hand with any switches |

Symmetry is used only where safety alone is checked and nothing tells the sites,
threads, sources or channels apart. Deadlock is checked except where the system may
stop: a finished, closed or crashed socket (`socks_auth`), a finished check
(`update_checker`), a page whose bounded requests and edits are used up
(`tab_focus`), a browser that is renamed (`rename_at_startup`) and one that is up
to date with the last release (`delta_update`).

### What the passing runs show

*SOCKS.* However the transport splits and delays the message, the proxy has a
prefix of it, and all of it before the client reads (`WireIsMessagePrefix`).
The tunnel starts only after an accepted answer (`TunnelOnlyIfAuthenticated`),
no byte of the credentials leaves before the proxy selected the method
(`CredentialsOnlyOnRequest`), and what it decodes is what the user has as long
as the lengths fit (`ProxyReadsCredentials`). The loop returns or waits
(`LoopYields`) as long as the stream is open: a read of 0 bytes is taken for
progress, so on a stream the proxy closed in the sub-negotiation the loop goes
round for ever. The model has that behaviour; no text of the repository says
otherwise, so it is recorded as a hazard.

*Update check.* A Google component is alone in its request
(`GoogleAskedAlone`), which takes the partition of the list and the scan of
`CheckNext` together; each id is asked for once; success is reported only with
every result; every check ends.

*Cookies.* All requests are checked. A request that must use ephemeral storage is
let into the persistent jar in two cases only (`EphemeralExcludesFull`): upstream
refuses a host that the code takes for the page's own party (an entity pair, or
two hosts without a registrable domain), or it comes from a frame below another
site, without a `site_for_cookies`, while third parties are blocked. Persistent
access of a third party has one of four reasons, the last of which is being taken
for the page's own party (`ThirdPartyNeedsReason`). Blocking third parties grants
nothing except below a session-only page, to the two kinds of request just named
(`BlockingNeverGrants`).
In the jars, identifiers stay where they were set (`JarsKeptApart`,
`NoLinkAcrossTopFrames`), deletions reach every jar (`DeletedEverywhere`) and
persistent cookies are handed out only with full access unless the user edits
the rules while a read is outstanding (`PersistentNeedsFullAccess`, with ephemeral
storage on; with such an
edit, cookies of the persistent store may reach a request that is by then
confined to ephemeral storage).

*Origins.* One opaque origin per pair and one pair per opaque origin
(`IsOriginMemory`, `OneUsePerOpaqueOrigin`), none lost to a race with a Take
(`HandedIsTracked`), none taken twice (`TakenOnce`). A call that decided before
a Take may insert after it: that entry waits for the next Take of its domain.

*Devices.* Every callback runs, after no more attempts than the limit
(`CallbackEventuallyRuns`). A client that knows it was deleted is put back neither
in its list nor on the server until it is restarted (`GoneForGood`): the refresh of
its device info is what would do it, since it uploads. Once the chain is left
alone and what this client did is acknowledged, its list is the server's
(`ListSettles`), and hidden devices return (`HiddenDevicesReturnInOneRun`), both in a
browser that is not restarted.

*HSTS.* What is upgraded below a top frame changes only through its own site or
the user (`OnlyOwnTopFrame`), a page is upgraded on the next visit
(`PageIsUpgraded`), deletions reach all partitions (`DeletedEverywhere`, with
the feature on).

*Tab focus.* What a move records is what it does, for any answer
(`MoveMatchesRecord`). An undo with nothing in between leaves every window that
is still open as it was, which needs the ascending order of the insertions
(`UndoRestores`); with anything in between it brings each tab that exists to a
window it was recorded for, if one is open (`UndoBringsBack`). Whenever nothing
is open between page and handler, a record in the handler is offered for undo by
the page (`UndoIsOffered`), and the page waits for topics exactly while one
request for them is open (`LoadingIsAsked`). Known of the model, and stated by no
property: two requests in flight are undone together although the interface
speaks of "the last focused tabs action"; a window the move emptied is not
opened again; the empty topic hides the button; the answer of one request that
crosses the next shows a button whose record is empty until the second answer
comes; the button of the premium message stays with a later error of another
kind.

*Connections.* The sources, and the channels, that connected under the
restriction are never more than the limit at a time (`ConnectionsAreBounded`). What
`ResourcePoolLimiter` counts are trackers; the property is about connections, and
needs that each of them has passed by the pool, that a refusal ends the attempt and
that no tracker is given back under a connection. A source holds a place as long
as it may be connected and no longer (`PlacesFollowSources`). At the limit a source
that reconnects is refused although it holds a place: the new tracker is asked for
before the old one is released.

*Rename at startup.* The time-out that is kept outgrows the delay, so that the
waits that end in vain are no more than the increments in the longest delay and
one for each kill (`FewTimeouts`), and the new executable gets into place
(`EventuallyRenamed`).

*Differential updates.* A differential package that failed, or was killed, is
followed by a full one, and a success leaves the archive the next patch needs
(`NextPackageFits`, as long as the registry does not refuse the write). The
browser reaches the last release even if no patch ever applies
(`EventuallyUpdated`): a run whose type is unknown leaves the suffix as it is.

### Findings

1. `socks_auth_bad`: after an error `DoAuth` leaves `next_state_` at
   `STATE_AUTH`, so the loop calls `Authenticate` again in `STATE_BAD`, which is
   `NOTREACHED()`; the comment there says "Caller had better stop here.".

### Fairness

`SocksAuth`: a DoLoop on the stack runs on, it is a plain loop. Nothing is
assumed of the transport. `UpdateChecker`: upstream's checker answers each
request once and the task runner runs what is posted. `DeviceInfoBridge`: the
task runner runs the posted `OnDeviceInfoDeleted`, and the sync engine, once
online, applies the records and tombstones the server holds. Nothing is assumed
of acknowledgements, of other clients, of the user, or of the writing of prefs:
`ListSettles` has the first two in its premise. `RenameAtStartup`:
the user keeps starting and leaving the browser and its main thread runs;
strongly fair are the steps that can succeed, since a start that fails ends
before it can try again. `DeltaUpdate`: releases and checks go on, an installer
that runs goes on, the registry takes the suffix now and then, and a full package
can be launched, unpacked and installed now and then; nothing is assumed of a
differential package, nor of kills and other installers, which may come at any
time. The other modules have safety properties only.

### Refinement

`EphemeralOrigins` implements `OriginMemory`, with the entries of the two-level map
as `live`, the answers as `given`, and what a Take returned or the shutdown dropped
as `spent`: a critical section that finds or derives is Give, a Take is CleanUp of
one page, the shutdown CleanUp of all; a decision and an edit are stutters. Give
demands a new identifier where the pair has none and the one in use where it has,
so the mapping would fail if a race gave a pair two, or a second pair the same one.

## 4. Proofs

All proofs hold for every value of the constants that the named assumptions of
the modules allow.

`SocksAuthProofs`: `TypeCorrect`, `WireIntegrity`, `TunnelAuthenticated`,
`CredentialsRequested`, `CredentialsArriveIntact`, for every set of credentials,
every alphabet and every byte width above two. The property about the wire is not
inductive: that the next bytes handed over continue the prefix depends on
`buffer` being the message and `left` the number of bytes missing. `IInv` adds
this (`WriteInv`), the same for the answer (`ReadInv`: read bytes plus `left`
make two), and the link between the two state machines (`ControlInv`: past the
greeting the method was agreed; a tunnel has an accepted answer).
`SuffixExtendsPrefix` is the lemma on sequences the write steps rest on.
`CredentialsArriveIntact` joins `WriteInv` with `MessageDecodes`: the two lengths
in the message, when they fit a byte, are where the name and the password begin
and end.

`UpdateCheckerProofs`: `GoogleIsAlone`, `NothingAskedTwice`,
`SuccessMeansComplete` and `TypeCorrect`, for any finite set of components and
any list of them. None of the three is inductive, since the requests still to
come are cut from the queue: `QueueInv` adds that the queue has no id twice, none
that was asked for, and Brave's ids first; `ProgressInv` that the ids asked for
and those in the queue are the caller's list while the check runs. Two facts about the
operators carry the steps: `BraveFirstIsStablePartition` (the partition is a
permutation of the list, Brave's ids first, each vendor's in their order) and
`BatchSizeIsRightful` (a request is never empty and is either the first id or a
run of Brave's ids), which together give `GoogleIsAlone`.

`EphemeralCookiesProofs`, of the decisions: `OneJarForEachRequest`,
`ThirdPartyHasReason`, the action property `BlockingGrantsLittle` and
`SettingsTypeCorrect`, for any sites, hosts without a registrable domain, rules,
entity list and trusted schemes, and for every request. The first two need no
history: they hold of any rules, known or not. A request with a `site_for_cookies`
has its main frame looked up as a first party both times (`MainFrameIsFirstParty`),
so the mode of a session-only page is seen (`SessionOnlyModeIsSeen`); what is left is
the second half of `IsFullCookieAccessAllowed`, which opens to the parties of
`OneParty` and to requests without a `site_for_cookies` (`SecondLook`,
`LookupsDisagree`). `BlockingGrantsLittle` follows the one thing the preference
changes, the upstream decision about the url itself, and shows that what it newly
opens was refused by the mode or was ephemeral (`RefusedByMode`,
`RefusedIsEphemeral`).

Of the jars: `JarsStayApart`, `DeletionsReachEveryJar`, `TopFramesAreNotLinked`,
`PersistentOnlyWithFullAccess` and `TypeCorrect`, for any number of cookies as well.
`DeletedEverywhere` needs that an id is never used again (`IdsInv`), and for the
deletion of one domain that its cookies are in one store only, which is
`JarsKeptApart`. What a read hands over was collected earlier, under other rules
perhaps: `PendingInv` says of the read outstanding that its cookies are persistent
ones of the request's host and that, unless the rules were edited since, the
request still is one for the persistent store.

`EphemeralOriginsProofs`: `NeverShared`, `NeverLost`, `NeverTakenTwice`,
`Stable`, for any sites, threads, rules, and number of origins. The proof
speaks of the map as the set of its `Entries`; `InsertEntries` and
`WithoutEntries` say what the two writes do to that set. `OInv` adds to the three
properties that what was handed, taken or stored has been derived (`Derived`),
so a new origin is fresh, and that an entry of the map was handed for its pair
and is not taken (`Live`). `Stable` is a consequence of the others:
two origins of a pair that were neither taken nor dropped are both in the map,
which holds one per pair (`OnePerPair`). `ActsAsOneMemory` is the refinement of
`OriginMemory`, one lemma for each kind of step: `OInv` gives the freshness that Give
demands and says which identifiers a Take spends, `TypeCorrect` (the whole type
invariant, proved too) that a pending call is about known sites.

`PartitionedHSTSProofs`: `TypeCorrect` (nothing in the invalid partition, one
entry per host and partition), `NothingUnsaved`, and the
action properties `TopFramesIsolated`, `PageTeachesItself` and
`DeletionReachesDisk`, for any hosts, superdomains, registrable
domains and top frames. The isolation theorem rests on `SameEntries` (what is
upgraded in a partition depends on the entries of that partition only) and
`SamePartition` (two top frames share a valid partition only if they are of one
site), with the invariant `HInv` for the entries.
`PageTeachesItself` rests on `PagePartition` (a page has the same partition over
http and https, and it is the host-bound one) and `OwnEntryDecides` (an entry of
the host itself is the one looked at first). `DeletionReachesDisk` rests on
`NothingUnsaved`: the deletion is in the map, and a map that is not on the disk
yet has its notification outstanding.

`ConnectionPoolProofs`: `NeverAboveLimit`, `PlacesFollow` and `TypeCorrect`, for any
finite sets of sources and sockets and any limits. The bound on the connections
is not inductive. `CInv` adds that each connection made under the restriction has
its tracker (`PlacesFollowSources`, `SocketInv`), a source that was never created is
not counted (`NewInv`), and that the trackers are within the limit (`PlacesInv`, the
assumption about the limiter); `PlacesBoundConnections` puts them together.

`RestartProofs`, of the rename: `WaitsEnd` and `TimeoutTypeCorrect`, for any delay
and any number of kills. `FewTimeouts` is not inductive: it counts waits, and says
nothing of the value that is kept. `TimeoutInv` adds that every wait in vain has
raised the saved time-out by one, except those whose write a kill prevented, and
that a wait in vain had a time-out no longer than the delay.

Of the installer: `PackageFits` and `TypeCorrect`, for any number of releases
and runs by hand. `NextPackageFits` speaks of an installer that has ended; `DInv`
adds what must hold while it runs: the suffix is there as long as a differential
package is installed over the version it is for (`FlagInv`), a run that will report
success has kept its archive (`ArchiveInv`), and a differential package leads
to a later version and never counts as a full one (`PackageInv`). The last makes
the difference when another installer overtakes: the suffix it clears is of no
use any more.

Of the device list: `ClientStaysOut`, for any devices, deletions, lost
acknowledgements and restarts, and `AttemptsAreBounded`, for any limit.
`GoneForGood` is not inductive: an upload, a deletion or a record under way could
put the client back later. `GInv` adds that a client that is gone has nothing
unsynced (`GoneInv`), that what this client uploads is in its list, and what it
deletes is not (`PendingInv`); the guard of the refresh is what keeps the first.
`AttemptsAreBounded` is the part of `CallbackEventuallyRuns` that needs no
fairness: each deletion is looked at no more often than the limit says.

`TabFocusPageProofs`: `PageOffersUndo`, `OneRequestForTopics` and `TypeCorrect`,
for any tabs, windows, topics, answers and any number of calls in flight. Both properties
speak of one moment, page and handler of two, so the invariant follows what is in
the pipe between them. `UndoInv`: when the handler has a record, either a call that
empties it is on its way, or the last of the answers on their way that changes
what the page offers, or the page itself if there is none, has the topic of the
last move (`WillOffer`). `LoadingInv`: a call about topics is in at most one of the
three queues and at most once, and in one of them exactly while the page waits.
The lemmas are about queues: what `Append`, `Tail` and `RemoveAt` do to these
predicates (`RemoveAtIs` says what is left when an element is taken out).

Assumptions on the constants, all named in the modules that declare them: counts
are natural numbers; `RulesAssumption` lists the values a content setting can have
and says that no rule, and a default that allows, are among them, which is what a
new profile has; `EntityAssumption`, `DomainAssumption` and `NoSiteAssumption` give types;
`AttemptsAssumption` a positive limit, `DelayAssumption` a positive delay,
`PoolAssumption` finite sets; `HostAssumption` and `FrameAssumption` say what the
superdomains of a host and the origin of a frame are, `CredentialsAssumption`,
`CharAssumption` and `ByteAssumption` what strings and bytes are, `IdAssumption`
that the components are finitely many.

Model-checked only:

- all liveness properties (`LoopYields`, `CheckEnds`, `CallbackEventuallyRuns`,
  `ListSettles`, `HiddenDevicesReturnInOneRun`, `EventuallyRenamed`,
  `EventuallyUpdated`): fairness and ENABLED are outside the
  prover's reach;
- `MoveMatchesRecord`, `UndoRestores` and `UndoBringsBack` of the tab strips: a move
  of several tabs and an undo are folds over sequences, and what a fold computes for
  every sequence takes an induction over data, which the installed provers cannot
  do. For the same reason the type of `strip` is not part of a theorem.

## 5. Not modelled

- *Jars*: `SetCookieableSchemes`, stores without a cookie access delegate,
  partitioned cookies. *Decisions*: setting overrides and partition keys.
- *HSTS*: deletion by time range; the expiry of an entry is a choice made when it
  is looked up.
- *Tab focus*: the first-run view of the page, its tab organization and
  declutter parts, tabs in groups or pinned.
- *Differential updates*: the referral code, the VPN services (the work item list
  and its rollback are upstream), differential packages that are run by hand,
  builds that are not official.
- *Permissions*, *component registration*: the queues, prompts and registrations
  live in upstream classes; what is left here is a predicate, a loop over one
  prompt and calls that are forwarded, so that a model would be of upstream.
- The other components in `PROJECT.json`, with the reason there: tests, tables of
  constants, wording, layout, menus, and redirections of upstream code that is
  absent make up most lines of the repository. They keep no state and take no
  decision of their own, so the share of the lines the modules map stays low.

## 6. Plan

Done: the modules above. Left, in this order:

1. Pure decisions with a reference definition each: credentials in host and port
   pairs, DNS configuration with the VPN, feature defaults.
2. The VPN services at installation, if the work item lists are modelled.
