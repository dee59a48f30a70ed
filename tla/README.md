# TLA+ models of telesync (`src/py/telesync/core.py`)

This directory holds TLA+ models of the client library in `core.py` and the TLC
configurations that check them. The library turns every mutation of a UI page
into an operation in an ordered change buffer. `save()` marshals that buffer
into a diff and sends it to the hub (the remote display server).

## 1. Inventory

### Components, their state and operations

| Component | State | Operations (source lines) |
|---|---|---|
| Configuration | `_config`: internal/external/hub address, key id/secret, shutdown timeout; global `_client` (basic-auth pair fixed at construction) | import-time `_Config()` from `TELESYNC_*` env (25-35), `configure()` (38-71), `_BasicAuthClient()` (497-500, 534) |
| Validation helpers | none | `_is_*`, `_guard_primitive*`, `_guard_key` (78-123). The `_guard_primitive*` helpers are never called |
| Ref | `(page, path)`, immutable | navigation `__getattr__`/`__getitem__` (208-214); assignment `__setattr__`/`__setitem__` → `_set_op` → `page._track` (172-180, 216-224) |
| Data descriptor | `fields, size, data` | `data()` validation and packed form (263-322), `Data.dump()` encoding m/f/c (241-260) |
| PageBase / Page / AsyncPage | `url`, `_changes` (ordered op list); AsyncPage also the shared websocket | `add` with Data rename-and-displace (336-376), `__getitem__` → Ref (397-400), `__delitem__` (402-403), `drop` (388-392), `_track` (378-379), `_diff` (381-386), `Page.save` → PATCH (433-440), `AsyncPage.save` → `ws.send` (471-478), the deprecated aliases `Page.sync` (426-431) and `AsyncPage.push` (464-469), `load` → `site.load(url)` (418-424, 456-462) |
| Site / AsyncSite | none (AsyncSite holds the ws) | `site[url]` makes a fresh page handle (542-543, 585-586); load/upload/download delegate to the client (548-618) |
| Transport client | auth pair | `patch`/`get` (status check → ServiceError), `upload` (opens files), `download` (no status check) (502-531) |
| Serialization | none | `_can_dump`/`_dump` (183-195, recursive over lists, tuples and dicts), `marshal` (json.dumps, `allow_nan=False`, compact), `unmarshal`, `pack` (628-655) |
| Example scripts | one page handle each | `message_bar.py`: `site['/demo']`, `page['example'] = ui.form_card(...)`, `save()`; `plot_line_groups.py`: `site['/demo']`, `v = page.add('example', ui.plot_card(data=data(...)))`, `v.data = rows`, `save()` |

Out of scope: `Expando` (a dict wrapper), `AsyncPage.pull/poll` (marked broken and
referring to an undefined class), logging.

### Interactions

The caller builds cards (dicts, or ui cards with `dump()`) and gets `Page`
handles from `site[url]`. Each handle owns a private `_changes` list. Ref
assignment, `add`, `del` and `drop` append to that list synchronously. `save()`
calls `_diff()`, which marshals the list and clears it, and then sends the string:

- **sync mode:** `Site._save` → `_client.patch`.
- **async mode:** one text frame `* url diff` on the AsyncSite's websocket. The
  websocket is shared by every AsyncPage, and the coroutine suspends in the
  `await`.

`_client` is a module global, rebuilt by `configure()`; `Site` looks it up at
every call, so the configuration in force when a request is made decides the
credentials it carries. The example scripts are separate processes writing the
same page of one hub.

### What is hard

- **Coroutine interleaving:** several coroutines share pages and the websocket,
  and a save suspends in `await ws.send` while others mutate.
- **Failure after the buffer is cleared:** a PATCH error, or a closed socket.
- **Aliasing:** `add` keeps and rewrites the caller's own dict.
- **Marshal failures:** an unencodable value is found only at save time.
- **Call sequences of `configure()`.**
- **The size/rows case table of `Data.dump`.**
- **Multiple handles for one URL**, and several processes writing one page.
- **Recursion of `_dump`** into nested lists and dicts holding placeholders.

The `hazards` of `PROJECT.json` list each at its line.

### Properties that make each component correct

- **Page buffer:**
  - every tracked op leaves the buffer exactly once, in tracking order, in a
    diff that is one whole buffer sent to the handle's URL;
  - no empty diff is sent;
  - every add op sent has one buffer per `~f` marker;
  - a pending op eventually leaves the buffer if the application keeps saving.
- **Configuration with the transport:**
  - the hub refuses a request for its credentials exactly when the pair in
    `_config` is not the one it accepts;
  - the implicit external address follows the internal one.
- **Data:**
  - `data()` accepts exactly the valid fields and sizes;
  - `dump()` follows the spec's m/f/c table.
- **Ref:** a path string determines the key sequence it was built from; an
  assigned value reaches the buffer with every placeholder expanded.
- **Examples:** the rows a plot script assigns land on its own plot card.
- **Site/transport:**
  - a download of an error response is not reported as success.
- **Promise to the hub (ChangeLog):** every step records one op, hands the hub
  exactly what one handle recorded, as it was recorded, or drops it on a
  transport error. The code does not keep this promise when the caller edits
  a dict it passed to `add()` (`dict_alias`).

## 2. Plan

1. `PageBase` (done): the mutation buffer and diff protocol with both save paths,
   handles, the caller dict heap and transport failure. It is the core: it decides
   whether the hub gets a valid, replayable change stream.
2. `Config` (done): import-time configuration and `configure()`.
3. `DataDesc` (done): `data()` and `Data.dump()` against the spec's table.
4. `RefPath` (done): `_guard_key`, Ref navigation and `_set_op` path joining,
   with injectivity of the space-joined path.
5. `Transport` (done): `_BasicAuthClient` `get`/`upload`/`download` and the
   Site/AsyncSite wrappers against a hub that may refuse credentials or lack
   the resource.
6. `ChangeLog` (done): the abstract promise of a page handle, refined by
   `PageBase` and checked as a PROPERTY.
7. `Client` (done): `Config` and `Transport` composed; the credentials a
   request carries follow from the configuration.
8. `Examples` (done): the two scripts as programs over `PageBase`, several
   copies at once.
9. Open: a hub-side card store. The spec puts the hub out of scope and says
   nothing about how it applies ops, so a store would be invented rather than
   translated; the ordering questions it would answer are listed as hazards.

## 3. Modules and how they correspond to the code

### PageBase.tla (with MCPageBase.tla)

Variables:
- `pages[h]`: the URL of the h-th handle made by `site[url]`.
- `changes[h]`: `_changes` of handle h.
- `count[h]`: history length.
- `heap[d]`: the contents of the caller's dict d.
- `out`: every diff `_diff` produced, with its URL, its resolved ops and whether
  the transmission succeeded. It is the hub's input plus the lost diffs.
  Each entry also records, as history, `upto`: how many ops its handle had
  tracked when the diff was taken, so `ExactlyOnceInOrder` can check that a
  diff is the whole buffer.
- `pc[t]`: task t is awaiting `ws.send`.
- `wsOpen`: the websocket is still open.

Each op carries a `src = <<h, n>>` history tag that is not part of the wire form.

Actions:
- **`SiteGet`:** `site[url]`.
- **`AddCard`:** `add` with a ui card, whose `dump()` gives a fresh dict.
- **`AddDict`:** `add` with the caller's dict. It is rewritten in place, and the
  op refers to it.
- **`SetRef`:** `page[key].f = v`. A Data value raises, so it is excluded by the
  guard.
- **`DelCard`, `Drop`.**
- **`SavePage`:** `_diff` followed by a PATCH that returns 200 or raises.
- **`Sync`, `Push`:** the deprecated `Page.sync` and `AsyncPage.push`, which
  log a warning and call `save()`; the same steps as `SavePage` and `SaveAsync`.
- **`SaveAsync`:** `_diff` followed by `ws.send`.
  - The frame is written when `send` is called on an open socket; a closed socket
    raises `ConnectionClosed` at once.
  - On success the task is suspended until `Drained`.
- **`Diff`:** the shared `_diff` step. It is enabled only when the buffer is
  non-empty and `marshal` succeeds.
  - An empty buffer returns `None` and sends nothing.
  - A marshal error raises before `clear()` and changes nothing.
  - The resolved ops are a snapshot: `json.dumps` reads the referenced dicts at
    this moment.
- **Environment:** `WsClose` (the hub closes the socket) and `DictSet` (the caller
  writes into its dict).

Abstractions:
- Keys, fields and values are model values.
- A Data placeholder's dump is the tag `DataEnc(x)`; its actual encoding is
  checked in `DataDesc`.
- `Bad` is NaN or any non-JSON object. A Data object left inside a dict is
  unencodable too.
- Dict iteration order is the order of `FieldSeq`.

### ChangeLog.tla (abstract, instantiated by PageBase)

What a page handle promises, with no buffer mechanics (spec §3, §4.3, §7):
- `url[h]`, `pending[h]` (ops recorded since the last save), `sent[u]` (ops
  the hub received for URL u, in order);
- `Open`, `Record` (one op appended, earlier ones untouched), `Flush` (the
  whole record appended to the URL's log at once) and `Fail` (the record gone,
  nothing sent).

`PageBase` instantiates it as `CL` with the refinement mapping `url <- pages`
(padded with `"none"`), `pending <- changes`, `sent <- Received(u)` (the ops of
the diffs whose transmission succeeded), and `RefinesChangeLog == CL!Spec` is
checked as a PROPERTY. `Drained`, `WsClose` and `DictSet` are stuttering steps
of the abstract spec. The refinement says more than `ExactlyOnceInOrder`: what
is sent equals what was recorded when it was recorded. While the caller's
dicts never change the two say the same, so no passing run checks the
refinement; the `dict_alias` run lets the caller overwrite a primitive in its
dict between `add()` and `save()`, and TLC finds the refinement violated in
five steps (open, add the dict, edit it, save): the op the hub receives is the
edited dict, because `add()` keeps the dict itself and `json.dumps` reads it
at `_diff` time.

### RefPath.tla (with MCRefPath.tla)

- `cur` is the Ref the caller holds (its `KEY` string and, as history, the
  keys' `str()` forms); `ops` the set operations tracked; `raised` the
  exception of the last call.
- Strings are sequences of characters, because the property is about the join
  with `_key_sep`. A key is a record: a str, an int (with the characters of
  `str(k)`), or another object.
- `PageGetItem` is `PageBase.__getitem__` (type check only); `RefGetAttr` and
  `RefGetItem` extend the path after `_guard_key`; `RefSetAttr`/`RefSetItem`
  reject a Data value, then `_set_op` guards the key, joins the path and
  `_track`s the op. An attribute name is always a str.
- Values are atoms (primitives, Data placeholders), lists `[list |-> s]` and
  dicts `[dict |-> f]`. `Dump` is `_dump` as a RECURSIVE operator, in the
  code's order of tests (list or tuple, dict, `_can_dump`, anything else);
  `SetOp` tracks `Dump(v)`.
- The caller holding one Ref at a time loses nothing: Refs are immutable, so
  any path reachable through several Refs is reachable by navigating again.

### Transport.tla (with MCTransport.tla)

- The hub is the environment: `remote[u]` (page state or file content, or
  `Absent`), `stored` (the files accepted by upload). `credOK` (the configured
  key pair is the one the hub accepts) and `getAuth` (the hub checks
  credentials on a plain GET) are fixed by `Init`; `disk[f]` is the content of
  upload source f or `Absent` if the file is missing.
- `last` records each call and its outcome; the properties are about it, so
  every call is checked in the state right after it.
- `Load` is `Site.load` (`_client.get`, non-200 raises) or `AsyncSite.load`
  (`AsyncSiteLoad`, which returns `{}`); `PageLoad` is `Page.load` /
  `AsyncPage.load`, which call `site.load(self.url)`; `Upload` opens every
  file and then posts once; `Download` GETs without credentials and copies the
  body to `Target(p, u)` whatever the status.
- `Target(p, u)` is `p` for a plain path and `p` joined with
  `Basename[u]` (`os.path.basename(url)`) for a directory, so two URLs that
  end in the same file name download to the same file.
- The hub is assumed to store an upload whole or not at all. `load` and
  `upload` have no property of their own: what one would state (a load
  returns the hub's page or raises; a failed upload stores nothing) is one
  branch of `ClientGet` or `Upload`. Their credentials are the subject of
  `AuthFollowsConfig` in `Client`.

### Client.tla (with MCClient.tla)

Composes `Config` (`C == INSTANCE Config`) and `Transport` (`T == INSTANCE
Transport WITH credOK <- (clientAuth = HubAuth)`): the hub accepts one
constant key pair `HubAuth`, and a request carries it exactly when the global
`_client` was built with it. `Configure` is `configure()`, a call whose result
is `None` (`last` records it); `Call` is a Site call through the current
`_client` and leaves the configuration alone. The hub address is one model
value: the code formats `_config.hub_address` into the URL at every call.

### Examples.tla (with MCExamples.tla)

Each running copy `p` of a script has `line[p]` (its next step, or `Raised`
once a save raised `ServiceError`) and `hnd[p]` (the handle `site['/demo']`
returned). `Program` lists each script's steps; `GetPage`, `AddCard`,
`SetData` and `Save` are those steps, each one `PageBase` action
(`PB == INSTANCE PageBase`) with the script's arguments: the form card of
`message_bar.py` (primitive props), the plot card of `plot_line_groups.py`
(a Data placeholder under `data`), and the rows, one model value (the
`synth` module that generates them is not in the repository).

### Config.tla (with MCConfig.tla)

- `Init` is the module import: every combination of set/unset `TELESYNC_*`
  variables, then `_Config()` and `_client`.
- `Configure` is `configure()`. A `None` argument also stands for `""`, which the
  code treats the same.
- `clientAuth` is the pair the global `_client` was built with.
- `extExplicit` is a history variable: the external address was given explicitly.

### DataDesc.tla (with MCDataDesc.tla)

- Each state is one `data()` call (its arguments) and its result.
- `DataFn` is `data()`; `DataDump` is `Data.dump()`.
- A fields string is represented by the words `split()` finds in it; rows and
  columns by their type and truthiness.
- `SpecEnc` is the reference encoding from spec §3/§8.

## 4. Runs

| Run | Checks | Result |
|---|---|---|
| `pages_async` | TypeOK, ExactlyOnceInOrder, PendingEventuallyFlushed (under FairSpec) | pass, ~301k states |
| `pages_sync` | ExactlyOnceInOrder, PendingEventuallyFlushed (under FairSpec), MarkersResolve | pass, ~336k states |
| `card_alias` | MarkersResolve | **violation:** the same dict with a Data value is added twice. The second op has `~f2: 0` and `b = <<>>` |
| `unserializable_poison` | PendingEventuallyFlushed (under FairSpec) | **violation:** after `page[c].f = NaN` every `save()` raises in marshal and the buffer never drains |
| `dict_alias` | RefinesChangeLog | **violation:** `add(c1, dA)`, then `dA[f] = p2`, then `save()`: the hub receives `p2` for an add that recorded `p1` |
| `config_external` | ExternalFollowsInternal | **violation:** `TELESYNC_INTERNAL_ADDRESS=A` then `configure(internal_address=B)` leaves external = A (two `configure()` calls do the same) |
| `data_desc` | DumpMatchesSpec | pass, 3024 calls |
| `ref_paths` | PathInjective, DumpedDeep | pass, ~415k states |
| `ref_paths_spaced` | PathInjective | **violation:** `page['a a'][''] = v` and `page['a'].a[''] = v` both track path `'a a '` |
| `client` | TypeOK, AuthFollowsConfig | pass, ~37k states |
| `download_unchecked` | DownloadFaithful | **violation:** a hub that checks credentials on GET answers 401 to the credential-less download, and the 401 body is written to the target, whose path is returned |
| `examples` | RowsOnPlotCard | pass, ~1.2k states |

`ExactlyOnceInOrder` is the main safety property of the diff protocol. It holds in
both modes, including:
- two coroutines interleaving on the same handles;
- sends that fail.

`PendingEventuallyFlushed` holds in `pages_sync` and in `pages_async` and fails in
`unserializable_poison`: the difference is a value `json.dumps` rejects. In
`pages_async` it holds after the hub closes the socket too, because
`AsyncPage.save` calls `_diff` (which clears the buffer) before `ws.send`
raises; a save that checked the socket first would leave the buffer full for
ever (the `SaveAsyncOpenFirst` mutant).

Each passing property has a mutant in `PROJECT.json` (a plausible bug in the
mapped code) that TLC catches under the run's own config:
- `_diff` without `clear()`, and `_diff` that skips a one-op buffer;
  (a `_diff` that takes only the head of the buffer is caught by the
  whole-buffer clause of `ExactlyOnceInOrder` too);
- `AsyncPage.save` raising on a closed socket before `_diff`;
- an op inserted at the front of the buffer;
- marker index off by one (either direction);
- environment lookup without a default;
- `configure()` missing `global _client`;
- `_dump` passing lists and tuples through unexpanded;
- circular capacity without negation;
- `_guard_key` without the space check;

### Behaviours found while modelling that no run checks

- `drop()` only appends `{}`; after a drop is saved the same Page still accepts
  and sends mutations (spec §4.3 says it is no longer usable). Nothing in the
  code records a dropped state, so a property would only restate `_track`.
- Two handles of one URL (`site[url]` returns a fresh one each time) reach the
  hub in save order, not program order. The spec promises order within one
  diff only; what does hold (each diff whole) is `RowsOnPlotCard` in
  `examples` and `ExactlyOnceInOrder`.
- `Page.save` clears the buffer in `_diff` before the PATCH, and on
  `ServiceError` the diff is gone. Spec §4.3 and §5 make keeping a diff
  across a failed transmission the caller's duty, but `save()` returns
  nothing the caller could keep. The exception surfaces, so the loss is not
  silent; no property states the caller's duty.
- A Data placeholder inside a list or dict assigned through a Ref passes the
  `isinstance` check of `Ref.__setattr__` (line 217) and `_dump` inlines its
  descriptor as a plain value (`Dump` in RefPath produces `DataEnc(x)` in the
  tracked op). Spec §4.2 says a buffer may only be declared through `add`.
- `data(fields, size, columns=[...])` without `pack` drops the columns
  (line 322).
- `AsyncSite.load` is a stub returning `{}` (`# XXX implement`).
- `download(url, dir)` names the file by the URL's basename (line 525), so
  two files uploaded under one name and downloaded into one directory
  overwrite each other, and the path the first call returned then holds the
  second file. The MC configurations give both URLs one basename, so
  `Download` reaches this; no run states it as a property, because the
  only violation run for downloads is about the unchecked status.

### Bounds

`MCPageBase`:
- one URL;
- two handles, so two handles of one URL and their interleaving occur;
- two coroutines, so a save can be suspended while the other task mutates;
- one card key;
- two fields, so two markers are ordered (in `pages_sync`, which checks
  `MarkersResolve`; `pages_async` has one field, as the coroutine
  interleavings do not depend on the number of properties, and the
  liveness check of the async run needs the smaller graph);
- one caller dict, holding `p1` (in `dict_alias` the caller may also write `p2`,
  and in `card_alias` a placeholder);
- `MaxOps = 2` per handle, so every op kind, a re-add, and two diffs per handle
  are reachable.

TLC's counterexamples for the violations are 4-6 steps long, well inside these
bounds.

`MCRefPath`: keys `"a"`, `""`, `"a a"`, the int 0 and an object of another
type; card keys `"a"` and 0 (and `"a a"` in the spaced run); paths of up to
three keys plus the assigned one; two ops, enough for two paths to be compared.

`MCTransport` (the `download_unchecked` run): two URLs with one basename, two contents, a missing resource; a plain path and a
directory for download (so both targets occur); two upload sources each
present or missing, uploads of up to two files, and room for three stored
files, so a failed upload after a successful one is reached. Every hub and
credential configuration is an initial state.

`MCDataDesc` covers, for every argument:
- a valid and an invalid value of each type;
- sizes -2, 0, 3 and a non-int;
- both `pack` values.

`MCRefPath` values: a primitive, a tuple holding a placeholder and a dict
whose value is a list holding one, so `_dump` recurses two levels deep
through both container kinds.

`MCConfig` (the `config_external` run) covers the set/unset environment
combinations and arbitrary `configure()` sequences over three addresses. The
state space is finite, so no bound is needed.

`MCClient`: one address and one hub (the properties are about credentials), two URLs with one basename,
two key ids and two secrets with the hub accepting the non-default pair, so
the environment or a `configure()` must supply it and a later `configure()`
can take it away; the transport as in `MCTransport` (two URLs, a missing
resource, two upload sources each present or missing).

`MCExamples`: `message_bar.py` and two copies of `plot_line_groups.py`, so a
form card can be saved between the two plot saves and two plot diffs
interleave with it; every save may fail. `MaxOps = 2` is the longest script.

### Fairness

Safety runs use no fairness (`examples` included: the property is a safety
one, and a script that stops early only shortens the hub's log). `PendingEventuallyFlushed` is checked under
`FairSpec`, which assumes the application keeps calling `save()` on every handle
(weak fairness of the save actions) and that asyncio resumes a task whose send
has completed (`Drained`). The first is an assumption about the caller (the
examples save after every batch of mutations); under it the buffer drains in
`pages_sync` and `pages_async`, and never drains once a bad value is in it
(`unserializable_poison`). The second is what the event loop guarantees:
`ws.send` writes the frame and returns, or raises, and the loop resumes the
task. The hub closing the socket (`WsClose`) has no fairness: it may never
happen.

## 5. Not modelled

- The hub's card store: out of scope in the spec, and not in this repository.
- Requests without a timeout (line 503): a request that never returns is a
  client that stops, which the model cannot tell from a slow hub.
- Upload's file descriptors (line 516): all files are open until the POST
  returns; running out depends on the process limit.
- Threads sharing one sync Page: the spec makes that the caller's obligation.
- `unmarshal`, `pack` and `_kv`: pure JSON encoding with no state, called by
  nothing in the repository.
- `Expando`: a wrapper around one dict with no link to pages, Refs or diffs.
  Given to the core it is an ordinary object: `hasattr(e, 'dump')` is true
  (its `__getattr__` returns `None`) but `None` is not callable, so
  `page.add(key, e)` raises and a Ref assignment of `e` tracks a value
  `marshal` rejects, the `Bad` value of `unserializable_poison`.
- `pull`/`poll`: marked broken; `pull` awaits one frame and then names the
  undefined `Q`, so every call consumes a frame and raises `NameError`, the
  same outcome on every call.
- Logging.
