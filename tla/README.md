# A TLA+ verification of rdkNativeScript

rdkNativeScript runs JavaScript applications without a browser. This directory
holds the TLA+ modules that model it, the TLC configurations that check them,
and proofs for TLAPS. Paths such as `src/NativeJSRenderer.cpp` are relative to
the `src/` directory of the repository.

    tlc -workers 2 -config Renderer.cfg Renderer.tla     # a run
    tlapm ServerProofs.tla                               # the proofs, one module each
    # ... LoopProofs, ToolsProofs, XhrProofs, FetchProofs, Folding, DomProofs,
    #     AttributeProofs

## 1. Inventory

| component | state | operations | talks to |
|---|---|---|---|
| Renderer (`NativeJSRenderer.cpp`) | `gPendingRequests`, `mContextMap` under `mUserMutex`; `mRunning`; `mTestFileName`; the identifier counter | `createApplication`, `runApplication`, `runJavaScript`, `terminateApplication`, `getApplications`, `terminate`, `run` | callers push requests; `run` owns contexts, engine, console |
| Command server (`JSRuntimeServer.cpp`) | `mConnections` under `mDataMutex` | `onMessage` (nine methods), `onOpen`, `onClose`, `stop` | the renderer's request calls, from its one thread |
| Program start (`jsruntime.cpp`) | one thread per url | create, run; in developer builds list and terminate | the renderer |
| Developer console (`NativeJSRenderer.cpp`) | `codeToExecute`, `isProcessing`, `consoleContext`, `consoleLoop`, `mShutdownConsole` | `runDeveloperConsole` (own thread), `processDevConsoleRequests` (renderer's thread), SIGINT, destructor | shared queue, condition variable |
| Timers (`jsc/JavaScriptUtils.cpp`) | `gTimeoutMap`, `gTimeoutQueue`, `gTimeoutIdx` | `installTimeout`, `clearTimeout`, `dispatchTimeouts` | called by scripts and by the engine's loop; calls scripts back |
| Main loop dispatch (same file, `jsc/JavaScriptEngine.cpp`) | `gPendingFun` under `gDispatchMutex` | `dispatchOnMainLoop` (any thread), `dispatchPending` | download threads, the engine's loop |
| JSC context and wrappers (`jsc/JavaScriptContext.cpp`, `JavaScriptContextBase.cpp`, `jsc/rtScriptJSCPrivate.cpp`, `jsc/JavaScriptWrapper.cpp`) | `gTopLevelContext`, `gPrivCtxCache`, the protected objects of each context, `gAAMPJSBindings`, weak caches | create, delete, finalize, protect, wrap, key events, metrics | engine, download threads, inspector |
| Command client (`JSRuntimeClient.cpp`, `.h`) | `mResponseReceived`, `mLastResponse` under `mResponseMutex`; `mState` | `run`, `sendCommand`, `onMessage`, `onOpen/Fail/Close` | the server, over one WebSocket |
| XMLHttpRequest (`utils/xhr.js`) | `readyState`, `sendFlag`, `errorFlag`, `didTimeout`, `request` | `open`, `send`, `abort`, response, redirect, timeout | http modules, timers, listeners |
| URL (`jsc/modules/lib/*.js`, `utils/punycode.js`) | the url record, the query list | constructor, href and the other properties, URLSearchParams | fetch, scripts |
| Document (`jsc/modules/linkedjsdom.js`, linkedom) | one doubly linked list of nodes and end nodes; observers; custom element reactions | the methods of Node, Element, ParentNode, ChildNode, Range, MutationObserver | scripts, microtasks |
| Markup (same file, htmlparser2 and linkedom) | tokenizer, parser stack, tree under construction | `parseFromString`, `innerHTML`, `toString` | Document |
| Elements and selectors (same file: linkedom, css-what, css-select, nth-check) | attribute nodes; `classList`, `style`, `dataset` of an element, each made once | `setAttribute` and the like, the views' methods, `querySelector(All)`, `matches`, `closest`, `getElementsBy...` | Document |
| Fetch (`jsc/modules/node-fetch.js`) | a promise, a native request and a timer per hop; the stream shared by the bodies of a response | `fetch`, `Request`, `Headers`, reading and cloning bodies | URL, the native request, timers |
| Buffers and blobs (`utils/buffer.js`, `node-fetch.js`) | arrays of bytes, shared between a buffer and its slices | make, slice, copy, fill, swap, write, read, search, compare, text | fetch, scripts |
| Script WebSockets (`rtWebSocket*.cpp`, `utils/ws.js`) | `readyState`, clients, hub | connect, send, close, events | uWS |
| Key events (`EssosInstance.cpp`, `linux/KeyInput.cpp`) | one listener, four pairs of modifier flags | `registerKeyListener`, `processKeyEvent` | the context created last |
| Container access (`JSRuntimeContainer.cpp`) | none that lasts | namespace entry, address lookup, launch message | the server inside a container |
| Inspector (`InspectorHTTPServer.cpp`) | contexts, connections | register, unregister, HTTP and WebSocket requests | contexts |
| Local storage (`NativeJSLocalStorage.cpp`) | a snapshot file | `load`, `save` | file system |
| Module settings (`ModuleSettings.cpp`) | nine flags | `fromString` | server |
| Player bindings (`jsc/Player*.cpp`) | listener lists | add, remove, send event | player library |

### What is hard here

* Threads share a queue that is drained by one function and cleared as a whole,
  under a mutex that `terminate()` and the test file's identifier do not take.
* The server's one thread waits for drains in which downloads and scripts run,
  launches an application by two requests, and stops the process from a handler.
* `dispatchTimeouts` calls JavaScript in the middle of its loop, and that
  JavaScript changes the very queue that is being walked.
* The console's context is deleted by one thread and used by another; the alternation
  of prompt and evaluation protects evaluations, and nothing protects callbacks.
* Download threads report to requests that JavaScript may have collected, whose
  listeners belong to contexts that may be deleted, at addresses used again.
* The client's replies carry no identifier, and its flag is reset late.
* Listeners call an XMLHttpRequest in the middle of its own handlers.
* A setter of a URL runs the parser over one part, in place, from the middle.
* A move in the document relinks the ends of a list that holds the whole tree,
  and sets off callbacks while it is walked.
* Markup may be cut short anywhere, and the tree is built by counting ends.
* Four views of an attribute are kept apart and written through and past in turn;
  a selector is sorted, compiled from the right and tried with a shared cache.
* A fetch goes through hops with a request and a timer each, of which any may be
  answered late or never, and what may go on to the next depends on all before.
* Three parsers read a URL between a script and the request it makes.
* Slices share the bytes of their buffer, so what an operation reads may be what
  it has just written.

Every hazard found is listed at its line in `PROJECT.json` under `hazards`, with
the properties that would catch it, or with the reason why none does.

### What makes each component correct

* Renderer: requests take effect once each and in order, on the application they
  name; contexts are neither leaked nor used after deletion; a stop ends the loop.
* Server: a launched application runs its url; a listing is what was handled; every
  message is handled, and a stop ends the process.
* Timers: one owner per timer object; reachable by its tag until cleared or over;
  cleared means never again; a pass leaves nothing due and keeps the order.
* Console: no line is evaluated in a deleted context, and no callback is started in
  one through a function it protected; every line evaluated once, in order.
* Contexts and dispatch: a deleted context is used through two raw pointers that are
  known not to be taken back, and in no other way; a task finds its
  request alive; events arrive once and in order.
* Client: a response belongs to its command; every call returns.
* XMLHttpRequest: a request that failed never loads, one `load` per `open`, no timeout
  left behind, and every request that was started is reported as over.
* URL: always well-formed; `href` parses back to it; an assignment to one part
  leaves the others; the list of parameters is the query.
* Document: the links agree and are the tree that was asked for; reactions and
  observers know it.
* Markup: the tree follows the parser's stack; what is written is read back.
* Elements: the views agree with the attributes; a query finds what its selector
  means.
* Fetch: nothing goes further than every hop allows; every fetch settles.
* Buffers: an operation changes the bytes it is for; what is written reads back.

## 2. Plan

Done, in this order: `AppService` (abstract), `Renderer`, `Timers`, `Console`, `CommandClient`, `Xhr`, `Server` over `Renderer`, `Contexts`,
`Host` and `Url`, `DomTree` and `Dom`, `Markup`, `Words` and `AttributeViews`, `CssWhat`,
`CssSelect`, `SelectorMeaning` and `Elements`, `Headers` and `Fetch`, `FetchUrl`, `LegacyUrl` and
`FetchTarget`, `BufferText`, `BufferNumbers` and `Buffers`; then the proofs:
`ServerProofs` (the renderer alone, then with the server over it), `LoopProofs` (timers,
contexts), `ToolsProofs` (console, client), `XhrProofs`, `FetchProofs`, `Folding` (lemmas
on induction and folds), `DomProofs`, `AttributeProofs`.

Left, the most valuable first:

1. Proofs: that the children of a parent come in the order asked for, and what is
   `connected` (`TreeAsBuilt`); the one property of `Buffers`, operation by operation.
   All other safety properties of the runs either are proved (section 5) or are
   about recursive operators.
2. `ScriptSockets`: `ws.js` over `rtWebSocket`, and the server's client map.
3. Events of the document, and the polyfill `event.js`.
4. `Settings`, `Launch`, `PlayerEvents`: small functions and listener lists.

## 3. Modules

### AppService and Renderer

`AppService` is the promise: a sequence of accepted requests, each taking effect
in turn on a map from identifiers to applications. It knows no mutex, no vector,
no context.

`Renderer` is the code. Callers (application threads, the server's thread) hold
`mUserMutex` for a single `push_back`, so each request call is one action with
the mutex free; any caller may name any identifier, as the server lets its
clients do. The renderer's thread is `pc`: `check` (the loop's test), `lock`,
`drain` (one action per request, with `index` for the loop variable), `clear`,
`testId` and `testRun` (the test file: its identifier before, its context under
the mutex), `engine`. `HandleCreate`, `HandleRun`, `HandleRunScript`,
`HandleTerminate` and `HandleUnknown` are the Internal functions with their early
returns; a script is not run when its text is empty, and may not be when a
download fails, but the url is recorded before. `heap` is the set of contexts
allocated and not deleted, so that a leak and a use after deletion are states.
`accepted` and `executed` are histories. Terminating the engine when the loop
ends is part of `CheckRunning`.

### Server

`Server` EXTENDS `Renderer`: its steps are the renderer's steps, or steps of its
own threads that may be callers of the renderer. All handlers of the endpoint run
on one thread, so a message is handled before the next; a handler is cut where it
waits for `mUserMutex`: `launchApplication` is `LaunchCreate` and `LaunchRun` (or
`LaunchHtml`), a listing is `GetApplications`, and `stop` is `StopListening`,
`CloseOne` per connection of the copied set, `StopRenderer`. Peers open and close at
any time; closing a connection that is no longer open throws, which nothing
catches, so `process` may be `aborted`. The application threads are `ThreadCreate`
and `ThreadRun`, the end of `main` is `MainReturns`. Message texts and the texts of
replies are left out; a method that only replies is `ReplyOnly`.

### Contexts

A context has a number, and an address that a later context may get again.
`DeleteContext` does what the destructors do in their order, `FinalizePrivate`
is the later garbage collection that runs the private object's destructor: it
erases the cache's entry only if it is still its own. A request's listener
remembers its context and its private object. Requests are counted references:
`CountReference` and `Dispatch` are the two steps of a download thread, `TakeBatch`
and `RunTask` those of `dispatchPending`; `Collect` is JavaScript letting go.
Two pointers to the `JavaScriptContext` are never taken back. `keyListener` names a
deleted context when the last one registered is deleted first; `metrics` is the
listener that `rtHttpGetBinding` gives to a request, which the download thread calls
(`ReportMetrics`, between counting and dispatching an answer) when the environment asks
for metrics (`envValue`). `OnlyRawPointersStray` names both and allows no third.

### Timers

The queue is a set: `Top(t)` is its least element while the vector is a heap
(`heapOk`) and any element otherwise. In the code as it is the vector always is
one when `top()` is called, and the properties depend on the calls of
`make_heap` that keep it so. `pc` is `idle` (other code of the main thread, scripts
included, runs), `pass` or `callback`; scripts install and clear timers in `idle`
and `callback`. A timer is its tag: the wrap of the 32-bit counter is left out.
`MCTimers` holds the delays of the run, a negative one among them. The callback is the
native one: for a script's timer it calls the function through `rtFunctionRef`, whose
form without a result leaves the call to `dispatchPending`
(`jsc/JavaScriptWrapper.cpp:961`). Then the script runs in `idle`, and what
`ClearedNeverFires` says holds of the native callback: a call already handed to the main
loop is not taken back by `clearTimeout`.

### Console

The console thread is `consolePc`, the renderer's is `rendererPc`, and each step
between two accesses to shared state is an action. The sections under
`inputMutex` are single steps; `isProcessing_cv_m` is a variable, since the
renderer holds it while scripts run. The destructor is part of the renderer's
thread, after `run` has returned.

The deletion is three steps, a synchronous collection, `releaseAllProtected` and the
release of the context, and the rest of a turn of `run` (`EnterContext` to `EndTurn`)
may be anywhere meanwhile: inside a callback of a console script, which needs a
protected function (`left`), or about to use the context by a raw pointer (the
collector's `gTopLevelContext`, the listener of keys, a call that `JSFunctionWrapper::Send`
handed to `dispatchPending`). `raced` records that the two met; the code's behaviour is
undefined from there, and the properties about the context ask nothing more.
`asserting` is how the program was built. `jsc/include.cmake:52` defines `NDEBUG`, so
`assertIsMainThread` checks nothing in that build; with assertions a deletion on the
console's thread ends the process (`aborted`) if it finds a protected function, or if its
collection finalizes a wrapper. Both
builds are initial states of the run and cases of the theorem.

### CommandClient

The main thread is `pc`; the connection's thread is the actions `OnOpen`, `OnFail`,
`OnClose` and `OnMessage`. Commands and replies are numbers, which lets the
properties see which reply answers which command; the code cannot. `Serve` is the
server: one reply per message in order, none for `stop`, which closes the
connection. `LinkLost` loses what is under way.

### Xhr

The variables of the closure in `utils/xhr.js` are the record `xhr`; `conns` are the
requests made of the transport, `pending` the tasks that `dispatchOnMainLoop` has
queued. One task delivers an answer, its data and its end. `dispatchEvent` calls
listeners in the middle of everything, so what is left of the interrupted calls is
the stack `todo`, and each action takes the step on its top: `SetStateDone` is
the part of `setState` after its listeners, `Create` that of `send`, `AbortDone`
that of `abort`, `EndDone` that of the end handler, `Status` that of the response
handler. The script calls the object in tasks of its own and while a listener is on
top of the stack; `nested` says that a listener has done so. The transport is
external: it may answer an aborted request, as a queued task cannot be withdrawn,
and may answer anything. `aborted`, `"lost"`, `events` and `nested` are histories.

Most properties hold only until a listener calls the object, and the model shows
why. Reopened in a listener of `readystatechange`, an object can be DONE with no
response, and `getAllResponseHeaders` throws (`HeadersReadable`); the rest of an
interrupted `handleError` dispatches `error` for the new request (`FailureIsFinal`);
a send from within `send` overwrites the name of a timeout (`TimeoutTracked`,
`TimeoutBeforeOutcome`); a send from a listener of `load` may never end
(`TimeoutEndsWait`, `RequestEnds`). The last two also name what
else they exclude: the request made for a redirection has no timeout and no
listener for abort.

### Host, Url

A string is a sequence of symbols, a code point or a run of letters that no code
looks into. `Host` has percent encoding and the parsers of IPv4, IPv6 and opaque
hosts; the base of an octet (256) and the number of IPv6 pieces are constants, so
that TLC can count through them. In `Url` a parse is one action per symbol
(`ParseStep`), which calls the handler the code selects by the name of the state;
`m` is the URLStateMachine. The handlers of an assignment (`Set...`) change the
object's own record in place and `PartSet` is the rest of the setter; an
exception in the decoding of a query leaves the list behind the query (`spoilt`).
`ReadBack` parses the object's `href` again.

### DomTree, Dom

`DomTree` is the reference: the tree a script expects, as a sequence of children
per parent, and what each method makes of it. `Dom` is the list: `next`, `prev`,
`parent`, `owner`; each `Call...` is one method with everything it calls, on the
list by the code's steps and on `children` by the definition. A callback that
changes the document is left out: reactions and observers only watch. `told` is
what an observer's callback would have made of the records it got. `ListWhole` is
about the links and the getters that start from different ones of them,
`TreeAsBuilt` compares list, clones and reactions with `children`, and
`ObserversInformed` what an observer was told with the list.

### Markup

`p` is the tokenizer, the parser over it and the tree under construction, `Parse` one
turn of the tokenizer's loop by the handler of its state, `Finish` the end. A word
whose characters the code compares one after the other (a tag's or an entity's
name, `CDATA[`) is one symbol. `Markup` (the operator) is `toString`, and
`ReparsedSame` parses its result again with `ParseAll`. `Writable` names the trees for
which the code does not keep that promise (section 4).

### AttributeViews, Words, Elements, CssWhat, CssSelect, SelectorMeaning

In `AttributeViews` a script writes the attributes `class`, `data-x` and `style` of
an element by every way there is: `setAttribute`, `removeAttribute`, attribute nodes
and their `value`, and the methods of `classList`, `style` and `dataset`.
`attrs` holds the attribute nodes, `lists`, `style` and `known` what the views keep of
them, and `std` what the DOM standard makes of the same calls: `ViewsAgree` compares.
`bypassed` records a view that was written past in one of the three ways in which the
code lets it go stale (section 4). A text is a sequence of marks and words; `Words` has
what `split`, `join` and `trim` do to one. `Elements` EXTENDS `AttributeViews` and asks
queries in every state of it: each of its steps is one of `ViewNext` or leaves
`viewVars` as they are. `CssWhat`
parses the text of a selector, `CssSelect` compiles it (sorted by cost, `copyOptions`
for the parts inside `:has` and `:not`, the cache of failed ancestors, `nth-check`'s
formulas) and tries it, from the right, on the tree as the code's adapter reads it.
`SelectorMeaning` writes a selector out, with and without the blanks the grammar leaves
free, and says what it means: sets of elements from the left, by the standard.
`SelectorsAgree` compares what a query found with that.

### Fetch, Headers

`requests`, `promise`, `native` and `timer` have one entry per hop. `Call` is `fetch`
as far as it runs at once; `Download` queues an answer, `OnResponse` begins its task,
with the decision on a redirection (`Redirected` is what goes on), or `Fails`; `OnData`
and `OnEnd` are the events after it, between which callbacks of promises run:
`consumeBody` and `Clone` are what they do with the response. `StartTimeout` and `Timeout` are the request's timer,
`BodyTimeout` that of a body. The native request is external: `once` says whether it
has that method (the code asks), its responses are streams with `on` and `pipe`, or
`once`, and whether an aborted request still gets its answer is open. `Headers` is
the class: a map from names as they were first written to values, the order of its
names left out. `Copy`, the constructor over another `Headers`, is a comprehension;
`MCFetch` has TLC compare it with the constructor's loop (`CopyAppends`).

### FetchUrl, LegacyUrl, FetchTarget

A URL that scripts' class made is read again inside `node-fetch.js` by an older
version of that class (`FetchUrl`), written, and read by `url.parse` (`LegacyUrl`);
`url.format` gives the string a Request shows. They are functions of a string here.
`FetchTarget` says what of each the request is made from, and compares: with the
url of scripts (`FetchAsksForUrl`), and the two classes with each other at every
assignment (`ClassesAgree`). The IPv4 and IPv6 parsers and writers are the same text
in both files and are modelled once, in `Host`. The older class's setters of user and
password, and `url.resolve`, are called by nobody and are left out.

### BufferText, BufferNumbers, Buffers

`BufferText` is what each of the six encodings makes of a text and of bytes, with
real bytes. `BufferNumbers` has the reads and writes of numbers, each as the code has
it; since TLC's integers have 32 bits an octet has `OctetBits` of them, and the sizes
of mantissa and exponent follow from constants, so `exports.write` rounds and carries as
it does in full size. In `Buffers` the views share `memory`; an operation is a step,
`call` says what it was, and `BuffersExact` is about the step. A fill with a buffer that
overlaps reads what it has just written, as in the code. `MCBundled` puts them into one
run with `Markup`: either markup is parsed or buffers are worked on.

## 4. Runs

| run | instance | shows |
|---|---|---|
| `renderer` | 1 application of the callers' and the test file's, 3 requests, 2 texts | the queue, the map and the contexts; `AppService` is implemented, with its liveness |
| `server` | 2 clients, 1 application thread, 2 messages, 4 requests | launches, listings, no message hangs, a stop ends the process |
| `timers` | 3 timers, time 3, delays -1, 0, 1 | ownership, order, no revival, nothing left due, timers run |
| `console` | 4 lines, built with assertions and without | what protects the context and what does not, order, liveness, the destructor |
| `client` | 5 commands | replies once and in order; calls return |
| `xhr` | 3 requests, 5 calls, 1 redirection | one load per open; failures are final; timeouts are tracked and end the wait; requests end |
| `contexts` | 3 contexts at 2 addresses, a request of 2 events and one of 1 (`Quick`), metrics asked for | a deleted context is used by two raw pointers only; tasks find their request; answers arrive in order |
| `url` | 352 inputs, 5 bases, 9 values, 2 assignments | URLs stay valid, parse back, keep their other parts and their parameters; fetch asks for what they say, and its URL class agrees |
| `dom` | 2 elements (one custom), 2 texts, 1 attribute, 1 fragment, 1 observer | list, tree, reactions and records after any sequence of calls |
| `elements` | documents with up to 4 writes to two elements; a tree of 11 nodes with 460 queries | the views of an attribute agree; a query finds what its selector means |
| `fetch` | 12 calls, 4 statuses, 7 locations, up to 3 hops, 2 bodies | what goes on to the next hop; every fetch settles, and bodies that can |
| `bundled` | every document of up to three of 42 pieces, as HTML and as XML; 4 buffers with a slice and a blob, 2 operations, 388 integers and about 120 magnitudes of doubles | tree and stack in step, written and read again the same; every operation on bytes is exact |

Why the bounds are enough. Three requests are a history that creates, runs or
terminates, and names again one identifier, and the drain may be cut between any
two; the `server` run has four, for a launch in the middle of another's requests.
Three timers are one that runs, one set aside and one in the queue, so a callback
can clear each kind while another waits behind it; three instants put deadlines
before, at and after the pass. The console has one line in flight, so its states
repeat after two lines. The client needs three commands to take a late reply for
another's, and five to shift several. An `Xhr` object meets its hazards with two uses, one whose
answer is late and one it disturbs: four calls for these, and one to abort;
the third request is one redirection too many. Three contexts at two addresses
give one a predecessor at its address and a neighbour; of two requests one reports
progress before its answer and one (`Quick`) does not, which is enough for events of one
to be overtaken by its own and by another's, and leaves the run within minutes. The inputs of `url` combine
every scheme class with every form of authority and tail, and two assignments let
one disturb what the other left. In `dom` two elements nest either way and two
texts stand side by side, which is what the list tells apart; the state space is
finite and covers call sequences of every length. Three pieces of markup open a
context, cut it and close another; sequences of up to ten pieces were tried at random.
In `elements` three writes make a view, write past it and through it again, two
elements let an attribute node move away and back, and three attribute nodes and
lists are more than the writes can use; queries are asked of a tree in which every
combinator has several candidates. Three requests of `fetch` are a hop whose
decision depends on one that was itself decided upon; the locations stay, go below,
above, aside, to another protocol, or nowhere. Two operations on buffers make
something that shares, or should not, and overwrite one side; five bytes hold a
character of every length and one that is cut. Octets of two bits have carries
between any two neighbours, signs and subnormal numbers, which is what the code for
numbers of many octets is about.

Deadlock is not checked where the program ends or waits for input
(`CHECK_DEADLOCK FALSE`): everywhere but in `Timers`.

Fairness. `Renderer`: weak fairness of the renderer's thread, which sleeps 25 ms
a turn and is otherwise runnable, callers leaving the mutex at once; it assumes
that scripts and downloads return (downloads have a timeout) and that the plain
`bool` `mRunning` is read again each turn. None for callers. `Server`: the same, and
strong fairness for the threads that wait for `mUserMutex`, as the renderer sleeps
without it in every turn; nothing is asked of clients. `Timers`: time passes
and the main loop keeps calling `dispatchTimeouts`, callbacks returning. `Console`:
both threads are scheduled, nothing is asked of the user, and every turn of `run` ends
(strong fairness of `EndTurn`): callbacks return, and a turn has finitely many of them.
`CommandClient`: the main
thread is scheduled and its wait ends, nothing is asked of server or network. `Xhr`:
the main loop runs its tasks and timers and listeners return; the network may stay
silent, and `RequestEnds` states its assumption itself: what nobody aborted is
answered, with an error if nothing else. `Contexts`: the main loop dispatches, and a
download thread that counted its reference reports its metrics and dispatches its task. `Fetch`: the
main loop runs what is due (answers that have arrived, their events, timers), and the
network answers in the end, but only for calls without a timeout: with one it may stay
silent for ever. A body is settled if it is read in time or has a timeout. `Url`, `Dom`,
`Elements` and `MCBundled` are sequential and state safety only.

### Disagreements with documents and comments

Met while modelling, and built into the models as the code has them:

* After a timeout the next `sendCommand` returns the late reply as its own, and from
  then on responses are one behind (`docs/README.md:271`); `RepliesInOrder` allows
  that and no more.
* The comment at `utils/xhr.js:457` discards the end of an aborted connection; an object
  sent again from its `load` listener discards that of a connection nobody aborted,
  and never ends. `RequestEnds` excepts it.
* The client's flag is reset after the message was sent, so a quick reply is
  wiped out (`include/JSRuntimeClient.h:51`, in `BeginWait`).
* A queued console line is evaluated by the renderer's thread; one queued as its
  loop ends leaves the console thread, and the destructor that joins it, waiting
  for ever (`docs/README.md:208` has the console thread evaluate); `DestructorReturns`
  names the case.
* The answer to an aborted request still changes the state listeners see
  (`utils/xhr.js:440`; the comment at 448 asks for the opposite).
* The destructor of a context does not unregister its key listener
  (`JavaScriptContextBase.cpp:66`; `docs/README.md:269`), and does not reach the requests
  whose metrics listener it is (`jsc/JavaScriptUtils.cpp:293`): a download thread that
  has an answer after `terminateApplication` calls the deleted context (`:244`) if the
  environment asks for metrics. `OnlyRawPointersStray` names both.
* `assertIsMainThread` (`jsc/JavaScriptUtils.cpp:160`) wants wrappers released on the
  main thread, but after `exit` or SIGINT the console's thread deletes the context
  (`NativeJSRenderer.cpp:604`) and releases them there. With assertions that ends the
  process when a function is protected, after a `setTimeout` for instance; with
  `NDEBUG` (`jsc/include.cmake:52`) the release may meet a callback on the renderer's
  thread. `ContextLiveWhenUsed` and `DestructorReturns` name these cases.
* URL: `new URL(string)` without a base takes the string itself as base; a `#`
  assigned to `search` is not encoded; a query that cannot be decoded leaves
  `searchParams` as it was; `utf8PercentEncodeString` iterates over indices
  (`lib/percent-encoding.js:118`), and `punycode.encode` uses an undeclared variable, so
  names that are not ASCII never get a host.
* Document: `Range.deleteContents` over several siblings that end with a text
  breaks the list (`AnyRange = TRUE` shows it); `before(self)` and `after(self)`
  corrupt it; `prepend` of a node that is first already changes the order;
  `insertBefore` accepts an ancestor; setting a text's data reports a removal;
  `disconnect` leaves a microtask that delivers an empty list. The guards of
  `Dom` (`Legal`, `AnyRange`) keep these calls out.
* Markup: trees that are not read back as they were (`Writable`): comments with
  `-->` in them (an HTML `CDATA` section becomes one), `&` in attribute values,
  empty `id`, `class` and `style`, an empty `menuitem`, text elements with other
  children or with markup in a `title`, text elements within `svg`. The text of a
  `script` or `title` is the replacement of a `String.replace`
  (`linkedjsdom.js:11618`, `Substitute` here), so `$$`, `$&`, `` $` `` and `$'` in it are
  rewritten. And input
  that ends in a tag: the comment at `linkedjsdom.js:8608` has it ignored, but after
  the name of an end tag or in a self-closing tag the last character becomes text,
  and the end of the input closes an element that was never opened.
* URLs in fetch: `url.parse` turns every backslash into `/` when there is no `#`, where
  its comment (`node-fetch.js:7936`) has those before the query only; `url.format` keeps
  one encoded colon, so `%3a` in a user's name becomes the border to a password.
  `fetch` accepts names that scripts' class refuses (`| ^ < >`, ending in a number, not
  ASCII) and lowers names that it leaves upper. The older class keeps the name when
  `hostname` is assigned `x:80`, keeps a port that becomes the default with a new
  protocol, and writes no `/.` before a path that begins with an empty segment.
* Selectors: `:has(a b)` looks above the element as well; `:nth-child` never finds the
  root; lists inside `:has` are read relative to the scope, and `:scope` under the
  document finds nothing; `:first-child` and the like throw on an element without
  parent; `[a~=""]` can match, `[class=""]` takes a missing class for an empty one;
  `:disabled` means the fieldset and not its controls; `getElementsByTagName('*')`
  finds nothing, and templates are looked into.
* Attributes: `classList.remove` makes an empty `class`, and `replace` puts the new token
  last; `Attr.value` of a class leaves `classList` stale; a style node that went to
  another element and back is not read again; `dataset` does not know names set later;
  writes through `style` are not reported to observers.
* Fetch: a call with a signal is always refused, since `Stream.Readable` is undefined
  (`node-fetch.js:2423`); a blob as body is refused after the native request was made; a body
  that is read after its data was emitted never settles without a timeout; a clone
  loses timeout and limit; a late answer to a fetch that timed out still follows
  its redirections; `Content-Type` stays when a POST becomes a GET.
* Buffers: of two leading surrogates at the end of a text the second is lost; `write` in
  hex takes a last single digit that `from` drops, and with length 0 all the room;
  `indexOf` in `ucs2` throws for a part of odd length and `lastIndexOf` counts in units,
  so it may return a half; `copy` with end 0 returns a negative count; a number of
  no octets still writes one; floats round half away from zero.

## 5. Proofs

Every safety property of the runs `renderer`, `server`, `timers`, `console`,
`client`, `xhr`, `contexts` and `fetch`, two of the three of `dom` and one of the two of
`elements` are proved for all values of the constants that satisfy the named assumptions of their module; the
runs check the same formulas on a small instance. Each proof module defines the inductive
invariant as a conjunction of named parts, shows `Init => Inv`, then that each action keeps it, and last that it
implies the property.

| module | theorem | states |
|---|---|---|
| `ServerProofs` | `TypeCorrect`, `OnceInOrder`, `OneContextEach`, `ServedWithinLife` | the four invariants of `renderer` |
| | `QuietAfterEngine` | nothing runs after the engine was terminated |
| | `RefinesService` | every step is a step or a stutter of `AppService` (`Service!Safe`) |
| | `LaunchAndStop`, `ListingIsHistory` | `ServerSafe`, `ListingAgreesWithHistory` |
| | `ServerKeepsService`, `ServerKeepsLives` | in the composition too the renderer is the service, and requests take effect within an application's life |
| `LoopProofs` | `ObjectsOwned`, `ClearedStayQuiet`, `PassesServe` | `TimersOwned`, `ClearedNeverFires`, `PassServesDue` |
| | `OthersForget`, `PrivateFound`, `TasksServed` | `OnlyRawPointersStray`, `PrivateOfLiveContextFound`, `TasksInOrder` |
| `ToolsProofs` | `ContextProtected`, `LinesInOrder` | `ConsoleProtected`, `EvaluatedInOrder` |
| | `RepliesOnce` | `RepliesInOrder` |
| `XhrProofs` | `RequestKept`, `EndsOneWay` | `RequestTracked`, `OneOutcome` |
| `FetchProofs` | `RedirectionsContained` | `RedirectsContained` |
| `DomProofs` | `ListStaysWhole`, `ObserversStayInformed` | `ListWhole`, `ObserversInformed`, where no range ends in a text |
| `AttributeProofs` | `ViewsStayTrue` | `ViewsAgree` |

### Renderer

The argument. No property is inductive alone, so `IInv` has four parts.
`TypeInv` adds to the types what the program counter says of mutex, queue and
index: the renderer holds the mutex exactly in `drain` and `clear`, and outside the
index is 1. `OrderInv` says that executed and pending requests make up the
accepted ones: pushing extends both sides, handling moves the boundary, clearing
happens at the end only. `FreshInv` bounds every identifier used by `nextId` and
keeps the test file's apart from those of CREATE requests. `LiveInv` ties map and
heap: contexts present are distinct, allocated, not deleted, and an identifier
whose CREATE is still pending has no entry, which is why the unconditional
store of `createApplicationInternal` overwrites nothing. `TerminateInv` then needs
that an identifier is created once, so that after its termination no CREATE for
it can come. `DropInv` adds the other side: an identifier that was created and is
not terminated has an entry, so a request between the two is not dropped. Each
part is proved in a lemma per action; the temporal theorems combine them.

### Server

The endpoint's thread and the application threads are callers of the renderer: the
lemma `AsCaller` shows that each step of theirs is, on the renderer's variables, one
of `CallerNext` or none, so the renderer's invariants and its refinement are
kept and cited, not proved again. `ServerInv` adds `EffectInv` (a CREATE always
creates) and `SourceInv` (without a test file every application was asked for), which
make a listing the history; `JobInv` (the identifiers held between two requests were
given out, and to one holder each); `LaunchInv`: from its creation until the launch's
second request no request in the queue names the application, which is why the url it
is answered with is the one it runs; and `CloseInv` (what `stop` still has to close is
in its copy of the set). `ServerAssumption` asks for finite bounds.

### Timers

`TimersOwned` is not inductive without `CanceledInv`: the heap is in order, what was
cleared is marked, and whatever is marked sorts before everything else, so the walk of
the queue never stops in front of a timer that should be dropped. `PassInv` says that
what ran in this pass is out of the queue and what is set aside repeats.
`TimerAssumption`: bounds are natural numbers, the instants more than one, delays
integers.

### Console

The proof is about the alternation the code relies on. `PromptInv`: from the prompt
to the push nothing is queued and the renderer is not evaluating; `ProcessInv`: from
the swap to the end of the evaluation the queue stays empty; `MutexInv` for the mutex
the renderer holds meanwhile. With `LinesInv` (at most one line under way, the last
one typed) the order follows, with `ContextInv` that lines are evaluated in a live
context. For callbacks `LeftInv` is needed: unless the deletion met the renderer inside
the context or a raw pointer was used after it began, a running callback means that a
function is left, and none is left once the console thread frees the context.

### CommandClient

`StreamInv`: from the last reply received through those on the way back to the
commands on the way out the numbers grow. `ReturnedInv` ties what calls returned to
that stream: what the flag announces during a wait arrived within this wait, and is
newer than all that was returned.

### Contexts

`WrapperInv`: a private object protects exactly the listeners of the requests that
name it, and these have a live context. `CountInv` counts the references of a request:
the script's, that of a thread that is about to dispatch, and one for each event
dispatched and not delivered; `Pending` joins the batch and the queue into the one
sequence these are counted in. What uses a deleted context then cannot be a task, which
calls through a wrapper, nor the collector, so it is one of the two raw pointers.
`ContextsAssumption` has at least one address.

### Xhr

Half of the invariant is about the stack `todo`, since what a handler may rely on
depends on which interrupted calls lie below it. `BaseInv`: steps of the main loop's
task are at its bottom; `LoadInv`: a `load` comes from the end of an answer with
nothing but that end below it, and after it `sendFlag` falls before anything may load
again. `TimerInv`, `ResponseInv`, `FailInv` and `OutcomeInv` hold until a listener
calls a method (`nested`), as do the properties they are for (section 3). `MaxConns`
is at least 1.

### Fetch

`FetchProofs` first proves what the methods of `Headers` do, seen through `get`
(`CopyFacts`, `DeleteFacts`, `PutFacts`, `SentFacts`), for maps that hold no name in two
spellings (`OneSpelling`): the methods never make another, so `FetchAssumption` asks it
of the headers a script passes, together with urls that are urls and a natural
`follow`. The invariant `Chain` says of each request that it is live (its promise is
not rejected, or its native request was made) only if it is `Kept`: its number is
within the limit, each credential is the first one's with all hosts so far inside
the first, or gone with some hop elsewhere; its body is the first one's with its
length, or none with none announced. `InOrder` adds that only the last request can be
followed: all before it are over or in the middle of their answer. A redirection that
leaves the last url's domain drops the credentials; one that does not stays inside the
first, as the suffix of hosts is transitive (`SuffixOrder`).

### Document

The invariant has to say what list the links are, with no walk to say it by: whatever
follows the links n times is a recursive function, about which a step can be proved but
nothing for all n at once. So `RowsOf` says that for every parent there is a row, a
function from places to nodes: the parent, its attributes, its children and its end
(`Shape`). Its contents are the nodes whose parent or owner it is (`Contents`), the
links lead from each item's end to the next item (`LinksFollow`), and what is in no row has
no links (`Loose`). Rows do not nest, a child stands in its parent's row for all it holds;
that is why moving an element with everything below it changes two rows only, and why
no order between ancestors is needed. `Places` is the lemma everything rests on: every
link belongs to one place of one row. `Unlinked` and `LinkedIn` are the two ways in which
links change, an item leaving its row and an item entering one, and every call of a
script is shown to be a sequence of these, on the whole of the code's path for it.
The walks of the code (`ChildNodes`, `FirstChild`, the fragment's chain) are unfolded
along a row: a place where the walk and the row differ would have a least one, and at
that one a single step decides (`KidsByNext`, `KidsIn`). Each state on the way keeps
`Tells` too: what an observer's records would add to what it knows are the elements
whose parent is its target; the records of a call are queued as each node leaves and
arrives, so the lemmas about moves end in `Whole`, the rows together with `Tells`.

Two calls take the list through states that are not whole. A fragment's children are
linked in as one segment before their parents are set, and `Range` cuts a stretch of
siblings out before it removes its nodes one by one: the first is compared, place by
place, with the whole list it becomes, the second with what it would be without the cut
(`Torn`). A range over several siblings the last of which is a text breaks the list
(section 4), so both theorems assume `~AnyRange`, which leaves out these ranges and
nothing else. `DomAssumption` has finitely many nodes, and keeps the document, elements,
fragments, texts and attributes apart.

### Attributes

`ViewsAgree` compares what is read now with what the standard has, and reading means to
parse: a class is split at spaces, a style into declarations. So the proof has two
parts. The first is about texts. `split`, `join` and the declarations are folds, of which
nothing can be said at once for all texts; `Folding` says induction with sets instead
(`SetInduction`, `SequenceInduction`: a set that has the empty sequence, and with a
sequence every one that is one element longer, has all of them), and `FoldSteps`
unfolds a fold along a sequence. From these it follows that what is written is read
back: `TokensOfJoined` for a list of distinct tokens, and `DeclarationsOfMap` for a map
of keys and values, whose text has a `;` in neither, a `:` in no key, no space around
one, and none empty (`Maps`).

The second part is the invariant `Keeps`. The property alone is not inductive: what a
view shows after the next step depends on what it has kept, not on what it shows now.
`Sound`: an element has one attribute of a name, and the classList an element names is
its own. `PlainParts`: an attribute has the standard's value, that of a style excepted
which its own view wrote while out of date; a style's map was read from a node named
`style` and, while that node is not marked as changed and the view was not written past,
is what the node says now. `ClassAgree`: the classList, the attribute and the standard
have the same tokens in the same order, unless written past. The lemmas about writes
name what a call may touch (`Placed`, `Sets`, `Drops`, `ClassOnly`), are proved once
each, and every action is one or two of these. TLC checked the invariant on the
`elements` run before it was proved.

`ViewsAssumption` asks of the inputs what keeps a text readable, which the code leaves to
its callers: a token is not empty and has no space; a key has no `:` or `;`, a value no
`;`, neither is empty or has spaces around it. The attributes' values are any texts.
`AttrNodes` and `ListIds` may be infinite: then a call always finds a node to make.

### Model-checked only

* Liveness under fairness, which is out of the prover's reach, as is enabledness:
  `ImplementsService` (its safety part is proved), `MessagesHandled`, `StopEndsProcess`,
  `EventuallyFires`, `ConsoleProgress`, `SendReturns`, `TimeoutEndsWait`, `RequestEnds`,
  `AnswersDelivered`, `FetchEnds`.
* The modules with recursive operators, for which the prover has no arithmetic, and
  those over them: `Host`, `Url`, `FetchUrl`, `LegacyUrl`, `FetchTarget`, `Markup`,
  `CssWhat`, `CssSelect`, `SelectorMeaning`, `Elements`, and with them `UrlValid`,
  `HrefParsesBack`, `FetchAsksForUrl`, `AssignmentContained`, `ClassesAgree`, `MarkupKept`,
  `SelectorsAgree`. That `Elements` behaves as `AttributeViews`, whose theorem is proved,
  is seen from its `Next`, not proved, for the same reason.
* `TreeAsBuilt` of `Dom`: the order of the children needs what filters and flattening of
  sequences compute (`SelectSeq`, `FlattenSeq`), for which the provers have no theory, and
  what is connected needs that following parents ends, an order between ancestors
  that every call keeps: the rows of the proof do without one.
* `Buffers`, whose property is about what folds compute over bytes: that needs induction
  over data.

## 6. Not modelled

What a script computes, downloads (a success or a failure), what contexts offer
to scripts, logging, the argument conversions of the player bindings, the QuickJS
engine (mostly stubs). The console's step of `run` is in `Console` and not in
`Renderer`: the two share only the loop and `mRunning`. The `UNIT_TEST_BUILD` and
`NATIVEJS_L2_BUILD` variants are left out. Of the bundled JavaScript: events
of the document and `event.js`, form pseudo-classes, style sheets and hexadecimal escapes in
selectors, hexadecimal entities, upper case and doctypes in markup, names that are not
ASCII in URLs, compressed bodies and the conversions of bodies in fetch, and `noAssert`,
`toJSON` and `inspect` of buffers. Key events, module settings, container access, the inspector, local
storage and the player bindings are system calls, conversions or debugging aids
with little state of their own; the script WebSockets are a layer over uWS, apart from
all that is modelled here.
