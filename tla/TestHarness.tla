----------------------------- MODULE TestHarness -----------------------------
(***************************************************************************)
(* The sandbox every test of both repositories runs in: mocha's hooks      *)
(* around nested describe blocks, the snapshots of the local chain that    *)
(* addSnapshotBeforeRestoreAfterEach and cacheBeforeEach take and restore  *)
(* (utils/test/testingUtils.ts), the Blockchain class that asks the node   *)
(* for them (utils/common/blockchainUtils.ts), and the deployment helpers  *)
(* the hooks and the test bodies call.                                     *)
(*                                                                         *)
(* A spec file is a tree of describe blocks; each registers hooks, in      *)
(* order, of these kinds:                                                  *)
(*   "before"  before(...) with deployments                                *)
(*   "fork"    setBlockNumber(...)                                         *)
(*   "cache"   cacheBeforeEach(...) whose initializer deploys              *)
(*   "snap"    addSnapshotBeforeRestoreAfterEach()                         *)
(*   "each"    beforeEach(...) with deployments                            *)
(* Mocha runs one hook at a time and awaits it; a hook can throw, and the  *)
(* rest of its block is then skipped.  A deployed contract is at the       *)
(* address given by its position: reverting the chain reverts the          *)
(* deployer's nonce, so an address is used again by what comes next.       *)
(***************************************************************************)
EXTENDS Deployment, Integers, SequencesExt

CONSTANTS Files,         \* the spec files: sequences of describe blocks
          Calls,         \* pairs of a file and the helper its hooks call
          MaxFailures    \* bound: how many hooks or bodies throw

\* A describe block: its parent's number (0 for the outermost), the hooks it
\* registers, and the number of its tests.
Block(parent, hooks, tests) ==
  [parent |-> parent, hooks |-> hooks, tests |-> tests]

ASSUME MaxFailuresAssumption == MaxFailures \in Nat

VARIABLES file,         \* the spec file that runs
          helper,       \* the deployment helper its hooks and tests call
          agenda,       \* mocha: what is still to run, in order
          libs,         \* the libraries the running hook has deployed
          chain,        \* the node: contracts, by address
          saved,        \* the node: its snapshots, by id
          nextId,       \* the node: the next snapshot id
          SNAPSHOTS,    \* testingUtils.ts: the stack of snapshot ids
          initialized,  \* the caches whose initializer has completed
          snapshotId,   \* the _snapshotId of each hook's Blockchain object
          handles,      \* the contract object each hook keeps in a variable
          failures      \* how often something threw so far

vars == <<file, helper, agenda, libs, chain, saved, nextId, SNAPSHOTS,
          initialized, snapshotId, handles, failures>>

-----------------------------------------------------------------------------
(***************************************************************************)
(* Mocha.  The order in which a file's hooks and tests run.                *)
(***************************************************************************)
Ancestors(f, b) ==
  LET up[x \in 0 .. Len(f)] ==
        IF x = 0 THEN <<>> ELSE Append(up[f[x].parent], x)
  IN up[b]

Kind(f, h) == f[h[1]].hooks[h[2]]

\* The hooks of block b registered under a mocha hook of that name.
Registers ==
  [before |-> {"before", "fork"}, beforeEach |-> {"cache", "snap", "each"},
   afterEach |-> {"snap"}, after |-> {"cache", "fork"}]

registered(f, b, what, in, test) ==
  LET all == [k \in DOMAIN f[b].hooks |->
                [what |-> what, hook |-> <<b, k>>, in |-> in, test |-> test]]
  IN SelectSeq(all, LAMBDA e : Kind(f, e.hook) \in Registers[what])

\* One test: the beforeEach hooks from the outermost block in, the body, the
\* afterEach hooks from its block out.
testRun(f, b, t) ==
  LET path == Ancestors(f, b)
  IN FlattenSeq([i \in DOMAIN path |->
                   registered(f, path[i], "beforeEach", b, t)])
       \o <<[what |-> "it", hook |-> <<b, 0>>, in |-> b, test |-> t]>>
       \o FlattenSeq([i \in DOMAIN path |->
            registered(f, path[Len(path) + 1 - i], "afterEach", b, t)])

\* A block: its before hooks, its tests, the blocks inside it, its after hooks.
blockRun(f) ==
  LET from[b \in 0 .. Len(f)] ==
        LET b1 == Len(f) + 1 - b   \* blocks inside come later in the file
            inner == SelectSeq([i \in DOMAIN f |-> i],
                               LAMBDA i : f[i].parent = b1)
        IN IF b = 0 THEN <<>>
           ELSE registered(f, b1, "before", b1, 0)
                  \o FlattenSeq([t \in 1 .. f[b1].tests |-> testRun(f, b1, t)])
                  \o FlattenSeq([i \in DOMAIN inner |->
                                   from[Len(f) + 1 - inner[i]]])
                  \o registered(f, b1, "after", b1, 0)
  IN from[Len(f)]

\* After hook e threw: what mocha still runs.  The afterEach hooks of e's
\* block and of those around it end the test; of e's block and the ones open
\* inside it only the after hooks are left.
afterThrow(f, e, rest) ==
  LET block == e.hook[1]
      inside == {b \in DOMAIN f : block \in ToSet(Ancestors(f, b))}
      open == {b \in inside : b \in ToSet(Ancestors(f, e.in))}
  IN SelectSeq(rest, LAMBDA n :
       \/ n.in \notin inside
       \/ n.what = "after" /\ n.in \in open
       \/ /\ n.what = "afterEach" /\ n.in = e.in /\ n.test = e.test
          /\ n.hook[1] \in ToSet(Ancestors(f, block)))

-----------------------------------------------------------------------------
(***************************************************************************)
(* The node.  Ids are never used again, except that hardhat_reset starts   *)
(* afresh; evm_revert drops the snapshot and all later ones, and answers   *)
(* false, which nobody looks at, when it does not know the id.             *)
(***************************************************************************)
evm_snapshot == [saved |-> saved @@ (nextId :> chain), nextId |-> nextId + 1]

evm_revert(id) ==
  IF id \in DOMAIN saved
  THEN [chain |-> saved[id],
        saved |-> [i \in {j \in DOMAIN saved : j < id} |-> saved[i]]]
  ELSE [chain |-> chain, saved |-> saved]

-----------------------------------------------------------------------------
Event == Head(agenda)
Running(what, kind) ==
  agenda # <<>> /\ Event.what = what /\ Kind(file, Event.hook) = kind

\* A hook or a body that deploys, as opposed to one that moves snapshots.
Deploying ==
  /\ agenda # <<>>
  /\ \/ Event.what = "it"
     \/ Running("before", "before")
     \/ Running("beforeEach", "each")
     \/ Running("beforeEach", "cache") /\ Event.hook \notin initialized

Init ==
  /\ \E c \in Calls : file = c.file /\ helper = c.helper
  /\ agenda = blockRun(file)
  /\ libs = <<>> /\ chain = <<>> /\ saved = <<>> /\ nextId = 1
  /\ SNAPSHOTS = <<>> /\ initialized = {} /\ snapshotId = <<>>
  /\ handles = <<>> /\ failures = 0

By == [what |-> Event.what, hook |-> Event.hook]

\* The libraries are awaited one by one, before the contract.
deployLibrary ==
  /\ Deploying /\ Len(libs) < Len(libraries(helper))
  /\ LET name == libraries(helper)[Len(libs) + 1]
     IN chain' = Append(chain, [is |-> name, slots |-> <<>>, links |-> <<>>,
                                by |-> By])
  /\ libs' = Append(libs, Len(chain'))
  /\ UNCHANGED <<file, helper, agenda, saved, nextId, SNAPSHOTS, initialized,
                 snapshotId, handles, failures>>

\* The constructor takes each value under the name of the parameter at its
\* position, and the bytecode has the library's address where its link id was.
contractOf(h) ==
  [is |-> h.contract,
   slots |-> [i \in DOMAIN parameters(h) |->
                [parameter |-> parameters(h)[i], value |-> arguments(h)[i]]],
   links |-> [i \in DOMAIN libs |->
                [lib |-> libraries(h)[i], address |-> libs[i]]],
   by |-> By]

deployed ==
  /\ Deploying /\ Len(libs) = Len(libraries(helper))
  /\ chain' = Append(chain, contractOf(helper))
  /\ libs' = <<>> /\ agenda' = Tail(agenda)
  /\ handles' = IF Event.what = "it" THEN handles
                ELSE (Event.hook :> Len(chain')) @@ handles

\* A hook or a test deploys its contract.
deployContract ==
  /\ deployed /\ ~Running("beforeEach", "cache")
  /\ UNCHANGED <<file, helper, saved, nextId, SNAPSHOTS, initialized,
                 snapshotId, failures>>

\* cacheBeforeEach, first time: the initializer, a snapshot, and its id on
\* the stack.
initializeCache ==
  /\ deployed /\ Running("beforeEach", "cache")
  /\ saved' = saved @@ (nextId :> chain')
  /\ nextId' = nextId + 1
  /\ snapshotId' = (Event.hook :> nextId) @@ snapshotId
  /\ SNAPSHOTS' = Append(SNAPSHOTS, nextId)
  /\ initialized' = initialized \union {Event.hook}
  /\ UNCHANGED <<file, helper, failures>>

\* Mutant: a new snapshot without going back to the old one.
restoreCache_noRevert ==
  /\ Running("beforeEach", "cache") /\ Event.hook \in initialized
  /\ saved' = evm_snapshot.saved /\ nextId' = evm_snapshot.nextId
  /\ snapshotId' = (Event.hook :> nextId) @@ snapshotId
  /\ SNAPSHOTS' = Append(Front(SNAPSHOTS), nextId)
  /\ agenda' = Tail(agenda)
  /\ UNCHANGED <<file, helper, libs, chain, initialized, handles, failures>>

\* cacheBeforeEach, later: back to the snapshot on top of the stack, whoever
\* took it, and a new one in its place (evm_revert has used it up).
restoreCache ==
  /\ Running("beforeEach", "cache") /\ Event.hook \in initialized
  /\ LET reverted == evm_revert(Last(SNAPSHOTS))
     IN /\ chain' = reverted.chain
        /\ saved' = reverted.saved @@ (nextId :> reverted.chain)
  /\ nextId' = nextId + 1
  /\ snapshotId' = (Event.hook :> nextId) @@ snapshotId
  /\ SNAPSHOTS' = Append(Front(SNAPSHOTS), nextId)
  /\ agenda' = Tail(agenda)
  /\ UNCHANGED <<file, helper, libs, initialized, handles, failures>>

\* Mutant: pops for a cache whose initializer never completed.
popCache_always ==
  /\ Running("after", "cache")
  /\ SNAPSHOTS' = Front(SNAPSHOTS)
  /\ agenda' = Tail(agenda)
  /\ UNCHANGED <<file, helper, libs, chain, saved, nextId, initialized,
                 snapshotId, handles, failures>>

\* cacheBeforeEach's after hook.
popCache ==
  /\ Running("after", "cache")
  /\ SNAPSHOTS' = IF Event.hook \in initialized THEN Front(SNAPSHOTS)
                                                ELSE SNAPSHOTS
  /\ agenda' = Tail(agenda)
  /\ UNCHANGED <<file, helper, libs, chain, saved, nextId, initialized,
                 snapshotId, handles, failures>>

saveSnapshotAsync ==
  /\ Running("beforeEach", "snap")
  /\ saved' = evm_snapshot.saved /\ nextId' = evm_snapshot.nextId
  /\ snapshotId' = (Event.hook :> nextId) @@ snapshotId
  /\ agenda' = Tail(agenda)
  /\ UNCHANGED <<file, helper, libs, chain, SNAPSHOTS, initialized, handles,
                 failures>>

revertAsync ==
  /\ Running("afterEach", "snap")
  /\ LET id == IF Event.hook \in DOMAIN snapshotId
               THEN snapshotId[Event.hook] ELSE 0
     IN chain' = evm_revert(id).chain /\ saved' = evm_revert(id).saved
  /\ agenda' = Tail(agenda)
  /\ UNCHANGED <<file, helper, libs, nextId, SNAPSHOTS, initialized,
                 snapshotId, handles, failures>>

\* setBlockNumber, and its after hook: hardhat_reset discards the chain and
\* its snapshots.
setBlockNumber ==
  /\ Running("before", "fork") \/ Running("after", "fork")
  /\ chain' = <<>> /\ saved' = <<>> /\ nextId' = 1
  /\ agenda' = Tail(agenda)
  /\ UNCHANGED <<file, helper, libs, SNAPSHOTS, initialized, snapshotId,
                 handles, failures>>

\* A deployment reverts or an assertion fails, possibly with libraries already
\* on the chain.  A failed body ends its test; a failed hook, its block.
throws ==
  /\ Deploying /\ failures < MaxFailures
  /\ agenda' = IF Event.what = "it" THEN Tail(agenda)
               ELSE afterThrow(file, Event, Tail(agenda))
  /\ libs' = <<>> /\ failures' = failures + 1
  /\ UNCHANGED <<file, helper, chain, saved, nextId, SNAPSHOTS, initialized,
                 snapshotId, handles>>

\* The run is over.
finished == agenda = <<>> /\ UNCHANGED vars

Next ==
  \/ deployLibrary \/ deployContract \/ initializeCache \/ restoreCache
  \/ popCache \/ saveSnapshotAsync \/ revertAsync \/ setBlockNumber \/ throws
  \/ finished

Spec == Init /\ [][Next]_vars

-----------------------------------------------------------------------------
(***************************************************************************)
(* Which files the sandbox is built for: a cache is not taken below a hook *)
(* whose changes another hook undoes, or repeats, for every test.  On the  *)
(* path to a test, caches come before any "snap" or "each", nothing below  *)
(* a cache deploys in a "before", and every test has a cache or a "snap".  *)
(***************************************************************************)
pathKinds(f, b) ==
  LET path == Ancestors(f, b)
  IN FlattenSeq([i \in DOMAIN path |-> f[path[i]].hooks])

WellNested(f) ==
  \A b \in DOMAIN f :
    LET p == pathKinds(f, b) IN
    /\ \A i, j \in DOMAIN p :
         i < j => /\ p[j] = "cache" => p[i] \notin {"snap", "each"}
                  /\ p[j] \in {"before", "fork"} => p[i] # "cache"
    /\ f[b].tests > 0 => {"cache", "snap"} \intersect ToSet(p) # {}

ASSUME FilesAreWellNested ==
  \A f \in Files : f # <<>> /\ f[1].parent = 0 /\ WellNested(f)
                   /\ \A b \in 2 .. Len(f) : f[b].parent \in 1 .. b - 1

-----------------------------------------------------------------------------
(***************************************************************************)
(* Properties.                                                             *)
(***************************************************************************)

\* Whenever a test body starts, every contract object that the hooks around
\* it keep in a variable stands for the contract that very hook deployed, and
\* the libraries linked into it are there: restoring a snapshot
\* (testingUtils.ts) never takes away or replaces, at a reused address, what a
\* still valid variable points to.
HandlesLive ==
  agenda # <<>> /\ Event.what = "it" /\ libs = <<>> =>
    \A h \in DOMAIN handles :
      h[1] \in ToSet(Ancestors(file, Event.in)) =>
        /\ handles[h] \in DOMAIN chain
        /\ LET c == chain[handles[h]] IN
           /\ c.by.hook = h
           /\ c.is = helper.contract
           /\ \A i \in DOMAIN c.links :
                /\ c.links[i].address \in DOMAIN chain
                /\ chain[c.links[i].address].is = c.links[i].lib

\* "It snapshots and restores between each test": when a test body starts,
\* nothing another test body deployed is on the chain, nor anything a
\* beforeEach hook of a block beside it deployed.
TestsIsolated ==
  agenda # <<>> /\ Event.what = "it" /\ libs = <<>> =>
    \A i \in DOMAIN chain :
      LET by == chain[i].by
      IN \/ by.what = "before"
         \/ /\ by.what = "beforeEach"
            /\ by.hook[1] \in ToSet(Ancestors(file, Event.in))

\* Every test of a file starts from the state its own hooks set up, and from
\* nothing else, in whatever order blocks with caches and snapshots are nested
\* and whichever hooks before it threw (testingUtils.ts).
TestsStartClean == HandlesLive /\ TestsIsolated

\* The stack of snapshot ids, which all caches share, always holds exactly
\* one id for each cache that is initialized and whose block is still open,
\* in the order they were taken, and while a test is left to run each can
\* still be reverted to: evm_revert's unchecked answer is never false.  So
\* also when an initializer throws half way; at the end of the file the
\* stack is empty.
SnapshotsBalanced ==
  /\ Len(SNAPSHOTS) =
       Cardinality({h \in initialized :
                      \E i \in DOMAIN agenda : /\ agenda[i].what = "after"
                                               /\ agenda[i].hook = h})
  /\ \A i \in DOMAIN SNAPSHOTS :
       /\ (\E k \in DOMAIN agenda : agenda[k].what = "it")
            => SNAPSHOTS[i] \in DOMAIN saved
       /\ i > 1 => SNAPSHOTS[i - 1] < SNAPSHOTS[i]

\* A helper hands over each value at the position of the constructor parameter
\* that is called like it, if there is one: what the helper calls the Curve
\* address provider is what the constructor takes as that.  (Where the two
\* use different names, nothing is said.)
EveryArgumentInPlace ==
  \A i \in DOMAIN chain :
    LET slots == chain[i].slots IN
    \A j, k \in DOMAIN slots :
      slots[j].value = slots[k].parameter => j = k

=============================================================================
