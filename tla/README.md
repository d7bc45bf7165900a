# A TLA+ model of rustables

rustables is a Rust crate that talks to the kernel's nf_tables subsystem over
netlink.  It builds objects (tables, chains, rules, sets), serialises them into
one batch, sends the batch, and waits for the acknowledgements; it also lists
the objects the kernel holds.  This directory models that conversation, the
wire format under it, the rules that the builder methods produce and what they
do to packets.  TLC checks the models on small instances, and TLAPS proves the
parts that matter most for every instance.

Paths below are relative to the repository: `src/src/...`, `src/macros/...`
and `src/examples/...`.

## The system and its parts

| Part | Source | Modules | State |
|---|---|---|---|
| message headers, parsing | `parser.rs`, `nlmsg.rs` | `Netlink` | operators |
| receive loop | `query.rs` (`recv_and_process`) | `RecvLoop` | buffer, cursors, socket queue |
| message writer | `nlmsg.rs` (`NfNetlinkWriter`) | `Writer` | operators on a writer |
| batch | `batch.rs`, `nlmsg.rs` | `Batch` | writer, sequence number |
| sending a batch | `batch.rs`, `query.rs` | `BatchSend`, `Transaction` | the three above, the socket, a kernel |
| listing | `query.rs`, `table.rs`, `chain.rs`, `rule.rs` | `Listing` | receive loop, the socket, a kernel, other processes |
| attribute codec | `parser.rs`, `parser_impls.rs`, the derive macro | `Encoder`, `Codec` | object, wire, result |
| objects and expressions as structs | `table.rs`, `chain.rs`, `rule.rs`, `set.rs`, `expr/*.rs` | `Objects` | tables of fields and enums |
| header field tables | `expr/payload.rs` | `Headers`, `PayloadFields` | a raw payload, the field parsed from it |
| expressions as instructions | `expr/*.rs` | `Expressions` | operators |
| rule builder methods | `rule_methods.rs`, `rule.rs` | `RuleMethods`, `RuleBuilder`, `RuleSemantics` | the expressions of a rule |
| set builder | `set.rs`, `data_type.rs`, `expr/lookup.rs` | `SetBuilder` | the set, its elements, the lookup |
| example programs | `examples/firewall.rs`, `examples/add-rules.rs` | `Examples` | the kernel's ruleset |
| the kernel that runs rules (external) | none | `Nftables`, `Ruleset` | registers; tables of chains of rules |

`Batch` and `Listing` are built on `Writer`; `BatchSend` and `Listing` each
contain the whole of `RecvLoop` through `R == INSTANCE RecvLoop`, so that the
receive loop that is proved correct is the one they run.  `SetBuilder` and
`Examples` use the expressions of `RuleMethods` and run them on `Nftables`.
`MC*` modules give the constants values for TLC; `*Proofs` modules hold the
theorems.  `RuleMethodsProofs` holds no theorem of its own but what the proofs
about rules, sets and programs share.

The crate is single-threaded.  The concurrency is outside: the kernel answers
while the client runs, other processes change the ruleset, the socket queue can
overrun, and every system call can fail.

## What the modules model

### The conversation

**A byte buffer** is its length and a function from the offsets where something
starts to what starts there.  This keeps offsets, lengths, padding and
truncation exact and leaves the bytes out.  `Tiles(at, lo, hi)` says, without
recursion, that the length fields lead from `lo` to `hi` with nothing left
over.  It describes well-formed datagrams, the unread part of the receive
buffer, and a batch.

**`Netlink`**: `Pad`, `GetNlmsghdr` and `ParseNlmsg` with every check in the
order of the code; the result is the `NlMsg` variant or the `DecodeError`.

**`RecvLoop`**: one action per blocking point or loop turn.  `Begin` starts the
call, `Recv` and `RecvFails` are the two outcomes of `recv()`, `Handle` is one
turn of the inner loop, `Relocate` its exit and the code behind it.  `Verdict`
keeps the order of the decisions: done, error, callback, termination, sequence
number.  A backward slice is the result `Panic`.

**`Writer`, `Batch`**: `AddDataZeroed`, `WriteHeader` and
`FinalizeWritingObject` are the three methods of the writer; `BatchInit`, `Add`
and `Finalize` those of `Batch`.  `add_iter` is a loop of `add`.

**`BatchSend`**: `OpenSocket`, `BindFails`, `Submit`, `Collect`, `Receive` and
`Close` are the statements of `Batch::send()` in order, each with its failure.
The kernel is external and written from what the code relies on: it walks the
length fields, executes each request, commits at BATCH_END unless something
failed, and queues one answer for each request that failed or asked for one.
The answer to a failed request repeats the request, so it can be longer than a
message buffer has room for, and `recv()` cuts it.  The kernel may refuse the
batch at once, fail the commit, or lose answers to an overrun, which the next
`recv()` then reports.

**`Transaction`** is what `Batch` promises ("performed in one atomic
operation"): the change happens as a whole or not at all, and the answer says
which, or that it is unknown.  `BatchSend` implements it (property `Atomic`);
the mapping, `Stage`, reads the transaction's stage off the answer and the
kernel's outcome.

**`Listing`**: the dump request, the receive loop with the decoding callback,
the filter of `list_chains_for_table`, and the close.  The kernel fills a
datagram at a time, resumes by position, and sets NLM_F_DUMP_INTR on the next
message when the generation has changed.  Some objects may be undecodable.  The
kernel may also refuse the request (`Refuse`: NLMSG_ERROR with an errno and no
object), and `recv()` may fail at any time (`SocketError`), with a part of the dump
already collected.

### The wire format

**`Encoder`**: values are trees of structs, lists and leaves.  `SizeOver` is
`get_size` and `PayloadOver` is `write_payload`, each in terms of the values that a
value consists of; `SizeTo` and `PayloadTo` apply them to all values up to a depth.
Its state machine is what the writer promises: whatever tree is sent, the wire holds
its encoding.

**`Codec`** adds where the trees come from and how they are read.  Its `Send` puts
the encoding of a tree on the wire, as `EncoderNext` does.  `ReadAttributes`,
`ReadList` and `ReadLeaf` read a wire back by type, as the derived decoders do.
A slice out of bounds is `panic`.  `KernelTree` is the kernel's rendering of the
same object: strings end in a NUL, attributes come in another order, and one
attribute is unknown to the crate.  The decoder of an expression needs the name
before the data; `KernelWrite` sends them in either order.

**`Objects`**: the schemas the codec works from, one per struct of the crate
(three kinds of object, sets and their elements, all 16 variants of `ExpressionVariant`), and the
enums with the values that can be read back.

**`Headers`**: the offset and length of every header field, and, written apart
as in the code, the inverse tables of `from_raw_data`.  **`PayloadFields`** takes
a raw `Payload`, parses it, decodes it and builds it again.

### Rules and packets

**`RuleMethods`** has one operator for each method of `rule_methods.rs`: the
sequence of expressions that it appends, with the real bytes that it compares.
**`RuleBuilder`** has one action for each method, and the errors that the
builders return.  `Expressions` says for each expression which register it
reads and writes and how many bytes.

**`Nftables`** (external) runs a rule on a packet: registers, comparisons,
masks, verdicts, NAT, the MSS option, logs.  Writing the MSS option always
overwrites it; Linux leaves an MSS alone that is smaller already.  A packet carries the byte order of
the host it has come to, because meta and conntrack keys are in host order.
**`RuleSemantics`** compares the result with `Documented`, which reads the doc
comments of the methods as predicates on packets.

**`Ruleset`** (external, but for the messages that the crate builds) keeps
tables of chains of rules and applies a batch as a whole.  **`Examples`** runs
the two programs repeatedly and in any order, with sends that may fail before or
behind the commit, and lets packets pass in between.

**`SetBuilder`** builds a set for each key type and runs a rule with the
`Lookup` of that set, to which the caller may have given an id.

## Runs

| Run | Config | Shows |
|---|---|---|
| `recv_loop` | `RecvLoop.cfg` | cursors stay on message boundaries, no datagram is cut, nothing is misread |
| `batch` | `Batch.cfg` | framing, numbering, and that the acknowledged numbers are exactly `1 .. max_seq` |
| `batch_send` | `BatchSend.cfg` | the answer of `send()` agrees with the ruleset; the first error is reported; a non-empty batch gets an answer |
| `listing` | `Listing.cfg` | what is received, and what is returned of it, is one generation of the ruleset; the error that it returns instead has happened (`FailureIsReal`); a listing ends |
| `codec` | `Codec.cfg` | written objects are read back in exactly the cases `Readable` and `Fits` name, and what is not accepted is refused, never misread (`LosslessOrRefused`) |
| `payload_fields` | `PayloadFields.cfg` | the offset tables and their inverses agree |
| `rule_semantics` | `RuleSemantics.cfg` | any three methods in a row do what their comments say, but for the divergences listed below, each shown by a packet |
| `examples` | `Examples.cfg` | the ruleset the programs leave treats packets as their comments say, counts and logs exactly what `CounterExact` and `LogsExact` say |
| `set_builder` | `SetBuilder.cfg` | keys have the declared length, and a lookup matches exactly the added keys |
| `batch_send_empty` | `BatchSendEmpty.cfg` | counterexample: an empty batch blocks |
| `listing_family` | `ListingFamily.cfg` | counterexample: rules of another family are listed |
| `rule_sport` | `RuleSport.cfg` | counterexample: `sport` compares the destination port |

`CHECK_DEADLOCK FALSE` is set because every modelled call or program returns or
blocks, and then nothing is left to do.

Two exceptions are part of the properties because the code has them:
`SocketReleased` allows a failed `send()` (and, in `Batch::send()`, a failed
`bind()`) to leave the socket open, and `Atomic` allows `NetlinkRecvError` and
`CloseFailed` to leave the outcome open.  `CloseFailed` can hide an `Ok` because
`socket_close_wrapper` looks at the error of `close()` first.

### Where the code and its comments disagree

`PROJECT.json` quotes each comment.  Three have a counterexample of their own
(the last three runs).  The others are written into an exact property of a
passing run, which says what the code does instead:

* `RoundTrip`: a rule with a `Masquerade`, and a chain with policy Drop, are
  written and do not come back; `HeaderLengths`: `nla_len` wraps at 65532 bytes.
* `DivergencesAreReal`: `iface_id` and `oface_id` on a little-endian host, unless
  the index reads the same in both byte orders; `established` on a big-endian
  host; `dnat` to an IPv6 address; `syn` on packets that are not TCP; and `iface`
  and `oface` with a name that ends in NUL bytes.
* `LogsExact`: the firewall never writes the ssh log line, and does not log the
  IGMP packets that it drops.

One observation has no property: `SetBuilder::new` leaves the family of the set
at `Unspec`, unlike `Chain::new` and `Rule::new`.  What the kernel makes of it
is not shown by anything in the repository.

### Bounds

* `RecvLoop.cfg`: `MaxSize` 79 is odd on purpose and holds two to four messages,
  so that a buffer of `2 * MaxSize` fills, is rewound and fills again, with
  lengths that are and are not multiples of 4.  `MaxInbox` bounds the queue,
  `MaxAcc` the objects listed.
* `Batch.cfg`: up to four requests over three objects, one of them without
  attributes.  `SeqLimit` 5 bounds the sequence numbers; the increment in
  `Batch::add` would overflow only after 2^32 messages, more than a batch in
  memory can hold, so the wrap is not modelled.
* `BatchSend.cfg`: up to three requests over two objects, two errnos so that the
  first error can be told from the second, and `MaxSize` 63, so that one
  acknowledgement leaves the buffer below the threshold and the next one does
  not.  A rule is 80 bytes, so that the answer to a rule that failed is longer
  than `MaxSize` and is cut when it is not the first in the buffer.
* `Listing.cfg`: four objects that differ in family, table or chain, one of
  them undecodable, three generations, at most two objects of 24 bytes per
  datagram (`MaxSize` 75 holds them and NLMSG_DONE), so that a dump takes up to
  three datagrams and the ruleset can change between each two.  One errno is
  enough for the refusal of the one request.
* `Codec.cfg`: rules with up to two expressions, every expression type, chains
  with every combination of hook, policy and type, tables and set elements with
  leaves of 0 to 16 bytes and of 65531, 65532 and 65539 bytes.  `MaxDepth` 6 is
  the depth of the deepest type: a rule holds a list of expressions, an expression
  an immediate, that some data, that a verdict, that its code.
* `PayloadFields.cfg`: every base with offsets and lengths that contain all those
  of the tables and some that no field has.
* `RuleSemantics.cfg`: up to `MaxCalls` 3 methods on a rule, so that a register
  can be loaded, overwritten and compared; interface names of 15 and 16 bytes
  and one that ends in a NUL; an index that differs between the byte orders and one
  (65792) that does not; prefixes inside and at the border of an octet; packets of both byte orders.
* `Examples.cfg`: `MaxRuns` 4 programs, `MaxPackets` 3 outgoing packets, one
  packet for each case of the comments.
* `SetBuilder.cfg`: `MaxKeys` 3, so that a key can be added twice next to another.

### Fairness

`BatchSend` assumes weak fairness of `send()` once it is called and of the
kernel inside a system call: one thread runs its next statement unless it is
blocked in `recv()`.  Nothing obliges the caller to call `send()`.  `Listing`
assumes the same of the client and of the kernel's filling of a queue that has
been emptied, which a refusal makes unnecessary.  Nothing obliges the kernel to
refuse, a call of `recv()` to fail, or another process to do anything.

## Proofs

All theorems hold for every value of the constants that satisfies the named
assumptions.

**`RecvLoopProofs`.**  Assumptions: `MaxSize` is positive, datagrams are
`WellFormed` and not longer than `MaxSize`.  The inductive invariant is
`TypeOK /\ Cursors`: while the inner loop runs, the unread bytes are tiled by
whole messages, each long enough for its type; `recv()` is only called with no
unread bytes and with `end_pos < MaxSize`.  `FreeSpace` and `NeverMisreads` are
not inductive by themselves: that `end_pos` is small depends on the unread part
being empty at the threshold, and that on the tiling.  A consequence is that the
copy in the relocation never moves a byte.

**`BatchProofs`.**  First `Batch` alone.  Assumptions: sizes are naturals,
kinds and families are of the crate (`ObjectsAssumption`).  The invariant adds to
the properties that the last message is numbered `seq - 1`; `AppendStep` proves
once what appending a message preserves, for objects and delimiters alike.

Then `BatchSend`: the steps of the receive loop, of the kernel and of the sender.
The theorems say that `Batch::send()` implements `Transaction`, reports the first
error, has read every answer when it returns Ok, and closes its socket.  Beyond
`ObjectsAssumption` this needs that an acknowledgement of success fits in a
message (`AckFitsAssumption`).  The invariant `SInv` follows
three parties that never look at each other's state:

* `Progress`, the stages of `send()`;
* `Walk`, `History` and `Verdicts`, the kernel: it is at a message of the batch and
  has answered the requests before it, in order; there is a path of rulesets,
  one step per request, from the committed ruleset to the one that the calls to
  `add()` describe, and the kernel is on it until a request fails;
* `Reception`, the receive loop: of the answers that the queue had room for,
  some number has been received, all of them but the last were successes with
  numbers below `max_seq`, and the last one is in the buffer.

`Atomic` needs all three: Ok is returned on the acknowledgement numbered
`max_seq`, every earlier answer was then a success, so the kernel has reached
the end of the path.

**`ListingProofs`** shows for any ruleset, any number of objects and datagrams and
any sequence of changes that a listing that ends well has received the answer of
one generation (`WholeDump`), never loses the framing, and closes its socket.
Assumptions: a datagram of the dump, and a refusal with the request that it
repeats, fit in a message buffer and objects are aligned (`DumpAssumption`).  The receive loop is not proved again: `RP == INSTANCE
RecvLoopProofs` supplies its invariant for the datagrams of a dump.  `LInv` adds
`Position`: the unread part of the buffer and the queue are objects, and possibly
NLMSG_DONE, in the order of the dump, and either everything received, unread and
queued follows the dump of the generation last read (`Fresh`), or the next
message carries NLM_F_DUMP_INTR (`Interrupted`) and the loop will stop there.  When
the kernel has refused, `Refused` takes the place of `Position`: nothing was
collected and the one message, queued or in the buffer, is the refusal.

`Snapshot` is about what is returned.  The kernel leaves out objects by the
request, and the caller leaves out more by its own arguments; the proof shows that
the two filters one after the other keep the elements, in their order, that the
arguments name, and that the request and the query belong together in every state.
It needs one more assumption, that a body of a request is told from an absent one
(`RulesetAssumption`).

**`RuleMethodsProofs`** has no state.  It says what the machine of `Nftables` does
with what each method of `rule_methods.rs` appends: for every state that goes on,
every argument and every packet, the method's expressions stop the rule exactly
when the packet fails the test that the lemma names, and change nothing but
registers.  `RunFrom` is taken apart at every `\o`; the network tests rest on
lemmas about bits, that masking with the high bits and comparing is comparing the
quotients, octet by octet.  Packets are those of `IsPacket`
(`PacketsAssumption`): addresses of the length of the family, numbers in the
range of their field, interface names of at most 15 bytes without a NUL.

**`BuilderProofs`** is about what the crate builds and writes.

* Attributes, `WritesInside` and `HeaderLengths`, for every tree and every
  `MaxDepth`: `get_size` and `write_payload` are two loops over the same attributes,
  written apart in the macro and again for lists.  `LoopsAgree` shows that the cursor
  of the second is always the partial sum of the first.  So if no value of depth
  d - 1 writes outside its size, or one thing over another, no value of depth d does
  (`OverInside`), and the induction is on d (`PayloadInside`).  Structs pad their
  fields and lists do not pad their elements; that lists and structs each use one
  rule for both loops is all the proof needs.
* Payloads: the tables of `Headers` and the matches of `from_raw_data` are inverse
  for every offset and length.  `NoneAssumption`: an absent attribute is none of the
  values.
* Rules, `RegistersFed` and `NoLengthMismatch`: no expression of a rule reads a
  register that was not loaded, or more bytes than were loaded, and no method fails
  on the lengths of a mask.  `Fed` is closed under concatenation and holds of what
  each method appends alone, so that `MaxCalls` plays no part.

**`RuleSemanticsProofs`** shows `MatchesDocumentation`: for every packet and any
calls, the machine decides as the doc comments say, unless the calls are among
`Diverges`.  The invariant says that the rule is what the calls append, one after
the other; the induction goes over the calls, and relates the machine behind i calls
to the documented state behind i calls, one lemma for each method.

**`EvaluationProofs`** has the rest that is about packets.

* Sets, `KeysFit` and `LookupFindsKeys` for any number of keys: the invariant `BInv`
  says that the set, its list of elements and the lookup carry the same names and
  that the elements are keys of the type of the set.
* `DivergencesAreReal`, the converse of `MatchesDocumentation`: the list `Diverges`
  has no call too many, whatever the arguments.  The property speaks of packets that
  exist, so the theorem has the hypothesis that all packets may arrive (`AllPackets
  \subseteq Packets`; the run shows it with a few).  For each listed call the proof
  names the packet (`Probe`) about which rule and comment differ.  The invariant
  `FirstShown` keeps that for the first call on a rule.

The two proofs together fix the list exactly, and each corrected it once.  The first
met a divergence that the instance had not contained: a `&str` with a NUL in it is no
interface name, but `iface` and `oface` accept it, and "eth1\0" matches the packets of
eth1.  The second met two calls that were listed and are right: an interface index
whose bytes read the same in both orders, such as 65792, and a name with a NUL further
in front, which matches no packet, as it should.  Both are in the instance now.

Assumptions on what methods are called with (`ParametersAssumption`): addresses have
4 or 16 octets, a prefix is not longer than its address, as `IpNetwork` guarantees,
and ports are 16-bit numbers.

**`ExamplesProofs`** is about any number of runs, failed or not, and any number of
packets.  The five properties are not inductive: what a chain does with a packet
depends on all of its rules.  The invariant `ExamplesInv` gives the ruleset in
closed form: there are n, a multiple of seven, and e such that the inbound chain
of the firewall has the rules of `start` n / 7 times over and is absent when n is
0, and the table of add-rules has e copies of each of its rules, the first with a
counter of `private` and all others with zero.  Its proof follows each batch
message by message (`StartCommitted`, `StopCommitted`, `AddRulesCommitted`) and
each packet rule by rule (`InboundRun`, `OutRun`).  `HostAssumption`: the host is
little-endian, since add-rules compares the interface index with `to_le_bytes`, and
the name of the loopback interface is an interface name.

Induction.  The library's induction theorems have an operator parameter, which no
installed prover can instantiate.  `NaturalInduction` states the principle for a
set of numbers instead and is proved from the well-foundedness of `<`.  A recursive
function is reasoned about through a predicate that says that some f satisfies the
equation up to n (`IsCommit`, `IsRulesRun`, `IsKept`, `IsDocumented`); that there
is such an f is proved by that induction.

Only model-checked:

* liveness (`Returns`, `NonEmptyReturns`): outside what the prover does;
* `RoundTrip` and `LosslessOrRefused` of `Codec`: the reader is given by `RECURSIVE`
  operators, which the prover cannot use;
* `FailureIsReal` of `Listing`, which says of the errors what the theorems say of Ok.

## Not modelled

* `examples/filter-ethernet.rs`: its rules depend on which link-layer data the
  kernel offers in an output chain, which nothing in the repository shows;
* `iface_index`, a lookup in libc;
* macro argument parsing and the generated bindings, which run at compile time;
  what the macro generates is modelled in `Encoder` and `Codec`;
* UTF-8 checks of strings and the contents of leaves in the codec, where a leaf is
  its size and an opaque content;
* the errno inside NLMSG_DONE, which the crate does not read and nf_tables dumps
  do not set.
