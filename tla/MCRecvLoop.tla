------------------------------ MODULE MCRecvLoop ------------------------------
(* TLC instance of RecvLoop: every kind of message that parse_nlmsg tells  *)
(* apart, alone or packed with others, in a buffer that fills up after a   *)
(* few datagrams.  As in the code MaxSize is not a multiple of 4.          *)
EXTENDS RecvLoop, TLC

CONSTANTS o1, o2

MCBodies == {o1, o2}

Msg(type, len, seq, flags, error, body) ==
  [type |-> type, len |-> len, seq |-> seq, flags |-> flags, error |-> error,
   version |-> NFNETLINK_V0, body |-> body]

Ack(seq)   == Msg("ERROR", 36, seq, {}, 0, o1)
Nack(seq)  == Msg("ERROR", 38, seq, {}, -2, o1)
Object(b)  == Msg("NFT", 24, 0, {"MULTI"}, 0, b)
Done       == Msg("DONE", 20, 0, {"MULTI"}, 0, o1)
Noop       == Msg("NOOP", 17, 0, {"MULTI"}, 0, o1)

One(m) == [size |-> Pad(m.len), at |-> 0 :> m]

Two(m, n) ==
  [size |-> Pad(m.len) + Pad(n.len), at |-> 0 :> m @@ Pad(m.len) :> n]

MCDatagrams ==
  {One(m) : m \in
     {Ack(1), Ack(2), Nack(1), Object(o1), Object(Undecodable), Done,
      Msg("NFT", 24, 0, {}, 0, o2),
      Msg("NFT", 24, 0, {"MULTI", "DUMP_INTR"}, 0, o2),
      [Object(o1) EXCEPT !.version = 1],
      Msg("CONTROL", 16, 0, {"MULTI"}, 0, o1),
      Msg("FOREIGN", 20, 0, {"MULTI"}, 0, o1)}}
  \cup {Two(Object(o1), Object(o2)), Two(Noop, Object(o2)),
        Two(Ack(1), Nack(2))}
  \cup {[size |-> 0, at |-> EmptyMem]}

===============================================================================
