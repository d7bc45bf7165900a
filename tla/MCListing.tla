------------------------------ MODULE MCListing ------------------------------
(* TLC instance of Listing: objects that differ in family, table or chain, *)
(* and one query of each kind.                                             *)
EXTENDS Listing, SequencesExt

Object(family, table, chain) ==
  [family |-> family, table |-> table, chain |-> chain]

MCBodies == {Object("Inet", "t", "c"), Object("Ipv6", "t", "c"),
             Object("Inet", "t", "d"), Object("Inet", "u", "c")}

MCOpaque == {Object("Inet", "t", "d")}

MCInitial == {SetToSeq(S) : S \in SUBSET MCBodies}

Query(op, table, chain) ==
  [op |-> op, family |-> "Inet", table |-> table, chain |-> chain]

MCQueries == {Query("tables", "t", "c"), Query("chains", "t", "c"),
              Query("rules", "t", "c"), Query("rules", "t", NoName)}

==============================================================================
