---------------------------- MODULE MCCrawlCommand ----------------------------
(* Instance of CrawlCommand for TLC, on the groups of MCDungeonCrawl: clients *)
(* send whole requests, with and without a body, that comes or does not;      *)
(* requests that stop in the headers or at once; and a line that is too long. *)
EXTENDS MCDungeonCrawl, CrawlCommand

MCStreams ==
  {<<"line", "header", "blank", "eof">>,
   <<"line", "length", "blank", "bytes", "stall">>,
   <<"line", "header", "stall">>, <<"long", "eof">>, <<"eof">>}
MCRequests ==
  {[method |-> "GET", path |-> <<"index">>], [method |-> "GET", path |-> <<"room", 2>>],
   [method |-> "POST", path |-> <<"index">>]}
=============================================================================
