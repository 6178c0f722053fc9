------------------------------ MODULE MCLibrary -------------------------------
(* The parts of the library that a program calls by themselves: encryption,  *)
(* URLs, request lines, time stamps and lock guards.  They share no state;   *)
(* part says which of them a behaviour is about.                             *)
EXTENDS Crypto, Url, Query, Clock, ScopedLock
LOCAL INSTANCE SequencesExt

VARIABLE part

cryptoVars == vars
libVars == <<part, cryptoVars, urlVars, queryVars, clockVars, lockVars>>

LibInit ==
  /\ part \in {"crypto", "url", "query", "clock", "lock"}
  /\ Init /\ UrlInit /\ QueryInit /\ ClockInit /\ LockInit
  /\ part # "crypto" => v_in = <<>> /\ enum = 1 /\ dnum = 7

LibNext ==
  /\ UNCHANGED part
  /\ \/ /\ part = "crypto" /\ Next
        /\ UNCHANGED <<urlVars, queryVars, clockVars, lockVars>>
     \/ /\ part = "url" /\ UrlNext
        /\ UNCHANGED <<cryptoVars, queryVars, clockVars, lockVars>>
     \/ /\ part = "query" /\ QueryNext
        /\ UNCHANGED <<cryptoVars, urlVars, clockVars, lockVars>>
     \/ /\ part = "clock" /\ ClockNext
        /\ UNCHANGED <<cryptoVars, urlVars, queryVars, lockVars>>
     \/ /\ part = "lock" /\ LockNext
        /\ UNCHANGED <<cryptoVars, urlVars, queryVars, clockVars>>

LibSpec == LibInit /\ [][LibNext]_libVars

-----------------------------------------------------------------------------
(* Vectors of at most three bytes out of four; every residue of the keys,    *)
(* negative ones included.                                                   *)
MCBytes == {{}, {0, 2, 5, 7}, {1, 3, 4}, Bits}
MCInputs == UNION {[1..n -> MCBytes] : n \in 0..3}
MCKeys == {-9, -1, 0, 1, 4, 7, 8, 15}

(* What hosts, paths and requests are made of.                               *)
MCLetters == {"http", "s", ":", "/", "a", "b", "v", "x", "?", "u", "=", "&", "amp", "SP",
              "HTTP", "GET", "POST", "VPath", "h", "k", "p", "q", "r"}

(* Ports on both sides of the largest short; paths that are missing, plain,  *)
(* and with another URL in them.                                             *)
MCUrls ==
  [https : BOOLEAN, host : {Str(<<"a">>), Str(<<"b">>)}, port : {NoPort, 8080, 32768},
   path : {<<>>, slash, Str(<<"/", "x">>),
           Str(<<"/", "?", "u", "=">>) \o http \o Str(<<"b", ":", "v">>)}]

(* Keys given twice, without a value, without "=", and the key of the path;  *)
(* targets on both sides of seven characters.                                *)
MCArgs ==
  LET k == Str(<<"k">>) v == Str(<<"v">>)
  IN {<<>>, << <<v>> >>, << <<k, <<>>>>, <<k, v>> >>, << <<k, v>>, <<v>>, <<k, k>> >>,
      << <<VPATH, v>>, <<k, v \o Equals \o slash>> >>}

(* The text of arguments, with sep between them.                             *)
MCQuery(args, sep) ==
  FoldLeft(LAMBDA s, a : (IF s = <<>> THEN s ELSE s \o sep) \o ArgText(a), <<>>, args)

MCRequests ==
  { [type |-> r.type, method |-> r.method, host |-> r.host, lead |-> r.lead, path |-> r.path,
     query |-> MCQuery(r.args, r.sep), args |-> r.args] :
    r \in { r \in [type : {"GET", "POST"}, method : {"GET"}, host : {<<>>, Str(<<"h">>)},
                   lead : {<<>>, slash, Str(<<"SP", "/">>)},
                   path : {<<>>, Str(<<"p">>), Str(<<"p", "/", "q", "r", "s">>)},
                   sep : {Amp, Amp \o Str(<<"amp", "amp">>)}, args : MCArgs] :
            /\ r.type = r.method \/ Len(r.args) = 3
            /\ r.host = <<>> => r.lead # <<>>
            /\ r.host # <<>> => r.lead \in {<<>>, slash} /\ (r.lead = <<>> => r.path = <<>>)
            /\ r.sep = Amp \/ Len(r.args) > 1
            /\ r.lead = slash \/ Len(r.path) # 1 } }
===============================================================================
