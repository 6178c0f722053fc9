------------------------------- MODULE Query ---------------------------------
(***************************************************************************)
(* The request line of a client, taken apart by http::get_vpath() and       *)
(* http::parse_url() (net.cpp), a turn of their loops at a time; the caller *)
(* keeps its string and its map from one request to the next.               *)
(***************************************************************************)
EXTENDS Text, FiniteSets

CONSTANTS
  Requests,   \* [type, method, host, lead, path, query, args]: the HTTP_TYPE the
              \* caller passes; the request's method; the host of a target that
              \* is a whole URL, else empty; slashes and blanks before the path;
              \* the text behind "?", and the arguments it spells, each
              \* <<key, value>> or, without "=", <<text>>
  NoRequest

Equals == Str(<<"=">>)
Amp == Str(<<"&">>)
Question == Str(<<"?">>)
VPATH == Str(<<"VPath">>)

ArgText(a) == IF Len(a) = 1 THEN a[1] ELSE a[1] \o Equals \o a[2]
Key(a) == IF Len(a) = 1 THEN <<>> ELSE a[1]
Value(a) == IF Len(a) = 1 THEN <<>> ELSE a[2]

(* Where the text of argument k ends that stands at at[k].                  *)
EndOf(args, at, k) == at[k] + Len(ArgText(args[k]))

(* The arguments stand in s one behind the other, with an "&" between them  *)
(* and any number of "amp;" behind that.                                    *)
Lists(s, args, at) ==
  /\ at[1] = 1
  /\ \A k \in 1..(Len(args) - 1) : EndOf(args, at, k) < at[k + 1]
  /\ EndOf(args, at, Len(args)) = Len(s) + 1
  /\ \A k \in 1..Len(args) : \A j \in 1..Len(ArgText(args[k])) :
       s[at[k] + j - 1] = ArgText(args[k])[j]
  /\ \A k \in 1..(Len(args) - 1) :
       /\ s[EndOf(args, at, k)] = Piece("&")
       /\ \A j \in (EndOf(args, at, k) + 1)..(at[k + 1] - 1) : s[j] = Piece("amp")

Spells(s, args) ==
  \E at \in [1..Len(args) -> 1..(Len(s) + 1)] : Lists(s, args, at)

(* No "&" in an argument, and no "=" in its key or in one without value.    *)
IsArgument(a) ==
  /\ Len(a) \in {1, 2}
  /\ \A j \in 1..Len(ArgText(a)) : ArgText(a)[j] \notin {Piece("&"), Piece("amp")}
  /\ \A j \in 1..Len(a[1]) : a[1][j] # Piece("=")

(* The method, the target, then " HTTP".                                    *)
HostText(r) == IF r.host = <<>> THEN <<>> ELSE http \o r.host
QueryText(r) == IF r.args = <<>> THEN <<>> ELSE Question \o r.query
TargetText(r) == HostText(r) \o (r.lead \o (r.path \o QueryText(r)))
RequestText(r) ==
  Str(<<r.method, "SP">>) \o (TargetText(r) \o Str(<<"SP", "HTTP", "/">>))

(* A target is a whole URL, or has slashes and blanks in front, one at      *)
(* least.  A path has neither in front and ends at its "?", and an entity   *)
(* is only in the arguments.  What ends a target, or begins one of the      *)
(* other method, is not in it.                                              *)
ASSUME RequestAssumption ==
  \A r \in Requests :
    /\ r.type \in {"GET", "POST"} /\ r.method \in Letters /\ r.type \in Letters
    /\ r.host \in Seq(Characters) /\ r.lead \in Seq(Characters) /\ r.path \in Seq(Characters)
    /\ r.query \in Seq(Characters) /\ r.args \in Seq(Seq(Seq(Characters)))
    /\ \A k \in 1..Len(r.host) : r.host[k] # Piece("/")
    /\ \A k \in 1..Len(r.lead) : r.lead[k] \in {Piece("/"), Piece("SP")}
    /\ IF r.host = <<>> THEN r.lead # <<>>
       ELSE IF r.lead = <<>> THEN r.path = <<>> ELSE r.lead[1] = Piece("/")
    /\ \A k \in 1..Len(r.path) : r.path[k] \notin {Piece("?"), Piece("amp")}
    /\ r.path # <<>> => r.path[1] \notin {Piece("/"), Piece("SP")}
    /\ \A k \in 1..Len(r.args) : IsArgument(r.args[k])
    /\ r.args # <<>> => Spells(r.query, r.args)
    /\ \A k \in 1..Len(TargetText(r)) : TargetText(r)[k] = Piece(r.type) => r.type = r.method
    /\ \A k \in 1..(Len(TargetText(r)) - 1) :
         TargetText(r)[k] = Piece("SP") => TargetText(r)[k + 1] # Piece("HTTP")

VARIABLES
  s_vpath,      \* what get_vpath() has found
  urlArgMap,    \* what parse_url() has made of it
  pos2,         \* of parse_url(): where the next argument begins
  stage,        \* how far the two functions are
  request       \* history: the request read last

queryVars == <<s_vpath, urlArgMap, pos2, stage, request>>

QueryInit ==
  /\ s_vpath = <<>>
  /\ urlArgMap = <<>>
  /\ pos2 = npos
  /\ stage = "start"
  /\ request = NoRequest

(* Substr(), with one blank at the end of the head.                         *)
Between(s, head, tail) ==
  LET pos1 == Find(head, s)
      end == FindFrom(tail, s, pos1 + Len(head))
  IN IF pos1 = npos \/ end = npos THEN <<>>
     ELSE SubSeq(s, pos1 + Len(head), end - 1)

(* size(), by the words that are longer than a character.                   *)
Count(s, words) == Cardinality({k \in 1..Len(s) : s[k] \in words})
SizeOf(s) ==
  Len(s) + 2 * Count(s, {Piece("GET")})
         + 3 * Count(s, {Piece("http"), Piece("HTTP"), Piece("POST"), Piece("amp")})
         + 4 * Count(s, {Piece("VPath")})

(* get_vpath(): a short target is left as it is,                            *)
ReadTarget(r) ==
  /\ stage \in {"start", "parsed"}
  /\ s_vpath' = Between(RequestText(r), Str(<<r.type, "SP">>), Str(<<"SP", "HTTP">>))
  /\ stage' = IF SizeOf(s_vpath') < 7 THEN "vpath" ELSE "host"
  /\ request' = r
  /\ UNCHANGED <<urlArgMap, pos2>>

(* of a whole URL only what follows the host is kept,                       *)
DropHost ==
  LET pos == FindFrom(slash, s_vpath, Len(http) + 1) IN
  /\ stage = "host"
  /\ \/ /\ Find(http, s_vpath) # 1
        /\ stage' = "front"
        /\ UNCHANGED s_vpath
     \/ /\ Find(http, s_vpath) = 1 /\ pos = npos
        /\ stage' = "vpath"
        /\ s_vpath' = <<>>
     \/ /\ Find(http, s_vpath) = 1 /\ pos # npos
        /\ stage' = "front"
        /\ s_vpath' = From(s_vpath, pos)
  /\ UNCHANGED <<urlArgMap, pos2, request>>

(* slashes and blanks in front are erased,                                  *)
InFront == s_vpath # <<>> /\ s_vpath[1] \in {Piece("/"), Piece("SP")}

EraseFront ==
  /\ stage = "front"
  /\ s_vpath' = IF InFront THEN From(s_vpath, 2) ELSE s_vpath
  /\ stage' = IF InFront THEN stage ELSE "entities"
  /\ UNCHANGED <<urlArgMap, pos2, request>>

(* and "&amp;" becomes "&" until there is none.                             *)
ReplaceEntity ==
  LET pos == Find(Str(<<"&", "amp">>), s_vpath) IN
  /\ stage = "entities"
  /\ s_vpath' = IF pos = npos THEN s_vpath
                ELSE Before(s_vpath, pos) \o Amp \o From(s_vpath, pos + 2)
  /\ stage' = IF pos = npos THEN "vpath" ELSE stage
  /\ UNCHANGED <<urlArgMap, pos2, request>>

DivideArgument(s) ==
  LET pos == Find(Equals, s)
  IN IF pos = npos THEN << <<>>, <<>> >> ELSE <<Before(s, pos), From(s, pos + 1)>>

(* Mutant: map[key] = value.                                                *)
InsertLast(map, pair) ==
  [key \in DOMAIN map \cup {pair[1]} |-> IF key = pair[1] THEN pair[2] ELSE map[key]]

(* map::insert(): a key that is there keeps its value.                      *)
Insert(map, pair) ==
  [key \in DOMAIN map \cup {pair[1]} |-> IF key \in DOMAIN map THEN map[key] ELSE pair[2]]

(* parse_url(): the path goes into the cleared map,                         *)
ParseUrl ==
  LET pos1 == Find(Question, s_vpath) IN
  /\ stage = "vpath"
  /\ urlArgMap' = Insert(<<>>, <<VPATH, IF pos1 = npos THEN s_vpath ELSE Before(s_vpath, pos1)>>)
  /\ pos2' = IF pos1 = npos THEN npos ELSE pos1 + 1
  /\ stage' = IF pos1 = npos THEN "parsed" ELSE "arguments"
  /\ UNCHANGED <<s_vpath, request>>

(* then one argument after the other.                                       *)
ParseArgument ==
  LET pos3 == FindFrom(Amp, s_vpath, pos2)
      sArgSec == IF pos3 = npos THEN From(s_vpath, pos2) ELSE SubSeq(s_vpath, pos2, pos3 - 1)
  IN
  /\ stage = "arguments"
  /\ urlArgMap' = Insert(urlArgMap, DivideArgument(sArgSec))
  /\ pos2' = IF pos3 = npos THEN npos ELSE pos3 + 1
  /\ stage' = IF pos3 = npos THEN "parsed" ELSE stage
  /\ UNCHANGED <<s_vpath, request>>

QueryNext ==
  \/ \E r \in Requests : ReadTarget(r)
  \/ DropHost
  \/ EraseFront
  \/ ReplaceEntity
  \/ ParseUrl
  \/ ParseArgument

QuerySpec == QueryInit /\ [][QueryNext]_queryVars

-----------------------------------------------------------------------------
(* The path; a target of less than seven characters keeps what is in front. *)
AskedPath(r) == IF SizeOf(TargetText(r)) < 7 THEN r.lead \o r.path ELSE r.path

(* The map holds the path and every key of the first n arguments, a key     *)
(* with the value it is first given; none stands in for the path.           *)
Holds(map, r, n) ==
  /\ DOMAIN map = {VPATH} \cup {Key(r.args[k]) : k \in 1..n}
  /\ map[VPATH] = AskedPath(r)
  /\ \A k \in 1..n :
       Key(r.args[k]) \notin {VPATH} \cup {Key(r.args[j]) : j \in 1..(k - 1)}
         => map[Key(r.args[k])] = Value(r.args[k])

(* A whole URL that has arguments and no path: get_vpath() takes the first  *)
(* slash in an argument for the beginning of the path, or finds nothing.    *)
Pathless(r) == r.host # <<>> /\ r.lead = <<>> /\ r.args # <<>>

(* The map holds what this request asks for and nothing of an earlier one;  *)
(* a method that is not the one the caller expects gives the empty path.    *)
(* Two exceptions: a pathless URL, and a target of less than seven          *)
(* characters, which keeps what is in front of its path.                    *)
AnswersRequest ==
  stage = "parsed" /\ ~ Pathless(request) =>
    IF request.type = request.method THEN Holds(urlArgMap, request, Len(request.args))
    ELSE urlArgMap = [key \in {VPATH} |-> <<>>]
=============================================================================
