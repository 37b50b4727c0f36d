----------------------------- MODULE IpAddress -----------------------------
(***************************************************************************)
(* ipaddress.c: the host and the service of an address such as             *)
(* ip6://[::1]:80/.  What follows the family is a sequence of characters,  *)
(* of which "a" stands for all that mean nothing.                          *)
(***************************************************************************)
EXTENDS Heap

CONSTANT MaxLength   \* bound: characters behind the family

ASSUME LengthAssumption == MaxLength \in Nat

VARIABLE address     \* the address that was parsed: its parts and what was found

Families == {"ip4", "ip6", "ip", "unix", "other"}
Characters == {"a", ":", "/", "[", "]"}
Addresses == UNION {[1 .. n -> Characters] : n \in 0 .. MaxLength}

None == <<"NULL">>

(* The program has one address to parse.                                   *)
AddressInit ==
  \E family \in Families, uri \in Addresses : address = [gives |-> "none", family |-> family, uri |-> uri]

-----------------------------------------------------------------------------
(* Where strchr() finds c, and the strings before and behind it.           *)
Has(s, c) == \E i \in DOMAIN s : s[i] = c
First(s, c) == CHOOSE i \in DOMAIN s : s[i] = c /\ \A j \in 1 .. i - 1 : s[j] # c
Before(s, c) == IF Has(s, c) THEN SubSeq(s, 1, First(s, c) - 1) ELSE s
BehindFirst(s, c) == IF Has(s, c) THEN SubSeq(s, First(s, c) + 1, Len(s)) ELSE None

Bracket(family, s) == family = "ip6" /\ s # <<>> /\ s[1] = "["

(* Seeded fault: the service is looked for in the brackets, too.           *)
parts_from_node(family, s) ==
  LET node == IF Bracket(family, s) THEN Before(Tail(s), "]") ELSE s
  IN  IF family = "unix" THEN [node |-> s, service |-> None]
      ELSE [node |-> Before(Before(node, ":"), "/"),
            service |-> IF Has(node, ":") THEN Before(BehindFirst(node, ":"), "/") ELSE None]

(* Both are cut at a "/"; the service starts at the first ":" behind the   *)
(* brackets, even if it is part of a path.                                 *)
Parts(family, s) ==
  LET rest == IF Bracket(family, s) THEN BehindFirst(s, "]") ELSE s
      node == IF Bracket(family, s) THEN Before(Tail(s), "]") ELSE Before(s, ":")
  IN  IF family = "unix" THEN [node |-> s, service |-> None]
      ELSE [node |-> Before(node, "/"),
            service |-> IF Has(rest, ":") THEN Before(BehindFirst(rest, ":"), "/") ELSE None]

Unparsable(family, s) == family = "other" \/ (Bracket(family, s) /\ ~ Has(s, "]"))

(* The copy of the uri is the result; both parts point into it.            *)
ipaddress_parse ==
  /\ Idle /\ address.gives = "none"
  /\ LET family == address.family  uri == address.uri IN
     \/ Fails /\ Keeps /\ address' = [address EXCEPT !.gives = "NULL"]
     \/ /\ Unparsable(family, uri) /\ Succeeds /\ Keeps
        /\ address' = [address EXCEPT !.gives = "NULL"]
     \/ /\ ~ Unparsable(family, uri) /\ Succeeds /\ Gives
        /\ address' = [gives |-> "parts", family |-> family, uri |-> uri, found |-> Parts(family, uri)]
  /\ UNCHANGED <<temps, doing>>

-----------------------------------------------------------------------------
(* s[1 .. i] is a host: without special characters, or, for ip6, anything  *)
(* in brackets that is no path.                                            *)
BareHost(family, h) == ~ Has(h, ":") /\ ~ Has(h, "/") /\ ~ Bracket(family, h)
BracketedHost(family, h) ==
  Bracket(family, h) /\ ~ Has(h, "/") /\ Has(h, "]") /\ First(h, "]") = Len(h)

(* An address is a host, then perhaps ":" and a service, then perhaps a    *)
(* path.  ipaddress_parse() finds the host and the service of each that is *)
(* written like this, and all that follows unix:// as one part.  A path    *)
(* without a service may have no ":": what follows it would be taken for   *)
(* the service.  Nothing is refused but an unknown family, an open bracket *)
(* and what there is no memory for.                                        *)
AddressParts ==
  /\ address.gives = "NULL" /\ ~ failed =>
       address.family = "other" \/ (Bracket(address.family, address.uri) /\ ~ Has(address.uri, "]"))
  /\ address.gives = "parts" =>
       LET s == address.uri  family == address.family IN
       /\ family = "unix" => address.found = [node |-> s, service |-> None]
       /\ family # "unix" => \A i \in 0 .. Len(s) : \A j \in i .. Len(s) :
            LET host == SubSeq(s, 1, i)
                port == SubSeq(s, i + 1, j)
                path == SubSeq(s, j + 1, Len(s))
            IN  /\ path = <<>> \/ path[1] = "/"
                /\ IF port = <<>> THEN ~ Has(path, ":") ELSE port[1] = ":" /\ ~ Has(port, "/")
                /\ BareHost(family, host) \/ BracketedHost(family, host)
                => address.found =
                     [node |-> IF Bracket(family, host) THEN SubSeq(host, 2, i - 1) ELSE host,
                      service |-> IF port = <<>> THEN None ELSE Tail(port)]

=============================================================================
