------------------------------ MODULE MCRecords ------------------------------
(* One of two programs runs: the programs that look for a death date on a  *)
(* pension card (DeathDate), or those around the graves registry           *)
(* (Registry).                                                             *)
EXTENDS Records, Integers, Sequences

VARIABLE program

(* A word and a date on a card, as DeathDate has them.                     *)
Word(is) == [is |-> is, year |-> 0, kind |-> "none"]
Dated(year, kind) == [is |-> "date", year |-> year, kind |-> kind]

(* The lines found on pension cards, and the cards made of them.           *)
Other == Word("other")
Name == <<Word("soldier"), Other>>
Died == <<Word("died"), Dated(1933, "stamped")>>
DiedShort == <<Word("died"), Dated(1931, "short")>>
Obit == <<Dated(1930, "year"), Word("obit")>>
Granted == <<Word("granted"), Dated(1915, "stamped")>>
Came == <<Word("came"), Dated(1912, "year")>>
Home == <<Word("home"), Dated(1929, "short")>>
Stray == <<Dated(1915, "year")>>
Served == <<Dated(1912, "month"), Word("soldier"), Other, Other, Other, Other>>
Year == <<Dated(1930, "year")>>
Prose == [i \in 1 .. 7 |-> Other]

MCRed == {Died, DiedShort, Granted, Stray}
MCLines == {Name, Died, DiedShort, Obit, Granted, Came, Home, Stray, Prose, Served}
MCCards ==
  [front |-> UNION {[1 .. n -> MCLines] : n \in 0 .. 2} \cup
             [1 .. 3 -> {Name, DiedShort, Granted, Home}],
   back |-> {<<>>, <<Name, Came>>, <<Year>>}]

(* Three registry records; the first names are chosen so that two pairs of *)
(* them are alike and the third pair is not.                               *)
Jon == <<"j", "o", "n">>
John == <<"j", "o", "h", "n">>
Johan == <<"j", "o", "h", "a", "n">>
Akers == <<"a", "k", "e", "r", "s">>
Akres == <<"a", "k", "r", "e", "s">>

Vet(l, f, b, d, u, c) ==
  [last |-> l, first |-> f, born |-> b, died |-> d, unit |-> u, cem |-> c,
   rank |-> "", state |-> "OK"]

MCVets ==
  {Vet(Akers, f, 1840, 1910, "TX", 7) : f \in {Jon, John, Johan, <<>>}}
  \cup {Vet(Akres, Jon, 1840, 0, "", 0), Vet(Akers, John, 1849, 0, "", 0),
        Vet(Akers, John, 1844, 0, "AL", 0), Vet(<<>>, Jon, 0, 0, "TX", 0)}
MCIds == {2, 10, 11}
MCFiles == [MCIds -> MCVets]
MCPensioners == {5, 6}
MCLinks == {<<>>} \cup [MCPensioners -> {{2, 11}, {10, 11}}]
                  \cup [{5} -> {{}, {77}, {77, 2}}]
MCSoundAlike ==
  ({Jon, John, Johan} \X {Jon, John, Johan}) \cup ({Akers, Akres} \X {Akers, Akres})

Memorial(i, s, l, f, d) ==
  [id |-> i, slug |-> s, last |-> l, first |-> f, died |-> d, state |-> "OK"]
MCRows ==
  {[last |-> Akers, first |-> f, born |-> b, unit |-> "TX", status |-> st, fag |-> g] :
     f \in {Jon, John, <<>>}, b \in {0, 1842},
     st \in {"auto_accept", "needs_review", "no_results"},
     g \in {<<>>, <<Memorial(1, "a", Akres, John, 1910), Memorial(2, "b", Akers, Jon, 0)>>}}
MCDixie ==
  <<[last |-> Akers, first |-> Jon, id |-> 1, slug |-> "x"],
    [last |-> Akers, first |-> John, id |-> 2, slug |-> "b"]>>

MCOrders == {<<2, 10, 11>>, <<11, 2, 10>>}

(* The program that does not run has the least it can begin with.  Bound:  *)
(* a card with a year on its back has one line at most on its front, and   *)
(* one with anything on its back two.                                      *)
MCInit ==
  \/ /\ program = "dates" /\ D!Init
     /\ card["back"] # <<>> => Len(card["front"]) <= 2
     /\ card["back"] = <<Year>> => Len(card["front"]) <= 1
     /\ records = <<>> /\ order = <<>> /\ links = <<>> /\ pairs = {}
     /\ parent = [c \in Ids |-> c] /\ height = [c \in Ids |-> 0] /\ joined = {}
     /\ persons = <<>> /\ personOf = <<>> /\ whoIs = <<>>
     /\ judged = R!NoRow /\ phase = "off"
  \/ /\ program = "registry" /\ R!Init
     /\ card = [s \in Sides |-> <<>>] /\ rec = [s \in Sides |-> D!Unread]
     /\ row = D!NoDate /\ stale = TRUE

MCNext ==
  \/ program = "dates" /\ D!Next /\ UNCHANGED <<program, RegistryVars>>
  \/ program = "registry" /\ R!Next /\ UNCHANGED <<program, CardVars>>

MCSpec == MCInit /\ [][MCNext]_<<program, CardVars, RegistryVars>>
==============================================================================
