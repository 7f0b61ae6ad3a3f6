------------------------------ MODULE MCHarvest ------------------------------
(* One of the three programs of Collections runs, on small instances; the  *)
(* others keep one state.                                                  *)
EXTENDS Collections

CONSTANT Programs  \* those looked at

VARIABLE program

(* "c1" has two pensioners and two images, "c2" a name without letter, "c3" *)
(* a date and no image, and an image of "c4" belongs to nobody.            *)
MCPeople == <<
  [card |-> "c1", last |-> "B", raw |-> "B"],
  [card |-> "c2", last |-> "", raw |-> "Mrs"],
  [card |-> "c1", last |-> "A", raw |-> "A"],
  [card |-> "c3", last |-> "", raw |-> "B"]>>

MCCardOf == [c1__1 |-> "c1", c1__2 |-> "c1", c2__3 |-> "c2", c4__4 |-> "c4"]

MCPartNames == <<"part001", "part002", "part003", "part004">>

MCPageCount == [r1 |-> 2, r2 |-> 1]

MCInit ==
  /\ program \in Programs
  /\ Init /\ V!Init /\ L!Init
  /\ program # "harvest" =>
       tool = (CHOOSE t \in Tools : TRUE) /\ counted /\ size = [i \in Items |-> 1]
  /\ program # "viewer" => mode = "letters"

Fetching ==
  program = "harvest" /\ UNCHANGED <<program, ViewerVars, LightboxVars>>

MCNext ==
  \/ Fetching /\ Next
  \/ /\ program = "viewer" /\ V!Next
     /\ UNCHANGED <<program, FetchingVars, LightboxVars>>
  \/ /\ program = "lightbox" /\ L!Next
     /\ UNCHANGED <<program, vars, ViewerVars>>

MCSpec ==
  /\ MCInit /\ [][MCNext]_<<program, vars, ViewerVars, LightboxVars>>
  /\ WF_<<program, vars, ViewerVars, LightboxVars>>(Fetching /\ Steps)
  /\ WF_<<program, vars, ViewerVars, LightboxVars>>(Fetching /\ Start(0, {}))
==============================================================================
