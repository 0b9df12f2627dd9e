-------------------------------- MODULE MCGold --------------------------------
(* An instance of Gold for TLC: versions 1.9 and 1.10 of one standard.        *)
EXTENDS Gold

MCTeamAtStart == [a \in {"gus"} |-> "gold"]
MCRolesAtStart == [a \in {"gus"} |-> {}]
MCVersions == {<<<<1>>, <<9>>>>, <<<<1>>, <<1, 0>>>>}
=============================================================================
