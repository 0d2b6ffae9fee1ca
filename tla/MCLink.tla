------------------------------- MODULE MCLink -------------------------------
(* A model-checking instance of Link: two hosts that send to each other.    *)
EXTENDS Link

MCHost == {"home", "work"}
OneEach == {[id |-> 1, from |-> "home", to |-> "work"],
            [id |-> 2, from |-> "work", to |-> "home"]}
=============================================================================
