---------------------------- MODULE CloudClient ----------------------------
(***************************************************************************)
(* One exchange with the cloud (bambulab/client.go do): what a request     *)
(* whose response has arrived returns.  A response is its status class,    *)
(* whether its body carries an error code or name, and what the body is:   *)
(* nothing, no JSON of the expected shape, a token, a challenge or another *)
(* object.                                                                 *)
(***************************************************************************)
Bodies   == {"blank", "garbage", "token", "verifyCode", "other"}
Response == {r \in [status : {"2xx", "else"}, envelope : BOOLEAN, body : Bodies] :
                 r.body \in {"blank", "garbage"} => ~r.envelope}

\* Mutant of do: an application error under a good status is overlooked.
doIgnoringEnvelope(r) ==
    IF r.status # "2xx" \/ r.body = "garbage" THEN "error"
    ELSE IF r.body = "blank" THEN "other"
    ELSE r.body

\* An APIError for the status or the envelope, an empty result for a blank body, an
\* error for one that does not decode, else what the body says.
do(r) ==
    IF r.status # "2xx" \/ r.envelope \/ r.body = "garbage" THEN "error"
    ELSE IF r.body = "blank" THEN "other"
    ELSE r.body
=============================================================================
