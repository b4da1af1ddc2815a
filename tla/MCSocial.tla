------------------------------- MODULE MCSocial -------------------------------
\* Two users, who have both typed: when the page is opened they are strangers,
\* one has asked the other, or they are friends.
EXTENDS Social

MCTyped == [u \in Users |-> IF u = "ann" THEN 2 ELSE 1]

MCEarlier == {{}, {[requester |-> "bob", addressee |-> "ann", status |-> "pending"]},
              {[requester |-> "bob", addressee |-> "ann", status |-> "accepted"]}}
=============================================================================
