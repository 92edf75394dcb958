---------------------------- MODULE MCGitHubDispatch ----------------------------
(* Instances of GitHubDispatch for TLC. *)
EXTENDS GitHubDispatch, TLC

(* One error of each class, and each way of a class.                        *)
Lost == Error(0, None, None, None, "other", "network")
Dropped == Error(0, None, None, None, "other", "none")
Refused == Error(401, None, None, None, "other", "none")
Unavailable == Error(503, None, None, None, "other", "none")
Unmodified == Error(304, None, None, None, "other", "unmodified")
RetryAfter == Error(403, 7, 4999, None, "secondary", "none")
TooQuick == Error(403, None, 4999, None, "secondary", "none")
LimitedPast == Error(403, None, 0, 0 - 30, "primary", "none")
LimitedUnknown == Error(403, None, None, None, "primary", "none")

KindReplies == {Refused, Unavailable, Unmodified, TooQuick, LimitedPast,
                LimitedUnknown}
KindRates == {Error(200, None, None, 40, "other", "none"), Unavailable}
FewReplies == {Lost, Dropped, RetryAfter}
FewRates == {Refused}
CallerSymmetry == Permutations(Callers)
=============================================================================
