----------------------------- MODULE MCConsole ------------------------------
(* What scripts write in the console's runs: feeds that PigRun can send. *)
EXTENDS Console

Msg(kind, job) == [kind |-> kind, job |-> job]

\* Messages that only add a row (launch, jobsubmit, complete, ...) are left out:
\* "start" adds one, too.  So is the second job: the end of the first one comes
\* before the number of started jobs is the number of jobs, and is delayed.
TwoJobs == << Msg("start", 2), Msg("jobstart", 1), Msg("jobfinish", 1), Msg("progress", 100),
              Msg("success", 0) >>

\* the same without progress
ShortRun == SelectSeq(TwoJobs, LAMBDA m : m.kind # "progress")

\* Pig gives up during the first job
Aborted == << Msg("start", 1), Msg("jobstart", 1), Msg("fail", 0) >>

LongFeeds  == {TwoJobs, Aborted}
ShortFeeds == {ShortRun, Aborted}

SamePages == Permutations(Pages)
=============================================================================
