---------------------------- MODULE MCJobManager ----------------------------
(* CJobManager with a few jobs and workers; see the configurations.        *)
EXTENDS JobManager

CONSTANTS j1, j2, j3, w1, w2

(* Two pausable jobs, of which one may run at a time (max_workers = 4), and *)
(* one that is DEDICATED.                                                   *)
MCCalls == {<<j1, PRIORITY_LOW_PAUSABLE, TRUE>>, <<j2, PRIORITY_LOW_PAUSABLE, FALSE>>,
            <<j3, PRIORITY_DEDICATED, TRUE>>}

OneCall == {<<j1, PRIORITY_LOW_PAUSABLE, TRUE>>}
=============================================================================
