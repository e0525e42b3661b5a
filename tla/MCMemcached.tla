------------------------------ MODULE MCMemcached ------------------------------
(* Two ticks a second and times beyond the threshold of 5 seconds.  The
   lifetimes are none, less than a second, sent as a duration (2 and 4
   seconds, and one with a rest), as a time (5, the threshold, and 7.5
   seconds), or as a time that is past the last second of an int32 for a part
   of the run (20 seconds) or for all of it (31, the most that New accepts);
   one is refused. *)
EXTENDS Memcached

MCDurations == {-2, 0, 1, 4, 7, 8, 10, 15, 40, 62, 65}
=============================================================================
