------------------------------ MODULE MCFraming ------------------------------
(* A file that ends in more zeros than the sink holds back, and another.   *)
EXTENDS Framing

MCMembers == << <<<<<<1, 0>>>>, <<<<1, 1>>, Zero, Zero>>>>,
                <<<<<<2, 0>>>>, <<<<2, 1>>>>>> >>
MCSnapshot == <<<<<<9, 0>>>>>>
=============================================================================
