------------------------------ MODULE MCEngine ------------------------------
EXTENDS Engine

\* Nothing rejected, or one record rejected by one block only.
MCExcludedSets == {{}, {<<0, 1>>, <<1, 4>>}}

\* No failure; two records of one chunk; records of two blocks, the later
\* block's record coming first in the data.
MCThrowingSets == {{}, {<<0, 3>>, <<0, 4>>}, {<<0, 2>>, <<1, 0>>}}
=============================================================================
