--------------------------- MODULE MCViewerPages ---------------------------
EXTENDS ViewerPages

\* The layouts a book is opened with, with and without a blank beside the cover.
MCSettings == {<<"single", FALSE>>, <<"auto", TRUE>>}

\* Each way of starting a view once: shown, or one or both pages asked for.
MCHelds == {<<"texture", "texture">>, <<"nowhere", "nowhere">>,
            <<"frames", "nowhere">>, <<"nowhere", "frames">>}

=============================================================================
