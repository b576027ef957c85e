\* Three requests, two keys, two review tokens, two Turnstile answers.
SPECIFICATION SubmitSpec
CONSTANTS
    Request = {r1, r2, r3}
    Key = {k1, k2}
    Token = {a, b}
    Captcha = {c1, c2}
    None = None
SYMMETRY SubmitSymmetry
CHECK_DEADLOCK FALSE
INVARIANTS
    RepliesGoToTheBearer
    ReviewsArePaidFor
    ReviewsHaveTheirTask
    NoUrlMeansUploaded
    ReplaysAreFree
PROPERTIES
    BearersAreNotRefused
